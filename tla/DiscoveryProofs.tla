---------------------------- MODULE DiscoveryProofs ----------------------------
(***************************************************************************)
(* What a discovery service gives up, and itself (MCServices): every       *)
(* payload is freed with the last message that carries it, and the service *)
(* when nothing refers to it any more.                                     *)
(***************************************************************************)
EXTENDS ServicesProofs

\* The messages in flight: sent, queued, or taken off a queue and not yet handled (O).
Pool(t, O) == t.sends \cup D!ToSet(t.sendQ) \cup O
Carriers(t, O, b) == {x \in Pool(t, O) : x.buf = b}
\* A message is in one place.
Apart(t, O) ==
    /\ \A i, j \in DOMAIN t.sendQ : i # j => t.sendQ[i] # t.sendQ[j]
    /\ t.sends \cap D!ToSet(t.sendQ) = {} /\ O \cap (t.sends \cup D!ToSet(t.sendQ)) = {}
\* The references of each payload are those of the messages and the service; U is the
\* payloads that were not made yet.
Paid(t, O, U) ==
    \A b \in D!Buffers :
        /\ t.buffer[b].refs = Cardinality(Carriers(t, O, b)) + (IF t.service.payload = b THEN 1 ELSE 0)
        /\ t.buffer[b].st = "live" <=> t.buffer[b].refs > 0
        /\ t.buffer[b].st = "unused" <=> b \in U
Books(t, O, U) ==
    /\ Typed(t) /\ O \in SUBSET Message /\ IsFiniteSet(O)
    /\ Paid(t, O, U) /\ Apart(t, O)
    /\ \A x \in Pool(t, O) : x.kind = "goodbye" => x.buf = NULL

LEMMA PoolFinite ==
    ASSUME NEW t, Typed(t), NEW O \in SUBSET Message, IsFiniteSet(O)
    PROVE  /\ Pool(t, O) \in SUBSET Message /\ IsFiniteSet(Pool(t, O))
           /\ \A b : IsFiniteSet(Carriers(t, O, b)) /\ Cardinality(Carriers(t, O, b)) \in Nat
<1> DEFINE Q == D!ToSet(t.sendQ)
           P0 == t.sends \cup Q
<1>1. t.sends \in SUBSET Message /\ IsFiniteSet(t.sends) /\ Q \in SUBSET Message /\ IsFiniteSet(Q)
  BY Parts, QueueSet
<1> HIDE DEF Q
<1>2. P0 \in SUBSET Message /\ IsFiniteSet(P0)
  BY <1>1, FS_Union
<1>3. Pool(t, O) = P0 \cup O
  BY DEF Pool, Q
<1> HIDE DEF P0
<1>4. Pool(t, O) \in SUBSET Message /\ IsFiniteSet(Pool(t, O))
  BY <1>2, <1>3, FS_Union
<1>5. ASSUME NEW b PROVE IsFiniteSet(Carriers(t, O, b)) /\ Cardinality(Carriers(t, O, b)) \in Nat
  <2>1. Carriers(t, O, b) \in SUBSET Pool(t, O)
    BY DEF Carriers
  <2>2. IsFiniteSet(Carriers(t, O, b))
    BY <1>4, <2>1, FS_Subset
  <2> QED BY <2>2, FS_CardinalityType
<1> QED BY <1>4, <1>5

\* Only the messages, the payloads and the service's own payload matter.
LEMMA BooksSame ==
    ASSUME NEW t, NEW u, NEW O, NEW U, Books(t, O, U), Typed(u), u.sends = t.sends, u.sendQ = t.sendQ,
           u.buffer = t.buffer, u.service.payload = t.service.payload
    PROVE  Books(u, O, U)
<1>1. Pool(u, O) = Pool(t, O) /\ \A b : Carriers(u, O, b) = Carriers(t, O, b)
  BY DEF Pool, Carriers
<1>2. Paid(u, O, U)
  BY <1>1 DEF Books, Paid
<1>3. Apart(u, O)
  BY DEF Books, Apart
<1> QED BY <1>1, <1>2, <1>3 DEF Books

\* A message goes from one place to another.
LEMMA BooksMove ==
    ASSUME NEW t, NEW u, NEW O, NEW S, NEW U, Books(t, O, U), Typed(u), S \in SUBSET Message, IsFiniteSet(S),
           Pool(u, S) = Pool(t, O), u.buffer = t.buffer, u.service.payload = t.service.payload, Apart(u, S)
    PROVE  Books(u, S, U)
<1>1. \A b : Carriers(u, S, b) = Carriers(t, O, b)
  BY DEF Carriers
<1>2. Paid(u, S, U)
  BY <1>1 DEF Books, Paid
<1> QED BY <1>2 DEF Books

LEMMA NullIs == NULL \notin D!Buffers /\ D!Maybe(D!Buffers) = D!Buffers \cup {NULL}
BY NullAssumption DEF D!Buffers, D!Maybe

\* What the counting of references does to a state.
LEMMA DecRefIs ==
    ASSUME NEW t, Typed(t), NEW b \in D!Buffers
    PROVE  LET u == D!SharedBufferDecRef(t, b)
           IN  /\ Typed(u) /\ u.sends = t.sends /\ u.sendQ = t.sendQ /\ u.service = t.service /\ u.rx = t.rx
               /\ u.requests = t.requests /\ u.signalled = t.signalled
               /\ u.buffer[b].refs = t.buffer[b].refs - 1
               /\ u.buffer[b].st = (IF t.buffer[b].refs = 1 THEN "freed" ELSE t.buffer[b].st)
               /\ \A c \in D!Buffers : c # b => u.buffer[c] = t.buffer[c]
<1> DEFINE e == t.buffer[b]
           g == [refs |-> e.refs - 1, st |-> IF e.refs = 1 THEN "freed" ELSE e.st]
           f == [t.buffer EXCEPT ![b] = g]
           u == [t EXCEPT !.buffer = f]
<1>1. t.buffer \in BufferType /\ e \in [refs : Int, st : {"unused", "live", "freed"}] /\ b # NULL
  BY Parts, NullIs DEF BufferType
<1>2. D!SharedBufferDecRef(t, b) = u
  BY <1>1 DEF D!SharedBufferDecRef, Typed, StateType, BufferType
<1>3. f \in BufferType /\ f[b] = g /\ \A c \in D!Buffers : c # b => f[c] = t.buffer[c]
  BY <1>1 DEF BufferType
<1>4. g.refs = e.refs - 1 /\ g.st = (IF e.refs = 1 THEN "freed" ELSE e.st)
  OBVIOUS
<1> HIDE DEF f, g
<1>5. /\ u \in StateType /\ u.sends = t.sends /\ u.sendQ = t.sendQ /\ u.service = t.service /\ u.rx = t.rx
      /\ u.requests = t.requests /\ u.signalled = t.signalled /\ u.buffer = f
  BY <1>3 DEF Typed, StateType
<1> HIDE DEF u, e
<1>6. Typed(u)
  BY <1>5 DEF Typed
<1> QED BY <1>2, <1>3, <1>4, <1>5, <1>6 DEF e

LEMMA IncRefIs ==
    ASSUME NEW t, Typed(t), NEW b \in D!Buffers
    PROVE  LET u == D!SharedBufferIncRef(t, b)
           IN  /\ Typed(u) /\ u.sends = t.sends /\ u.sendQ = t.sendQ /\ u.service = t.service /\ u.rx = t.rx
               /\ u.requests = t.requests /\ u.signalled = t.signalled
               /\ u.buffer[b].refs = t.buffer[b].refs + 1 /\ u.buffer[b].st = t.buffer[b].st
               /\ \A c \in D!Buffers : c # b => u.buffer[c] = t.buffer[c]
<1> DEFINE e == t.buffer[b]
           g == [e EXCEPT !.refs = e.refs + 1]
           f == [t.buffer EXCEPT ![b] = g]
           u == [t EXCEPT !.buffer = f]
<1>1. t.buffer \in BufferType /\ e \in [refs : Int, st : {"unused", "live", "freed"}] /\ b # NULL
  BY Parts, NullIs DEF BufferType
<1>2. D!SharedBufferIncRef(t, b) = u
  BY <1>1 DEF D!SharedBufferIncRef, Typed, StateType, BufferType
<1>4. g \in [refs : Int, st : {"unused", "live", "freed"}] /\ g.refs = e.refs + 1 /\ g.st = e.st
  BY <1>1
<1> HIDE DEF g
<1>3. f \in BufferType /\ f[b] = g /\ \A c \in D!Buffers : c # b => f[c] = t.buffer[c]
  BY <1>1, <1>4 DEF BufferType
<1> HIDE DEF f
<1>5. /\ u \in StateType /\ u.sends = t.sends /\ u.sendQ = t.sendQ /\ u.service = t.service /\ u.rx = t.rx
      /\ u.requests = t.requests /\ u.signalled = t.signalled /\ u.buffer = f
  BY <1>3 DEF Typed, StateType
<1> HIDE DEF u, e
<1>6. Typed(u)
  BY <1>5 DEF Typed
<1> QED BY <1>2, <1>3, <1>4, <1>5, <1>6 DEF e

\* PublishCb of a message that was taken off: it gives up its payload.
LEMMA ReleaseBooks ==
    ASSUME NEW t, NEW O, NEW U, NEW x, x \notin O, Books(t, O \cup {x}, U)
    PROVE  Books(D!SharedBufferDecRef(t, x.buf), O, U)
<1> DEFINE S == O \cup {x}
<1>1. Typed(t) /\ S \in SUBSET Message /\ IsFiniteSet(S) /\ x \in Message
  BY DEF Books
<1>2. O \in SUBSET Message /\ IsFiniteSet(O)
  <2>1. O \in SUBSET S
    OBVIOUS
  <2>2. IsFiniteSet(O)
    BY <1>1, <2>1, FS_Subset
  <2> QED BY <1>1, <2>2
<1>3. x \notin Pool(t, O) /\ Pool(t, S) = Pool(t, O) \cup {x} /\ Apart(t, O)
  BY DEF Books, Apart, Pool
<1>4. x.buf \in D!Buffers \/ x.buf = NULL
  BY <1>1, NullIs DEF Message
<1>5. \A y \in Pool(t, O) : y.kind = "goodbye" => y.buf = NULL
  BY <1>3 DEF Books
<1>6. ASSUME NEW b \in D!Buffers
      PROVE  Cardinality(Carriers(t, S, b)) = Cardinality(Carriers(t, O, b)) + (IF x.buf = b THEN 1 ELSE 0)
  <2>1. IsFiniteSet(Carriers(t, O, b)) /\ Cardinality(Carriers(t, O, b)) \in Nat
    BY <1>1, <1>2, PoolFinite
  <2>2. CASE x.buf = b
    <3>1. Carriers(t, S, b) = Carriers(t, O, b) \cup {x} /\ x \notin Carriers(t, O, b)
      BY <1>3, <2>2 DEF Carriers
    <3> QED BY <2>1, <2>2, <3>1, FS_AddElement
  <2>3. CASE x.buf # b
    <3>1. Carriers(t, S, b) = Carriers(t, O, b)
      BY <1>3, <2>3 DEF Carriers
    <3> QED BY <2>1, <2>3, <3>1
  <2> QED BY <2>2, <2>3
<1>7. CASE x.buf = NULL
  <2>1. Paid(t, O, U)
    <3>1. ASSUME NEW b \in D!Buffers PROVE Cardinality(Carriers(t, S, b)) = Cardinality(Carriers(t, O, b))
      <4>1. x.buf # b /\ Cardinality(Carriers(t, O, b)) \in Nat
        BY <1>1, <1>2, <1>7, NullIs, PoolFinite
      <4>2. Cardinality(Carriers(t, S, b)) = Cardinality(Carriers(t, O, b)) + (IF x.buf = b THEN 1 ELSE 0)
        BY <1>6
      <4> HIDE DEF S
      <4> QED BY <4>1, <4>2
    <3> QED BY <3>1 DEF Books, Paid
  <2> QED BY <1>1, <1>2, <1>3, <1>5, <1>7, <2>1 DEF Books, D!SharedBufferDecRef
<1>8. CASE x.buf \in D!Buffers
  <2> DEFINE c == x.buf
             u == D!SharedBufferDecRef(t, c)
  <2>1. /\ Typed(u) /\ u.sends = t.sends /\ u.sendQ = t.sendQ /\ u.service = t.service
        /\ u.buffer[c].refs = t.buffer[c].refs - 1
        /\ u.buffer[c].st = (IF t.buffer[c].refs = 1 THEN "freed" ELSE t.buffer[c].st)
        /\ \A b \in D!Buffers : b # c => u.buffer[b] = t.buffer[b]
    BY <1>1, <1>8, DecRefIs
  <2> HIDE DEF u
  <2>2. Pool(u, O) = Pool(t, O) /\ \A b : Carriers(u, O, b) = Carriers(t, O, b)
    BY <2>1 DEF Pool, Carriers
  <2>3. Paid(t, S, U)
    BY DEF Books
  <2>4. ASSUME NEW b \in D!Buffers
        PROVE  /\ u.buffer[b].refs = Cardinality(Carriers(u, O, b)) + (IF u.service.payload = b THEN 1 ELSE 0)
               /\ u.buffer[b].st = "live" <=> u.buffer[b].refs > 0
               /\ u.buffer[b].st = "unused" <=> b \in U
    <3> DEFINE k == Cardinality(Carriers(t, O, b))
               p == IF t.service.payload = b THEN 1 ELSE 0
    <3>1. k \in Nat /\ p \in {0, 1}
      BY <1>1, <1>2, PoolFinite
    <3>2. /\ t.buffer[b].refs = Cardinality(Carriers(t, S, b)) + p
          /\ t.buffer[b].st = "live" <=> t.buffer[b].refs > 0
          /\ t.buffer[b].st = "unused" <=> b \in U
      BY <2>3, Zenon DEF Paid
    <3>3. Cardinality(Carriers(t, S, b)) = k + (IF c = b THEN 1 ELSE 0)
      BY <1>6
    <3>4. Carriers(u, O, b) = Carriers(t, O, b) /\ u.service.payload = t.service.payload
      BY <2>1, <2>2
    <3> HIDE DEF S, c, k
    <3>5. CASE c = b
      BY <2>1, <3>1, <3>2, <3>3, <3>4, <3>5 DEF k
    <3>6. CASE c # b
      BY <2>1, <3>1, <3>2, <3>3, <3>4, <3>6 DEF k
    <3> QED BY <3>5, <3>6
  <2>5. Paid(u, O, U)
    BY <2>4, Zenon DEF Paid
  <2>6. Apart(u, O)
    BY <1>3, <2>1 DEF Apart
  <2> QED BY <1>2, <1>5, <2>1, <2>2, <2>5, <2>6 DEF Books, u
<1> QED BY <1>4, <1>7, <1>8

\* EncodeDiscoveryPayload and a message made of it.
LEMMA SendBooks ==
    ASSUME NEW t, NEW U, Books(t, {}, U), NEW x \in Message, x \notin Pool(t, {}),
           x.buf = t.service.payload, x.kind # "goodbye"
    PROVE  /\ Books(D!SharedBufferIncRef(t, x.buf), {x}, U)
           /\ D!SharedBufferIncRef(t, x.buf).sends = t.sends
           /\ D!SharedBufferIncRef(t, x.buf).sendQ = t.sendQ
           /\ D!SharedBufferIncRef(t, x.buf).service = t.service
<1> DEFINE c == x.buf
           u == D!SharedBufferIncRef(t, c)
<1>1. Typed(t) /\ IsFiniteSet({}) /\ IsFiniteSet({x}) /\ {x} \in SUBSET Message /\ {} \in SUBSET Message
  BY FS_EmptySet, FS_Singleton DEF Books
<1>2. c \in D!Buffers \/ c = NULL
  BY NullIs DEF Message
<1>3. Pool(t, {x}) = Pool(t, {}) \cup {x} /\ Apart(t, {x})
  BY DEF Books, Apart, Pool
<1>4. \A y \in Pool(t, {x}) : y.kind = "goodbye" => y.buf = NULL
  BY <1>3 DEF Books
<1>5. ASSUME NEW b \in D!Buffers
      PROVE  Cardinality(Carriers(t, {x}, b)) = Cardinality(Carriers(t, {}, b)) + (IF c = b THEN 1 ELSE 0)
             /\ Cardinality(Carriers(t, {}, b)) \in Nat
  <2>1. IsFiniteSet(Carriers(t, {}, b)) /\ Cardinality(Carriers(t, {}, b)) \in Nat
    BY <1>1, PoolFinite
  <2>2. CASE c = b
    <3>1. Carriers(t, {x}, b) = Carriers(t, {}, b) \cup {x} /\ x \notin Carriers(t, {}, b)
      BY <1>3, <2>2 DEF Carriers
    <3> QED BY <2>1, <2>2, <3>1, FS_AddElement
  <2>3. CASE c # b
    <3>1. Carriers(t, {x}, b) = Carriers(t, {}, b)
      BY <1>3, <2>3 DEF Carriers
    <3> QED BY <2>1, <2>3, <3>1
  <2> QED BY <2>2, <2>3
<1>6. Paid(t, {}, U)
  BY DEF Books
<1>7. CASE c = NULL
  <2>1. u = t
    BY <1>7 DEF D!SharedBufferIncRef
  <2>2. ASSUME NEW b \in D!Buffers
        PROVE  Cardinality(Carriers(t, {x}, b)) = Cardinality(Carriers(t, {}, b))
    <3>1. c # b
      BY <1>7, NullIs
    <3> HIDE DEF c
    <3> QED BY <1>5, <3>1
  <2>3. Paid(t, {x}, U)
    BY <1>6, <2>2 DEF Paid
  <2>4. Books(t, {x}, U)
    BY <1>1, <1>3, <1>4, <2>3 DEF Books
  <2> QED BY <2>1, <2>4
<1>8. CASE c \in D!Buffers
  <2>1. /\ Typed(u) /\ u.sends = t.sends /\ u.sendQ = t.sendQ /\ u.service = t.service
        /\ u.buffer[c].refs = t.buffer[c].refs + 1 /\ u.buffer[c].st = t.buffer[c].st
        /\ \A b \in D!Buffers : b # c => u.buffer[b] = t.buffer[b]
    BY <1>1, <1>8, IncRefIs
  <2> HIDE DEF u
  <2>2. Pool(u, {x}) = Pool(t, {x}) /\ \A b : Carriers(u, {x}, b) = Carriers(t, {x}, b)
    BY <2>1 DEF Pool, Carriers
  <2>3. c = t.service.payload
    OBVIOUS
  <2>4. ASSUME NEW b \in D!Buffers
        PROVE  /\ u.buffer[b].refs = Cardinality(Carriers(u, {x}, b)) + (IF u.service.payload = b THEN 1 ELSE 0)
               /\ u.buffer[b].st = "live" <=> u.buffer[b].refs > 0
               /\ u.buffer[b].st = "unused" <=> b \in U
    <3> DEFINE k == Cardinality(Carriers(t, {}, b))
               p == IF t.service.payload = b THEN 1 ELSE 0
    <3>1. k \in Nat /\ p \in {0, 1}
      BY <1>5
    <3>2. /\ t.buffer[b].refs = k + p
          /\ t.buffer[b].st = "live" <=> t.buffer[b].refs > 0
          /\ t.buffer[b].st = "unused" <=> b \in U
      BY <1>6, Zenon DEF Paid
    <3>3. Cardinality(Carriers(t, {x}, b)) = k + (IF c = b THEN 1 ELSE 0)
      BY <1>5
    <3>4. Carriers(u, {x}, b) = Carriers(t, {x}, b) /\ u.service.payload = t.service.payload
      BY <2>1, <2>2
    <3> HIDE DEF c, k
    <3>5. CASE c = b
      BY <2>1, <2>3, <3>1, <3>2, <3>3, <3>4, <3>5
    <3>6. CASE c # b
      BY <2>1, <2>3, <3>1, <3>2, <3>3, <3>4, <3>6
    <3> QED BY <3>5, <3>6
  <2>5. Paid(u, {x}, U)
    BY <2>4, Zenon DEF Paid
  <2>6. Apart(u, {x})
    BY <1>3, <2>1 DEF Apart
  <2>7. Books(u, {x}, U)
    BY <1>1, <1>4, <2>1, <2>2, <2>5, <2>6 DEF Books
  <2> QED BY <2>1, <2>7 DEF u
<1> QED BY <1>2, <1>7, <1>8

\* The service gives up its payload.
LEMMA UnpaidBooks ==
    ASSUME NEW t, NEW O, NEW U, Books(t, O, U), NEW w, Typed(w), w.service.payload = NULL,
           w.sends = D!SharedBufferDecRef(t, t.service.payload).sends,
           w.sendQ = D!SharedBufferDecRef(t, t.service.payload).sendQ,
           w.buffer = D!SharedBufferDecRef(t, t.service.payload).buffer
    PROVE  Books(w, O, U)
<1> DEFINE c == t.service.payload
           u == D!SharedBufferDecRef(t, c)
<1>1. Typed(t) /\ O \in SUBSET Message /\ IsFiniteSet(O) /\ c \in D!Maybe(D!Buffers) /\ Paid(t, O, U)
  BY Parts, ServiceIs DEF Books
<1>2. Typed(u)
  BY <1>1, DecRefKeeps, KeptTyped
<1>3. w.sends = u.sends /\ w.sendQ = u.sendQ /\ w.buffer = u.buffer /\ w.service.payload = NULL
  OBVIOUS
<1>4. CASE c = NULL
  <2>1. u = t
    BY <1>4 DEF D!SharedBufferDecRef
  <2>2. Books(w, O, U)
    BY <1>2, <1>3, <1>4, <2>1, BooksSame
  <2> QED BY <2>2
<1>5. CASE c \in D!Buffers
  <2>1. /\ u.sends = t.sends /\ u.sendQ = t.sendQ
        /\ u.buffer[c].refs = t.buffer[c].refs - 1
        /\ u.buffer[c].st = (IF t.buffer[c].refs = 1 THEN "freed" ELSE t.buffer[c].st)
        /\ \A b \in D!Buffers : b # c => u.buffer[b] = t.buffer[b]
    BY <1>1, <1>5, DecRefIs
  <2> HIDE DEF u
  <2>2. Pool(w, O) = Pool(t, O) /\ \A b : Carriers(w, O, b) = Carriers(t, O, b)
    BY <1>3, <2>1 DEF Pool, Carriers
  <2>4. ASSUME NEW b \in D!Buffers
        PROVE  /\ w.buffer[b].refs = Cardinality(Carriers(w, O, b)) + (IF w.service.payload = b THEN 1 ELSE 0)
               /\ w.buffer[b].st = "live" <=> w.buffer[b].refs > 0
               /\ w.buffer[b].st = "unused" <=> b \in U
    <3> DEFINE k == Cardinality(Carriers(t, O, b))
    <3>1. k \in Nat /\ b # NULL
      BY <1>1, PoolFinite, NullIs
    <3>2. /\ t.buffer[b].refs = k + (IF t.service.payload = b THEN 1 ELSE 0)
          /\ t.buffer[b].st = "live" <=> t.buffer[b].refs > 0
          /\ t.buffer[b].st = "unused" <=> b \in U
      BY <1>1, Zenon DEF Paid
    <3>4. Carriers(w, O, b) = Carriers(t, O, b) /\ w.service.payload = NULL /\ w.buffer = u.buffer
          /\ t.service.payload = c
      BY <1>3, <2>2
    <3> HIDE DEF c, k
    <3>5. CASE c = b
      <4>1. t.buffer[b].refs = k + 1 /\ t.buffer[b].st = "live"
        BY <3>1, <3>2, <3>4, <3>5
      <4>2. w.buffer[b].refs = k /\ w.buffer[b].st = (IF k = 0 THEN "freed" ELSE "live")
        BY <2>1, <3>1, <3>4, <3>5, <4>1
      <4>3. Cardinality(Carriers(w, O, b)) = k /\ w.service.payload # b
        BY <3>1, <3>4 DEF k
      <4> QED BY <3>1, <3>2, <4>1, <4>2, <4>3
    <3>6. CASE c # b
      BY <2>1, <3>1, <3>2, <3>4, <3>6 DEF k
    <3> QED BY <3>5, <3>6
  <2>5. Paid(w, O, U)
    BY <2>4, Zenon DEF Paid
  <2>6. Apart(w, O)
    BY <1>3, <2>1 DEF Books, Apart
  <2>7. Books(w, O, U)
    BY <1>1, <1>2, <2>2, <2>5, <2>6 DEF Books
  <2> QED BY <2>7
<1> QED BY <1>1, <1>4, <1>5, NullIs

\* Forget: the service gives up its payload.
LEMMA ForgetBooks ==
    ASSUME NEW t, NEW O, NEW U, Books(t, O, U) PROVE Books(D!Forget(t), O, U)
<1> DEFINE c == t.service.payload
           u == D!SharedBufferDecRef(t, c)
           w == D!Forget(t)
<1>1. Typed(t) /\ c \in D!Maybe(D!Buffers)
  BY Parts, ServiceIs DEF Books
<1>2. Typed(u) /\ Typed(w)
  BY <1>1, DecRefKeeps, ForgetKeeps, KeptTyped
<1>3. w.sends = u.sends /\ w.sendQ = u.sendQ /\ w.buffer = u.buffer /\ w.service.payload = NULL
  <2> DEFINE v == GoneService(u.service)
             r == [m \in Discovered |-> Cut(u.rx[m])]
  <2>1. w = [u EXCEPT !.service.st = "freed", !.service.destroyed = u.service.destroyed + 1,
                      !.service.payload = NULL, !.rx = r]
    BY Zenon DEF D!Forget, r, Cut
  <2>2. u.service \in ServiceType /\ u \in StateType
    BY <1>2, Parts DEF Typed
  <2> HIDE DEF u, w, r
  <2>3. w.sends = u.sends /\ w.sendQ = u.sendQ /\ w.buffer = u.buffer /\ w.service = v
    BY <2>1, <2>2 DEF GoneService, StateType
  <2>4. v.payload = NULL
    BY <2>2, GoneServiceIs
  <2> QED BY <2>3, <2>4
<1> HIDE DEF w
<1>4. Books(w, O, U)
  BY <1>2, <1>3, UnpaidBooks
<1> QED BY <1>4 DEF w


\* Of a queue with nothing twice, what is left behind an index.
Rest(q, k) == {q[i] : i \in {j \in DOMAIN q : j > k}}

LEMMA RestIs ==
    ASSUME NEW q \in Seq(Message)
    PROVE  /\ Rest(q, 0) = D!ToSet(q) /\ Rest(q, Len(q)) = {}
           /\ \A k \in Nat : k < Len(q) => Rest(q, k) = Rest(q, k + 1) \cup {q[k + 1]} /\ q[k + 1] \in Message
           /\ (\A i, j \in DOMAIN q : i # j => q[i] # q[j]) =>
                 \A k \in Nat : k < Len(q) => q[k + 1] \notin Rest(q, k + 1)
<1>1. DOMAIN q = 1 .. Len(q) /\ Len(q) \in Nat
  OBVIOUS
<1>2. Rest(q, 0) = D!ToSet(q) /\ Rest(q, Len(q)) = {}
  BY <1>1 DEF Rest, D!ToSet
<1>3. ASSUME NEW k \in Nat, k < Len(q)
      PROVE  Rest(q, k) = Rest(q, k + 1) \cup {q[k + 1]} /\ q[k + 1] \in Message
  BY <1>1, <1>3 DEF Rest
<1>4. ASSUME \A i, j \in DOMAIN q : i # j => q[i] # q[j], NEW k \in Nat, k < Len(q)
      PROVE  q[k + 1] \notin Rest(q, k + 1)
  BY <1>1, <1>4 DEF Rest
<1> QED BY <1>2, <1>3, <1>4

\* Only the publication of the service, its timer or its subscription changes.
LEMMA ServiceBooks ==
    ASSUME NEW t, NEW O, NEW U, Books(t, O, U), NEW v \in ServiceType, v.payload = t.service.payload
    PROVE  Books([t EXCEPT !.service = v], O, U)
<1> DEFINE u == [t EXCEPT !.service = v]
<1>1. Typed(t)
  BY DEF Books
<1>2. /\ u \in StateType /\ u.sends = t.sends /\ u.service = v /\ u.sendQ = t.sendQ /\ u.buffer = t.buffer
  BY <1>1, WithService
<1> HIDE DEF u
<1>3. Typed(u)
  BY <1>1, <1>2 DEF Typed
<1>4. Books(u, O, U)
  BY <1>2, <1>3, BooksSame
<1> QED BY <1>4 DEF u

LEMMA SignalBooks ==
    ASSUME NEW t, NEW O, NEW U, Books(t, O, U), NEW a \in {"pubs", "free", "request"}
    PROVE  Books(D!Signal(t, a), O, U)
<1> DEFINE u == [t EXCEPT !.signalled = t.signalled \cup {a}]
<1>1. D!Signal(t, a) = u
  BY DEF D!Signal
<1>2. Typed(t)
  BY DEF Books
<1>3. u \in StateType /\ u.sends = t.sends /\ u.service = t.service /\ u.sendQ = t.sendQ /\ u.buffer = t.buffer
  BY <1>2 DEF Typed, StateType
<1> HIDE DEF u
<1>4. Typed(u)
  BY <1>2, <1>3 DEF Typed
<1> QED BY <1>1, <1>3, <1>4, BooksSame

\* DPS_DestroyPublication: what the queue holds fails.
LEMMA FreePubBooks == ASSUME NEW t, NEW O, NEW U, Books(t, O, U) PROVE Books(D!FreePub(t), O, U)
<1> DEFINE v == [t.service EXCEPT !.pub = "destroyed"]
           q == t.sendQ
           e == Emptied(t)
           w == F!Fold(e, q)
<1>1. Typed(t) /\ q \in Seq(Message) /\ t.service \in ServiceType /\ O \in SUBSET Message /\ IsFiniteSet(O)
      /\ Apart(t, O)
  BY Parts DEF Books
<1>2. Books(Freed(t), O, U) /\ Freed(t).sends = t.sends /\ Freed(t).sendQ = t.sendQ /\ Typed(Freed(t))
  <2>1. v \in ServiceType /\ v.payload = t.service.payload /\ Freed(t) = [t EXCEPT !.service = v]
    BY <1>1 DEF ServiceType, Freed
  <2> HIDE DEF v
  <2>2. Books(Freed(t), O, U)
    BY <2>1, ServiceBooks
  <2>3. Freed(t).sends = t.sends /\ Freed(t).sendQ = t.sendQ
    BY <1>1, <2>1, WithService
  <2> QED BY <2>2, <2>3 DEF Books
<1>3. /\ Typed(e) /\ e.sends = t.sends /\ e.sendQ = <<>> /\ e.buffer = Freed(t).buffer
      /\ e.service.payload = Freed(t).service.payload
  <2>1. <<>> \in Seq(Message)
    OBVIOUS
  <2>2. e = [Freed(t) EXCEPT !.sendQ = <<>>]
    BY DEF Emptied
  <2> HIDE DEF e
  <2> QED BY <1>2, <2>1, <2>2 DEF Typed, StateType
<1> HIDE DEF e
<1>4. Books(e, O \cup Rest(q, 0), U)
  <2> DEFINE S == O \cup D!ToSet(q)
  <2>1. S \in SUBSET Message /\ IsFiniteSet(S)
    <3>1. D!ToSet(q) \in SUBSET Message /\ IsFiniteSet(D!ToSet(q))
      BY <1>1, QueueSet
    <3> HIDE DEF q
    <3> QED BY <1>1, <3>1, FS_Union
  <2>2. D!ToSet(<<>>) = {}
    BY DEF D!ToSet
  <2>3. Pool(e, S) = Pool(Freed(t), O)
    BY <1>2, <1>3, <2>2 DEF Pool
  <2>4. Apart(e, S)
    BY <1>1, <1>3, <2>2 DEF Apart
  <2> HIDE DEF S
  <2>5. Books(e, S, U)
    BY <1>2, <1>3, <2>1, <2>3, <2>4, BooksMove
  <2>6. Rest(q, 0) = D!ToSet(q)
    BY <1>1, RestIs
  <2> QED BY <2>5, <2>6 DEF S
<1>5. PICK f : /\ f[0] = e
               /\ \A k \in Nat : k < Len(q) => f[k + 1] = Dropped(f[k], q[k + 1])
               /\ w = f[Len(q)]
  BY <1>1, F!FoldTurns
<1> DEFINE T == {k \in Nat : k <= Len(q) => Books(f[k], O \cup Rest(q, k), U)}
<1>6. 0 \in T
  BY <1>4, <1>5
<1>7. ASSUME NEW k \in Nat, k \in T PROVE k + 1 \in T
  <2> SUFFICES ASSUME k + 1 <= Len(q) PROVE Books(f[k + 1], O \cup Rest(q, k + 1), U)
    OBVIOUS
  <2> DEFINE x == q[k + 1]
             S == O \cup Rest(q, k + 1)
  <2>1. k < Len(q) /\ Len(q) \in Nat
    BY <1>1
  <2>2. Rest(q, k) = Rest(q, k + 1) \cup {x} /\ x \notin Rest(q, k + 1) /\ x \in D!ToSet(q)
    <3>1. \A i, j \in DOMAIN q : i # j => q[i] # q[j]
      BY <1>1 DEF Apart
    <3>2. k + 1 \in DOMAIN q
      BY <1>1, <2>1
    <3> QED BY <1>1, <2>1, <3>1, <3>2, RestIs, QueueSet
  <2>3. x \notin S
    BY <1>1, <2>2 DEF Apart
  <2>4. Books(f[k], S \cup {x}, U)
    <3>1. Books(f[k], O \cup Rest(q, k), U)
      BY <1>7, <2>1
    <3>2. O \cup Rest(q, k) = S \cup {x}
      BY <2>2
    <3> QED BY <3>1, <3>2
  <2>5. f[k + 1] = Dropped(f[k], x)
    BY <1>5, <2>1
  <2> HIDE DEF S, x
  <2>6. Books(D!SharedBufferDecRef(f[k], x.buf), S, U)
    BY <2>3, <2>4, ReleaseBooks
  <2> QED BY <2>5, <2>6 DEF S, Dropped
<1> HIDE DEF T
<1>8. Nat \subseteq T
  BY <1>6, <1>7, F!Induct
<1>9. Books(w, O, U)
  <2>1. Len(q) \in Nat /\ Rest(q, Len(q)) = {}
    BY <1>1, RestIs
  <2>2. Books(f[Len(q)], O \cup Rest(q, Len(q)), U)
    <3> DEFINE n == Len(q)
    <3>1. n \in T /\ n \in Nat /\ n <= Len(q)
      BY <1>8, <2>1
    <3> HIDE DEF n
    <3>2. Books(f[n], O \cup Rest(q, n), U)
      BY <3>1 DEF T
    <3> QED BY <3>2 DEF n
  <2>3. O \cup Rest(q, Len(q)) = O
    BY <2>1
  <2> QED BY <1>5, <2>2, <2>3
<1> HIDE DEF w
<1>10. Books(D!Signal(w, "free"), O, U)
  BY <1>9, SignalBooks
<1> QED BY <1>2, <1>10, FreePubIs DEF w, e

LEMMA DestroyBooks == ASSUME NEW t, NEW O, NEW U, Books(t, O, U) PROVE Books(D!Destroy(t), O, U)
<1> DEFINE v == [t.service EXCEPT !.timer = "closing"]
           s == [t.service EXCEPT !.sub = "destroyed"]
           u == [t EXCEPT !.service = s]
<1>1. t.service \in ServiceType
  BY Parts DEF Books
<1>2. v \in ServiceType /\ v.payload = t.service.payload /\ s \in ServiceType /\ s.payload = t.service.payload
  BY <1>1 DEF ServiceType
<1> HIDE DEF v, s
<1>3. Books([t EXCEPT !.service = v], O, U) /\ Books(u, O, U)
  BY <1>2, ServiceBooks
<1> HIDE DEF u
<1>4. Books(D!Signal(u, "free"), O, U)
  BY <1>3, SignalBooks
<1> QED BY <1>3, <1>4, FreePubBooks, ForgetBooks DEF D!Destroy, u, v, s

LEMMA PublishedBooks ==
    ASSUME NEW t, NEW O, NEW U, NEW x, x \notin O, Books(t, O \cup {x}, U)
    PROVE  Books(D!Published(t, x), O, U)
<1>1. CASE x.kind = "goodbye"
  <2>1. x.buf = NULL
    BY <1>1 DEF Books, Pool
  <2>2. Books(D!SharedBufferDecRef(t, x.buf), O, U)
    BY ReleaseBooks
  <2>3. Books(t, O, U)
    BY <2>1, <2>2 DEF D!SharedBufferDecRef
  <2> QED BY <1>1, <2>3, DestroyBooks DEF D!Published
<1>2. CASE x.kind # "goodbye"
  BY <1>2, ReleaseBooks DEF D!Published
<1> QED BY <1>1, <1>2

\* The payloads that were not made yet.
Unmade == {b \in D!Buffers : dbuffer[b].st = "unused"}
BooksInv == /\ Books(D!State, {}, Unmade)
            /\ \A b \in D!Buffers \ Unmade : b <= dservice.publishes
            /\ dapp = "payload" => dservice.publishes \in Unmade

LEMMA StateIs == ASSUME NEW t, Typed(t), D!Becomes(t) PROVE D!State' = t
BY Parts DEF D!State, D!Becomes

\* A message is multicast.
LEMMA SentBooks ==
    ASSUME NEW t, NEW O, NEW U, NEW x, x \notin O, Books(t, O \cup {x}, U)
    PROVE  Books([t EXCEPT !.sends = t.sends \cup {x}], O, U)
<1> DEFINE S == t.sends \cup {x}
           u == [t EXCEPT !.sends = S]
           Q == O \cup {x}
<1>1. Typed(t) /\ Q \in SUBSET Message /\ IsFiniteSet(Q) /\ x \in Message /\ Apart(t, Q)
  BY DEF Books
<1>2. O \in SUBSET Message /\ IsFiniteSet(O)
  <2>1. O \in SUBSET Q
    OBVIOUS
  <2>2. IsFiniteSet(O)
    BY <1>1, <2>1, FS_Subset
  <2> QED BY <1>1, <2>2
<1>3. S \in SUBSET Message /\ IsFiniteSet(S)
  <2>1. t.sends \in SUBSET Message /\ IsFiniteSet(t.sends)
    BY <1>1, Parts
  <2> QED BY <1>1, <2>1, FS_AddElement
<1>4. u = [t EXCEPT !.sends = S]
  OBVIOUS
<1>5. Apart(t, Q) => x \notin D!ToSet(t.sendQ)
  BY DEF Apart
<1> HIDE DEF S, u
<1>6. Typed(u) /\ u.sends = S /\ u.sendQ = t.sendQ /\ u.buffer = t.buffer /\ u.service = t.service
  BY <1>1, <1>3, <1>4 DEF Typed, StateType
<1>7. Pool(u, O) = Pool(t, Q)
  BY <1>6 DEF Pool, S
<1>8. Apart(u, O)
  BY <1>1, <1>5, <1>6 DEF Apart, S
<1>9. Books(t, Q, U)
  OBVIOUS
<1> HIDE DEF Q
<1>10. Books(u, O, U)
  BY <1>2, <1>6, <1>7, <1>8, <1>9, BooksMove
<1> QED BY <1>10 DEF u, S

LEMMA MulticastBooks ==
    ASSUME NEW t, NEW O, NEW U, NEW r, r.msg \notin O, Books(t, O \cup {r.msg}, U)
    PROVE  Books(D!Multicast(t, r), O, U)
<1>1. CASE r.refused
  <2> DEFINE n == Noted(t, r.msg)
             Q == O \cup {r.msg}
             v == n.service
  <2>1. Typed(t) /\ r.msg \in Message /\ t.service \in ServiceType
    BY Parts DEF Books
  <2>2. n = [t EXCEPT !.service = v] /\ v \in ServiceType /\ v.payload = t.service.payload
    <3>1. /\ n = [t EXCEPT !.service = [t.service EXCEPT !.refused = @ \/ r.msg.kind = "goodbye"]]
          /\ v = [t.service EXCEPT !.refused = @ \/ r.msg.kind = "goodbye"] /\ v \in ServiceType
      BY <2>1, NotedIs
    <3> HIDE DEF n
    <3> QED BY <2>1, <3>1 DEF ServiceType
  <2>3. D!Multicast(t, r) = D!Published(n, r.msg)
    BY <1>1 DEF D!Multicast, D!Refuse, Noted
  <2> HIDE DEF n, v
  <2>4. Books(n, Q, U)
    BY <2>2, ServiceBooks
  <2> QED BY <2>3, <2>4, PublishedBooks
<1>2. CASE ~r.refused
  BY <1>2, SentBooks DEF D!Multicast
<1> QED BY <1>1, <1>2

LEMMA TakenIs ==
    ASSUME ToldInv
    PROVE  /\ Typed(Taken) /\ Taken.sendQ = <<>> /\ Taken.sends = dsends /\ Taken.service = dservice
           /\ Taken.buffer = dbuffer /\ Taken.rx = drx /\ Taken.requests = drequests
           /\ Taken.signalled = dsignalled \ {"pubs"}
<1> DEFINE u == [D!State EXCEPT !.sendQ = <<>>]
<1>1. Typed(D!State)
  BY StateTyped
<1>2. <<>> \in Seq(Message)
  OBVIOUS
<1>3. Typed(u) /\ u.sendQ = <<>> /\ u.sends = dsends /\ u.service = dservice /\ u.buffer = dbuffer
      /\ u.rx = drx /\ u.requests = drequests /\ u.signalled = dsignalled
  BY <1>1, <1>2 DEF Typed, StateType, D!State
<1>4. Taken = [u EXCEPT !.signalled = u.signalled \ {"pubs"}]
  BY DEF Taken, D!State
<1> HIDE DEF u
<1> QED BY <1>3, <1>4 DEF Typed, StateType

LEMMA SendPubsBooks ==
    ASSUME ToldInv, BooksInv, D!SendPubs PROVE Books(D!State', {}, Unmade)
<1> DEFINE q == dsendQ
           U == Unmade
<1>1. /\ Typed(D!State) /\ q \in Seq(Message) /\ Len(q) \in Nat /\ D!ToSet(q) \in SUBSET Message
      /\ IsFiniteSet(D!ToSet(q))
  <2>1. Typed(D!State)
    BY StateTyped
  <2>2. q \in Seq(Message)
    BY <2>1, Parts DEF D!State
  <2> QED BY <2>1, <2>2, QueueSet
<1>2. PICK refused \in SUBSET DOMAIN dsendQ : D!Becomes(M!Fold(Taken, Outgoing(dsendQ, refused)))
  BY SendPubsIs
<1> DEFINE o == Outgoing(q, refused)
           w == M!Fold(Taken, o)
<1>3. /\ o \in Seq([msg : Message, refused : BOOLEAN]) /\ Len(o) = Len(q)
      /\ \A i \in DOMAIN q : o[i].msg = q[i]
  <2>1. /\ o \in Seq([msg : Message, refused : BOOLEAN]) /\ Len(o) = Len(q)
        /\ \A i \in DOMAIN q : o[i].msg = q[i] /\ o[i].refused = (i \in refused)
    BY <1>1, OutgoingType, Zenon
  <2> QED BY <2>1, Zenon
<1>4. Books(Taken, Rest(q, 0), U) /\ Apart(D!State, {})
  <2>1. D!ToSet(<<>>) = {} /\ D!State.sendQ = q /\ D!State.sends = dsends /\ D!State.buffer = dbuffer
        /\ D!State.service = dservice
    BY DEF D!ToSet, D!State
  <2>2. Books(D!State, {}, U) /\ Apart(D!State, {})
    BY DEF BooksInv, Books
  <2>3. Rest(q, 0) = D!ToSet(q)
    BY <1>1, RestIs
  <2>4. Pool(Taken, Rest(q, 0)) = Pool(D!State, {})
    BY <2>1, <2>3, TakenIs DEF Pool
  <2>5. Apart(Taken, Rest(q, 0))
    BY <2>1, <2>2, <2>3, TakenIs DEF Apart
  <2> HIDE DEF q, U
  <2> QED BY <1>1, <2>1, <2>2, <2>3, <2>4, <2>5, TakenIs, BooksMove
<1> HIDE DEF o
<1>5. PICK f : /\ f[0] = Taken
               /\ \A k \in Nat : k < Len(o) => f[k + 1] = D!Multicast(f[k], o[k + 1])
               /\ w = f[Len(o)]
  BY <1>3, M!FoldTurns
<1> DEFINE T == {k \in Nat : k <= Len(q) => Books(f[k], Rest(q, k), U)}
<1>6. 0 \in T
  BY <1>4, <1>5
<1>7. ASSUME NEW k \in Nat, k \in T PROVE k + 1 \in T
  <2> SUFFICES ASSUME k + 1 <= Len(q) PROVE Books(f[k + 1], Rest(q, k + 1), U)
    OBVIOUS
  <2> DEFINE x == q[k + 1]
             S == Rest(q, k + 1)
  <2>1. k < Len(q) /\ k + 1 \in DOMAIN q
    BY <1>1
  <2>2. Rest(q, k) = S \cup {x} /\ x \notin S
    <3>1. \A i, j \in DOMAIN q : i # j => q[i] # q[j]
      BY <1>4 DEF Apart, D!State
    <3> QED BY <1>1, <2>1, <3>1, RestIs
  <2>3. Books(f[k], S \cup {x}, U)
    <3>1. Books(f[k], Rest(q, k), U)
      BY <1>7, <2>1
    <3> QED BY <2>2, <3>1
  <2>4. f[k + 1] = D!Multicast(f[k], o[k + 1]) /\ o[k + 1].msg = x
    BY <1>3, <1>5, <2>1
  <2> HIDE DEF S, x
  <2>5. Books(D!Multicast(f[k], o[k + 1]), S, U)
    BY <2>2, <2>3, <2>4, MulticastBooks
  <2> QED BY <2>4, <2>5 DEF S
<1> HIDE DEF T
<1>8. Nat \subseteq T
  BY <1>6, <1>7, M!Induct
<1>9. Books(w, {}, U)
  <2>1. Rest(q, Len(q)) = {}
    BY <1>1, RestIs
  <2>2. Books(f[Len(q)], Rest(q, Len(q)), U)
    <3> DEFINE n == Len(q)
    <3>1. n \in T /\ n \in Nat /\ n <= Len(q)
      BY <1>1, <1>8
    <3> HIDE DEF n
    <3>2. Books(f[n], Rest(q, n), U)
      BY <3>1 DEF T
    <3> QED BY <3>2 DEF n
  <2>3. Books(f[Len(q)], {}, U)
    BY <2>1, <2>2
  <2> QED BY <1>3, <1>5, <2>3
<1> HIDE DEF w
<1>10. D!State' = w
  <2>1. D!Becomes(w)
    BY <1>2 DEF w, o
  <2> QED BY <1>9, <2>1, StateIs DEF Books
<1> QED BY <1>9, <1>10

LEMMA LostBooks ==
    ASSUME NEW t, NEW U, Books(t, {}, U), NEW a PROVE Books([t EXCEPT !.signalled = @ \ {a}], {}, U)
<1> DEFINE u == [t EXCEPT !.signalled = t.signalled \ {a}]
<1>1. Typed(t)
  BY DEF Books
<1>2. Typed(u) /\ u.sends = t.sends /\ u.sendQ = t.sendQ /\ u.buffer = t.buffer /\ u.service = t.service
  BY <1>1 DEF Typed, StateType
<1> HIDE DEF u
<1>3. Books(u, {}, U)
  BY <1>2, BooksSame
<1> QED BY <1>3 DEF u

LEMMA FreeTaskBooks ==
    ASSUME ToldInv, BooksInv, D!FreeTask PROVE Books(D!State', {}, Unmade)
<1> DEFINE t == [D!State EXCEPT !.signalled = @ \ {"free"}]
           u == D!FreeSubs(t)
           w == D!FreePubs(u)
           U == Unmade
<1>1. Books(t, {}, U)
  BY LostBooks DEF BooksInv
<1>2. D!Becomes(w)
  BY Zenon DEF D!FreeTask, t, u, w
<1> HIDE DEF U, t
<1>3. Books(u, {}, U)
  <2> DEFINE v == [t.service EXCEPT !.sub = "gone"]
  <2>1. t.service \in ServiceType
    BY <1>1, Parts DEF Books
  <2>2. v \in ServiceType /\ v.payload = t.service.payload
    BY <2>1 DEF ServiceType
  <2>3. [t EXCEPT !.service.sub = "gone"] = [t EXCEPT !.service = v]
    OBVIOUS
  <2> HIDE DEF v
  <2>4. Books(D!Destroy([t EXCEPT !.service = v]), {}, U)
    BY <1>1, <2>2, ServiceBooks, DestroyBooks
  <2> QED BY <1>1, <2>3, <2>4 DEF D!FreeSubs
<1> HIDE DEF u
<1>4. Books(w, {}, U)
  <2> DEFINE v == [u.service EXCEPT !.pub = "gone"]
  <2>1. u.service \in ServiceType
    BY <1>3, Parts DEF Books
  <2>2. v \in ServiceType /\ v.payload = u.service.payload
    BY <2>1 DEF ServiceType
  <2>3. [u EXCEPT !.service.pub = "gone"] = [u EXCEPT !.service = v]
    OBVIOUS
  <2> HIDE DEF v
  <2>4. Books(D!Destroy([u EXCEPT !.service = v]), {}, U)
    BY <1>3, <2>2, ServiceBooks, DestroyBooks
  <2> QED BY <1>3, <2>3, <2>4 DEF D!FreePubs
<1> HIDE DEF w
<1> QED BY <1>2, <1>4, StateIs DEF Books, U

LEMMA TimerClosedBooks ==
    ASSUME ToldInv, BooksInv, D!TimerClosed PROVE Books(D!State', {}, Unmade)
<1> DEFINE v == [dservice EXCEPT !.timer = "none"]
           t == [D!State EXCEPT !.service = v]
           U == Unmade
           w == D!Destroy(t)
<1>1. Books(D!State, {}, U) /\ dservice \in ServiceType
  BY Parts DEF BooksInv, D!State, Books
<1>2. v \in ServiceType /\ v.payload = D!State.service.payload
  BY <1>1 DEF ServiceType, D!State
<1>3. D!Becomes(w)
  <2>1. t = [D!State EXCEPT !.service.timer = "none"]
    BY DEF D!State
  <2> HIDE DEF t
  <2> QED BY <2>1, Zenon DEF D!TimerClosed
<1> HIDE DEF v, U
<1>4. Books(w, {}, U)
  <2>1. Books(t, {}, U)
    BY <1>1, <1>2, ServiceBooks
  <2> HIDE DEF t
  <2> QED BY <2>1, DestroyBooks
<1> HIDE DEF w
<1> QED BY <1>3, <1>4, StateIs DEF Books, U

\* A send ends: the message is taken off what is sent.
LEMMA OffBooks ==
    ASSUME NEW t, NEW U, Books(t, {}, U), NEW x \in t.sends
    PROVE  /\ Books([t EXCEPT !.sends = t.sends \ {x}], {x}, U) /\ x \in Message
           /\ Typed([t EXCEPT !.sends = t.sends \ {x}])
<1> DEFINE S == t.sends \ {x}
           u == [t EXCEPT !.sends = S]
           Q == {x}
<1>1. Typed(t) /\ t.sends \in SUBSET Message /\ IsFiniteSet(t.sends) /\ x \in Message /\ Apart(t, {})
  BY Parts DEF Books
<1>2. S \in SUBSET Message /\ IsFiniteSet(S) /\ Q \in SUBSET Message /\ IsFiniteSet(Q)
  BY <1>1, FS_RemoveElement, FS_Singleton
<1>3. u = [t EXCEPT !.sends = S]
  OBVIOUS
<1> HIDE DEF S, u
<1>4. Typed(u) /\ u.sends = S /\ u.sendQ = t.sendQ /\ u.buffer = t.buffer /\ u.service = t.service
  BY <1>1, <1>2, <1>3 DEF Typed, StateType
<1>5. Pool(u, Q) = Pool(t, {})
  BY <1>4 DEF Pool, S
<1>6. Apart(u, Q)
  BY <1>1, <1>4 DEF Apart, S
<1>7. Books(u, Q, U)
  BY <1>2, <1>4, <1>5, <1>6, BooksMove
<1> QED BY <1>1, <1>4, <1>7 DEF u, S

LEMMA SendCompleteBooks ==
    ASSUME ToldInv, BooksInv, NEW x \in dsends, D!SendComplete(x) PROVE Books(D!State', {}, Unmade)
<1> DEFINE t == [D!State EXCEPT !.sends = dsends \ {x}]
           u == IF x.kind = "ack" THEN D!SharedBufferDecRef(t, x.buf) ELSE D!Published(t, x)
           w == IF x.kind # "ack" /\ u.service.pub = "destroyed" THEN D!FreePub(u) ELSE u
           U == Unmade
<1>1. Books(t, {} \cup {x}, U)
  <2>1. x \in D!State.sends /\ t = [D!State EXCEPT !.sends = D!State.sends \ {x}]
    BY DEF D!State
  <2> HIDE DEF t, U
  <2>2. Books(t, {x}, U)
    BY <2>1, OffBooks DEF BooksInv, U
  <2> QED BY <2>2
<1>2. D!Becomes(w)
  <2>1. t = [D!State EXCEPT !.sends = @ \ {x}]
    BY DEF D!State
  <2> HIDE DEF t
  <2> QED BY <2>1, Zenon DEF D!SendComplete, u, w
<1> HIDE DEF t, U
<1>3. Books(u, {}, U)
  <2>1. x \notin {}
    OBVIOUS
  <2> QED BY <1>1, <2>1, ReleaseBooks, PublishedBooks
<1> HIDE DEF u
<1>4. Books(w, {}, U)
  BY <1>3, FreePubBooks
<1> HIDE DEF w
<1> QED BY <1>2, <1>4, StateIs DEF Books, U

--------------------------------------------------------------------------------
(* Messages of other nodes. *)

\* Requests that were queued are still there, and what is new are acknowledgements.
Grown(rs, qs) == /\ Len(rs) <= Len(qs) /\ \A i \in DOMAIN rs : qs[i] = rs[i]
                 /\ \A i \in DOMAIN qs : i > Len(rs) => qs[i].k = "ack"
\* u is what a handler of a message, a link or an acknowledgement makes of t.
Handled(t, u, U) ==
    /\ Books(u, {}, U) /\ u.service = t.service /\ u.sendQ = t.sendQ
    /\ t.sends \subseteq u.sends /\ \A x \in u.sends \ t.sends : x.kind = "ack"
    /\ t.signalled \subseteq u.signalled /\ Grown(t.requests, u.requests)

LEMMA GrownTrans ==
    ASSUME NEW E, NEW rs \in Seq(E), NEW qs \in Seq(E), NEW ps \in Seq(E), Grown(rs, qs), Grown(qs, ps)
    PROVE  Grown(rs, ps)
<1>1. /\ DOMAIN rs = 1 .. Len(rs) /\ Len(rs) \in Nat /\ DOMAIN qs = 1 .. Len(qs) /\ Len(qs) \in Nat
      /\ DOMAIN ps = 1 .. Len(ps) /\ Len(ps) \in Nat
  OBVIOUS
<1>2. Len(rs) <= Len(ps) /\ \A i \in DOMAIN rs : ps[i] = rs[i]
  BY <1>1 DEF Grown
<1>3. ASSUME NEW i \in DOMAIN ps, i > Len(rs) PROVE ps[i].k = "ack"
  <2>1. CASE i > Len(qs)
    BY <2>1 DEF Grown
  <2>2. CASE ~(i > Len(qs))
    <3>1. i \in DOMAIN qs
      BY <1>1, <2>2
    <3>2. ps[i] = qs[i] /\ qs[i].k = "ack"
      BY <1>3, <3>1 DEF Grown
    <3> QED BY <3>2
  <2> QED BY <2>1, <2>2
<1> QED BY <1>2, <1>3 DEF Grown

LEMMA HandledTrans ==
    ASSUME NEW t, Typed(t), NEW u, NEW v, NEW U, Handled(t, u, U), Handled(u, v, U) PROVE Handled(t, v, U)
<1>1. Typed(u) /\ Typed(v)
  BY DEF Handled, Books
<1>2. t.requests \in Seq(Request) /\ u.requests \in Seq(Request) /\ v.requests \in Seq(Request)
  BY <1>1, Parts
<1>3. Grown(t.requests, u.requests) /\ Grown(u.requests, v.requests)
  BY DEF Handled
<1>4. Grown(t.requests, v.requests)
  BY <1>2, <1>3, GrownTrans
<1> QED BY <1>4 DEF Handled

LEMMA GrownSelf == ASSUME NEW E, NEW rs \in Seq(E) PROVE Grown(rs, rs)
BY DEF Grown

LEMMA HandledSelf == ASSUME NEW t, NEW U, Books(t, {}, U) PROVE Handled(t, t, U)
<1>1. t.requests \in Seq(Request)
  BY Parts DEF Books
<1>2. Grown(t.requests, t.requests)
  BY <1>1, GrownSelf
<1> QED BY <1>2 DEF Handled

\* An entry of rx is replaced.
LEMMA RxIs ==
    ASSUME NEW t, Typed(t), NEW m \in Discovered, NEW e \in RxEntry
    PROVE  LET u == [t EXCEPT !.rx[m] = e]
           IN  /\ Typed(u) /\ u.service = t.service /\ u.sendQ = t.sendQ /\ u.sends = t.sends
               /\ u.buffer = t.buffer /\ u.requests = t.requests /\ u.signalled = t.signalled
               /\ u.rx[m] = e /\ \A x \in Discovered : x # m => u.rx[x] = t.rx[x]
<1> DEFINE f == [t.rx EXCEPT ![m] = e]
           u == [t EXCEPT !.rx = f]
<1>1. t.rx \in RxType
  BY Parts
<1>2. f \in RxType /\ f[m] = e /\ \A x \in Discovered : x # m => f[x] = t.rx[x]
  BY <1>1 DEF RxType
<1>3. u = [t EXCEPT !.rx[m] = e]
  BY Zenon
<1> HIDE DEF f
<1>4. /\ Typed(u) /\ u.service = t.service /\ u.sendQ = t.sendQ /\ u.sends = t.sends
      /\ u.buffer = t.buffer /\ u.requests = t.requests /\ u.signalled = t.signalled /\ u.rx = f
  BY <1>2 DEF Typed, StateType
<1> HIDE DEF u
<1> QED BY <1>2, <1>3, <1>4, Zenon

LEMMA RxHandled ==
    ASSUME NEW t, NEW U, Books(t, {}, U), NEW m \in Discovered, NEW e \in RxEntry
    PROVE  Handled(t, [t EXCEPT !.rx[m] = e], U)
<1> DEFINE u == [t EXCEPT !.rx[m] = e]
<1>1. Typed(t)
  BY DEF Books
<1>2. /\ Typed(u) /\ u.service = t.service /\ u.sendQ = t.sendQ /\ u.sends = t.sends
      /\ u.buffer = t.buffer /\ u.requests = t.requests /\ u.signalled = t.signalled
  BY <1>1, RxIs
<1> HIDE DEF u
<1>3. Books(u, {}, U)
  BY <1>2, BooksSame
<1>4. Grown(t.requests, u.requests)
  BY <1>1, <1>2, Parts, GrownSelf
<1>5. Handled(t, u, U)
  BY <1>2, <1>3, <1>4 DEF Handled
<1> QED BY <1>5 DEF u

LEMMA SignalIs ==
    ASSUME NEW t, Typed(t), NEW a \in {"pubs", "free", "request"}
    PROVE  LET u == D!Signal(t, a)
           IN  /\ Typed(u) /\ u.service = t.service /\ u.sendQ = t.sendQ /\ u.sends = t.sends
               /\ u.buffer = t.buffer /\ u.requests = t.requests /\ u.rx = t.rx
               /\ u.signalled = t.signalled \cup {a}
<1> DEFINE u == [t EXCEPT !.signalled = t.signalled \cup {a}]
<1>1. D!Signal(t, a) = u
  BY DEF D!Signal
<1>2. /\ Typed(u) /\ u.service = t.service /\ u.sendQ = t.sendQ /\ u.sends = t.sends
      /\ u.buffer = t.buffer /\ u.requests = t.requests /\ u.rx = t.rx
      /\ u.signalled = t.signalled \cup {a}
  BY DEF Typed, StateType
<1> HIDE DEF u
<1> QED BY <1>1, <1>2

LEMMA ScheduleIs ==
    ASSUME NEW t, Typed(t), NEW r \in Request
    PROVE  LET u == D!Schedule(t, r)
           IN  /\ Typed(u) /\ u.service = t.service /\ u.sendQ = t.sendQ /\ u.sends = t.sends
               /\ u.buffer = t.buffer /\ u.requests = Append(t.requests, r) /\ u.rx = t.rx
               /\ u.signalled = t.signalled \cup {"request"}
<1> DEFINE q == Append(t.requests, r)
           v == [t EXCEPT !.requests = q]
<1>1. q \in Seq(Request)
  BY Parts
<1>2. D!Schedule(t, r) = D!Signal(v, "request")
  BY DEF D!Schedule
<1> HIDE DEF q
<1>3. /\ Typed(v) /\ v.service = t.service /\ v.sendQ = t.sendQ /\ v.sends = t.sends
      /\ v.buffer = t.buffer /\ v.requests = q /\ v.rx = t.rx /\ v.signalled = t.signalled
  BY <1>1 DEF Typed, StateType
<1> HIDE DEF v
<1> QED BY <1>2, <1>3, SignalIs DEF q

\* A new message is none of those in flight.
LEMMA MessageNew ==
    ASSUME NEW t, Typed(t), NEW kind \in {"hello", "goodbye", "ack"}, NEW b \in D!Maybe(D!Buffers)
    PROVE  D!Message(t, kind, b) \notin Pool(t, {})
<1>1. D!Message(t, kind, b).n = D!Tag(t)
  BY MessageType
<1>2. \A x \in t.sends \cup D!ToSet(t.sendQ) : x.n # D!Tag(t)
  BY TagFresh
<1> QED BY <1>1, <1>2 DEF Pool

LEMMA AckPublicationHandled ==
    ASSUME NEW t, NEW U, Books(t, {}, U), NEW sent \in BOOLEAN
    PROVE  Handled(t, D!AckPublication(t, sent), U) /\ D!AckPublication(t, sent).rx = t.rx
<1>1. CASE ~sent
  BY <1>1, HandledSelf DEF D!AckPublication
<1>2. CASE sent
  <2> DEFINE b == t.service.payload
             x == D!Message(t, "ack", b)
             u == D!SharedBufferIncRef(t, b)
             S == u.sends \cup {x}
             w == [u EXCEPT !.sends = S]
  <2>1. Typed(t) /\ b \in D!Maybe(D!Buffers)
    BY Parts, ServiceIs DEF Books
  <2>2. x \in Message /\ x.kind = "ack" /\ x.buf = b /\ x \notin Pool(t, {})
    BY <2>1, MessageType, MessageNew
  <2>3. D!AckPublication(t, sent) = w
    BY <1>2, Zenon DEF D!AckPublication, D!EncodeDiscoveryPayload, x, u, w
  <2> HIDE DEF x
  <2>4. Books(u, {x}, U) /\ u.sends = t.sends /\ u.sendQ = t.sendQ /\ u.service = t.service
    BY <2>2, SendBooks
  <2>5. Typed(u) /\ u.rx = t.rx /\ u.requests = t.requests /\ u.signalled = t.signalled
    <3>1. CASE b \in D!Buffers
      BY <2>1, <3>1, IncRefIs
    <3>2. CASE b = NULL
      BY <2>1, <3>2 DEF D!SharedBufferIncRef
    <3> QED BY <2>1, <3>1, <3>2, NullIs
  <2> HIDE DEF u
  <2>6. Books(w, {}, U)
    <3>1. x \notin {} /\ {} \cup {x} = {x}
      OBVIOUS
    <3> HIDE DEF w
    <3>2. Books([u EXCEPT !.sends = u.sends \cup {x}], {}, U)
      BY <2>4, <3>1, SentBooks
    <3> QED BY <3>2 DEF w
  <2>7. /\ w.service = u.service /\ w.sendQ = u.sendQ /\ w.rx = u.rx /\ w.requests = u.requests
        /\ w.signalled = u.signalled /\ w.sends = S
    <3> HIDE DEF S
    <3> QED BY <2>5 DEF Typed, StateType
  <2> HIDE DEF w
  <2>8. Grown(t.requests, w.requests)
    BY <2>1, <2>5, <2>7, Parts, GrownSelf
  <2>9. Handled(t, w, U)
    BY <2>2, <2>4, <2>5, <2>6, <2>7, <2>8 DEF Handled
  <2> QED BY <2>3, <2>5, <2>7, <2>9
<1> QED BY <1>1, <1>2

LEMMA CallHandlerHandled ==
    ASSUME NEW t, NEW U, Books(t, {}, U), NEW m \in Discovered, NEW sn \in Nat
    PROVE  Handled(t, D!CallHandler(t, m, sn), U)
<1> DEFINE e == Answer(t.rx[m], sn)
<1>1. Typed(t) /\ t.rx[m] \in RxEntry
  BY RxOf DEF Books
<1>2. CASE t.service.handler
  <2>1. D!CallHandler(t, m, sn) = [t EXCEPT !.rx[m] = e]
    BY <1>1, <1>2 DEF D!CallHandler, Answer, Typed, StateType, RxType
  <2>2. e \in RxEntry
    BY <1>1, AnswerIs
  <2> HIDE DEF e
  <2> QED BY <2>1, <2>2, RxHandled
<1>3. CASE ~t.service.handler
  BY <1>3, HandledSelf DEF D!CallHandler
<1> QED BY <1>2, <1>3

LEMMA LinkingHandled ==
    ASSUME NEW t, NEW U, Books(t, {}, U), NEW m \in Discovered PROVE Handled(t, D!Linking(t, m), U)
<1> DEFINE e == Awaited(t.rx[m], t.service.handler)
<1>1. Typed(t) /\ t.rx[m] \in RxEntry /\ t.service.handler \in BOOLEAN
  BY RxOf, Parts, ServiceIs DEF Books
<1>2. D!Linking(t, m) = [t EXCEPT !.rx[m] = e]
  BY <1>1 DEF D!Linking, Awaited, Typed, StateType, RxType
<1>3. e \in RxEntry
  BY <1>1, AwaitedIs
<1> HIDE DEF e
<1> QED BY <1>2, <1>3, RxHandled

LEMMA ScheduleAckHandled ==
    ASSUME NEW t, NEW U, Books(t, {}, U), NEW m \in Discovered PROVE Handled(t, D!ScheduleAck(t, m), U)
<1> DEFINE e == Asked(t.rx[m])
           r == [k |-> "ack", m |-> m]
           u == [t EXCEPT !.rx[m] = e]
           w == D!Schedule(u, r)
<1>1. Typed(t) /\ t.rx[m] \in RxEntry
  BY RxOf DEF Books
<1>2. u = [t EXCEPT !.rx[m].ack = "requested", !.rx[m].ackSvc = TRUE]
  BY <1>1 DEF Asked, Typed, StateType, RxType
<1>3. D!ScheduleAck(t, m) = w
  BY <1>2, Zenon DEF D!ScheduleAck
<1>4. e \in RxEntry
  BY <1>1, EntryAcks
<1>5. r \in Request /\ r.k = "ack"
  BY DEF Request
<1> HIDE DEF e, r
<1>6. Handled(t, u, U)
  BY <1>4, RxHandled
<1> HIDE DEF u
<1>7. Typed(u) /\ u.requests \in Seq(Request) /\ Books(u, {}, U)
  BY <1>6, Parts DEF Handled, Books
<1>8. /\ Typed(w) /\ w.service = u.service /\ w.sendQ = u.sendQ /\ w.sends = u.sends
      /\ w.buffer = u.buffer /\ w.requests = Append(u.requests, r)
      /\ w.signalled = u.signalled \cup {"request"}
  BY <1>5, <1>7, ScheduleIs
<1> HIDE DEF w
<1>9. Books(w, {}, U)
  BY <1>7, <1>8, BooksSame
<1>10. Grown(u.requests, Append(u.requests, r))
  BY <1>5, <1>7 DEF Grown
<1>11. Handled(u, w, U)
  BY <1>8, <1>9, <1>10 DEF Handled
<1>12. Handled(t, w, U)
  BY <1>1, <1>6, <1>11, HandledTrans
<1> QED BY <1>3, <1>12

LEMMA OnMessageHandled ==
    ASSUME NEW t, NEW U, Books(t, {}, U), NEW m \in Discovered, NEW linked \in BOOLEAN, NEW sent \in BOOLEAN
    PROVE  Handled(t, D!OnAck(t, m, linked), U) /\ Handled(t, D!OnPub(t, m, linked, sent), U)
<1> DEFINE ack == IF m.ackReq THEN D!AckPublication(t, sent) ELSE t
           later == IF m.ackReq THEN D!ScheduleAck(t, m) ELSE t
<1>1. Typed(t) /\ 1 \in Nat
  BY DEF Books
<1>2. Handled(t, ack, U) /\ Handled(t, later, U)
  BY AckPublicationHandled, ScheduleAckHandled, HandledSelf
<1> HIDE DEF ack, later
<1>3. Books(ack, {}, U) /\ Books(later, {}, U)
  BY <1>2 DEF Handled
<1>4. /\ Handled(t, D!CallHandler(t, m, 1), U) /\ Handled(t, D!Linking(t, m), U)
      /\ Handled(ack, D!CallHandler(ack, m, 1), U) /\ Handled(ack, D!Linking(ack, m), U)
      /\ Handled(later, D!CallHandler(later, m, 1), U)
  BY <1>3, CallHandlerHandled, LinkingHandled
<1>5. /\ Handled(t, D!CallHandler(ack, m, 1), U) /\ Handled(t, D!Linking(ack, m), U)
      /\ Handled(t, D!CallHandler(later, m, 1), U)
  BY <1>1, <1>2, <1>4, HandledTrans
<1>6. Handled(t, D!OnAck(t, m, linked), U)
  BY <1>4, Zenon DEF D!OnAck
<1>7. Handled(t, D!OnPub(t, m, linked, sent), U)
  BY <1>4, <1>5, Zenon DEF D!OnPub, ack, later
<1> QED BY <1>6, <1>7

LEMMA ReceiveHandled ==
    ASSUME ToldInv, BooksInv, NEW m \in Discovered, NEW linked \in BOOLEAN, NEW sent \in BOOLEAN,
           D!Receive(m, linked, sent)
    PROVE  Handled(D!State, D!State', Unmade)
<1> DEFINE t == [D!State EXCEPT !.rx[m].st = "received"]
           e == Arrived(drx[m])
           U == Unmade
           w == IF ~D!DecodeDiscoveryPayload(m) THEN t
                ELSE IF m.kind = "ack" THEN D!OnAck(t, m, linked) ELSE D!OnPub(t, m, linked, sent)
<1>1. Typed(D!State) /\ Books(D!State, {}, U) /\ drx[m] \in RxEntry
  BY StateTyped, RxOf DEF D!State, BooksInv
<1>2. t = [D!State EXCEPT !.rx[m] = e]
  BY <1>1 DEF Arrived, D!State, Typed, StateType, RxType
<1>3. e \in RxEntry
  BY <1>1, EntryAlso
<1>4. D!Becomes(w)
  BY Zenon DEF D!Receive, t, w
<1> HIDE DEF e, t, U
<1>5. Handled(D!State, t, U)
  BY <1>1, <1>2, <1>3, RxHandled
<1>6. Handled(t, w, U)
  BY <1>5, HandledSelf, OnMessageHandled DEF Handled
<1> HIDE DEF w
<1>7. Handled(D!State, w, U)
  BY <1>1, <1>5, <1>6, HandledTrans
<1> QED BY <1>4, <1>7, StateIs DEF Handled, Books, U

LEMMA LinkCbHandled ==
    ASSUME ToldInv, BooksInv, NEW m \in Discovered, D!LinkCb(m) PROVE Handled(D!State, D!State', Unmade)
<1> DEFINE t == [D!State EXCEPT !.rx[m].linking = FALSE, !.rx[m].linkSvc = FALSE]
           e == Over(drx[m])
           U == Unmade
           w == IF drx[m].linkSvc THEN D!CallHandler(t, m, D!CopyPublication(m)) ELSE t
<1>1. Typed(D!State) /\ Books(D!State, {}, U) /\ drx[m] \in RxEntry
  BY StateTyped, RxOf DEF D!State, BooksInv
<1>2. t = [D!State EXCEPT !.rx[m] = e]
  BY <1>1 DEF Over, D!State, Typed, StateType, RxType
<1>3. e \in RxEntry /\ D!CopyPublication(m) \in Nat
  BY <1>1, EntryAlso DEF D!CopyPublication
<1>4. D!Becomes(w)
  BY Zenon DEF D!LinkCb, t, w
<1> HIDE DEF e, t, U
<1>5. Handled(D!State, t, U)
  BY <1>1, <1>2, <1>3, RxHandled
<1>6. Handled(t, w, U)
  BY <1>3, <1>5, HandledSelf, CallHandlerHandled DEF Handled
<1> HIDE DEF w
<1>7. Handled(D!State, w, U)
  BY <1>1, <1>5, <1>6, HandledTrans
<1> QED BY <1>4, <1>7, StateIs DEF Handled, Books, U

LEMMA AckTimerHandled ==
    ASSUME ToldInv, BooksInv, NEW m \in Discovered, NEW sent \in BOOLEAN, D!AckTimerOnTimeout(m, sent)
    PROVE  Handled(D!State, D!State', Unmade)
<1> DEFINE t == [D!State EXCEPT !.rx[m].ack = "done", !.rx[m].ackSvc = FALSE]
           e == Acked(drx[m])
           U == Unmade
           w == IF drx[m].ackSvc THEN D!AckPublication(t, sent) ELSE t
<1>1. Typed(D!State) /\ Books(D!State, {}, U) /\ drx[m] \in RxEntry
  BY StateTyped, RxOf DEF D!State, BooksInv
<1>2. t = [D!State EXCEPT !.rx[m] = e]
  BY <1>1 DEF Acked, D!State, Typed, StateType, RxType
<1>3. e \in RxEntry
  BY <1>1, EntryAcks
<1>4. D!Becomes(w)
  BY Zenon DEF D!AckTimerOnTimeout, t, w
<1> HIDE DEF e, t, U
<1>5. Handled(D!State, t, U)
  BY <1>1, <1>2, <1>3, RxHandled
<1>6. Handled(t, w, U)
  BY <1>5, HandledSelf, AckPublicationHandled DEF Handled
<1> HIDE DEF w
<1>7. Handled(D!State, w, U)
  BY <1>1, <1>5, <1>6, HandledTrans
<1> QED BY <1>4, <1>7, StateIs DEF Handled, Books, U

\* A message is queued.
LEMMA QueuedBooks ==
    ASSUME NEW t, NEW U, NEW x, Books(t, {x}, U)
    PROVE  LET u == [t EXCEPT !.sendQ = Append(t.sendQ, x)]
           IN  /\ Books(u, {}, U) /\ u.sends = t.sends /\ u.service = t.service /\ u.rx = t.rx
               /\ u.requests = t.requests /\ u.signalled = t.signalled /\ u.sendQ = Append(t.sendQ, x)
<1> DEFINE q == Append(t.sendQ, x)
           u == [t EXCEPT !.sendQ = q]
<1>1. Typed(t) /\ x \in Message /\ Apart(t, {x}) /\ t.sendQ \in Seq(Message) /\ {} \in SUBSET Message
      /\ IsFiniteSet({})
  BY Parts, FS_EmptySet DEF Books
<1>2. q \in Seq(Message) /\ D!ToSet(q) = D!ToSet(t.sendQ) \cup {x}
  <2>1. /\ DOMAIN q = 1 .. Len(t.sendQ) + 1 /\ DOMAIN t.sendQ = 1 .. Len(t.sendQ) /\ Len(t.sendQ) \in Nat
        /\ \A i \in DOMAIN t.sendQ : q[i] = t.sendQ[i]
        /\ q[Len(t.sendQ) + 1] = x /\ q \in Seq(Message)
    BY <1>1
  <2> HIDE DEF q
  <2>2. D!ToSet(q) \subseteq D!ToSet(t.sendQ) \cup {x}
    BY <2>1 DEF D!ToSet
  <2>3. D!ToSet(t.sendQ) \subseteq D!ToSet(q) /\ x \in D!ToSet(q)
    BY <2>1 DEF D!ToSet
  <2> QED BY <2>1, <2>2, <2>3
<1>3. \A i, j \in DOMAIN q : i # j => q[i] # q[j]
  <2>1. /\ DOMAIN q = 1 .. Len(t.sendQ) + 1 /\ DOMAIN t.sendQ = 1 .. Len(t.sendQ) /\ Len(t.sendQ) \in Nat
        /\ \A i \in DOMAIN t.sendQ : q[i] = t.sendQ[i]
        /\ q[Len(t.sendQ) + 1] = x
    BY <1>1
  <2>2. \A i, j \in DOMAIN t.sendQ : i # j => t.sendQ[i] # t.sendQ[j]
    BY <1>1 DEF Apart
  <2>3. \A i \in DOMAIN t.sendQ : t.sendQ[i] # x
    BY <1>1, QueueSet DEF Apart
  <2> HIDE DEF q
  <2> QED BY <2>1, <2>2, <2>3
<1> HIDE DEF q
<1>4. /\ Typed(u) /\ u.sends = t.sends /\ u.service = t.service /\ u.rx = t.rx /\ u.buffer = t.buffer
      /\ u.requests = t.requests /\ u.signalled = t.signalled /\ u.sendQ = q
  BY <1>1, <1>2 DEF Typed, StateType
<1> HIDE DEF u
<1>5. Pool(u, {}) = Pool(t, {x})
  BY <1>2, <1>4 DEF Pool
<1>6. Apart(u, {})
  BY <1>1, <1>2, <1>3, <1>4 DEF Apart
<1>7. Books(u, {}, U)
  BY <1>1, <1>4, <1>5, <1>6, BooksMove
<1> QED BY <1>4, <1>7 DEF u, q

\* A goodbye carries no payload.
LEMMA GoodbyeBooks ==
    ASSUME NEW t, NEW U, Books(t, {}, U), NEW x \in Message, x \notin Pool(t, {}), x.buf = NULL
    PROVE  Books(t, {x}, U)
<1>1. Pool(t, {x}) = Pool(t, {}) \cup {x} /\ Apart(t, {x})
  BY DEF Books, Apart, Pool
<1>2. \A b \in D!Buffers : Carriers(t, {x}, b) = Carriers(t, {}, b)
  BY <1>1, NullIs DEF Carriers
<1>3. Paid(t, {x}, U)
  BY <1>2 DEF Books, Paid
<1>4. \A y \in Pool(t, {x}) : y.kind = "goodbye" => y.buf = NULL
  BY <1>1 DEF Books
<1>5. {x} \in SUBSET Message /\ IsFiniteSet({x})
  BY FS_Singleton
<1> QED BY <1>1, <1>3, <1>4, <1>5 DEF Books

LEMMA HelloBooks ==
    ASSUME ToldInv, BooksInv, D!PublishTimerOnTimeout PROVE Books(D!State', {}, Unmade)
<1> DEFINE v == [dservice EXCEPT !.hellos = dservice.hellos + 1]
           t == [D!State EXCEPT !.service = v]
           b == dservice.payload
           x == D!Message(t, "hello", b)
           u == D!SharedBufferIncRef(t, b)
           a == [u EXCEPT !.sendQ = Append(u.sendQ, x)]
           d == D!SharedBufferDecRef(u, b)
           s == [d.service EXCEPT !.timer = "stopped"]
           w == [d EXCEPT !.service = s]
           U == Unmade
<1>1. Books(D!State, {}, U) /\ dservice \in ServiceType
  BY Parts DEF BooksInv, D!State, Books
<1>2. v \in ServiceType /\ v.payload = D!State.service.payload /\ v.payload = b
  <2>1. dservice.hellos + 1 \in Nat
    BY <1>1, ServiceIs
  <2> QED BY <1>1, <2>1 DEF ServiceType, D!State
<1>3. D!Becomes(D!Signal(a, "pubs")) \/ D!Becomes(w)
  <2>1. t = [D!State EXCEPT !.service.hellos = @ + 1]
    BY DEF D!State
  <2>2. t.service.payload = b
    BY <1>1, <1>2 DEF Books, Typed, StateType
  <2> HIDE DEF t
  <2>3. IF dservice.pub = "listed"
        THEN D!Becomes(D!Signal([u EXCEPT !.sendQ = Append(@, x)], "pubs"))
        ELSE D!Becomes([d EXCEPT !.service.timer = "stopped"])
    BY <2>1, <2>2, Zenon DEF D!PublishTimerOnTimeout, D!EncodeDiscoveryPayload, u, x, d
  <2>4. [u EXCEPT !.sendQ = Append(@, x)] = a
    BY DEF a
  <2>5. [d EXCEPT !.service.timer = "stopped"] = w
    BY DEF w, s
  <2> HIDE DEF u, a, d, w, x
  <2> QED BY <2>3, <2>4, <2>5
<1>4. Books(t, {}, U) /\ t.service.payload = b
  <2>1. t.service = v
    BY <1>1, <1>2, WithService DEF Books
  <2> HIDE DEF v, t, U
  <2> QED BY <1>1, <1>2, <2>1, ServiceBooks DEF t
<1> HIDE DEF v, t, U
<1>5. x \in Message /\ x.kind = "hello" /\ x.buf = b /\ x \notin Pool(t, {})
  <2>1. Typed(t) /\ b \in D!Maybe(D!Buffers)
    BY <1>1, <1>4, ServiceIs DEF Books
  <2> QED BY <2>1, MessageType, MessageNew
<1> HIDE DEF x
<1>6. Books(u, {x}, U)
  BY <1>4, <1>5, SendBooks
<1> HIDE DEF u
<1>7. Books(a, {}, U)
  BY <1>6, QueuedBooks
<1>8. Books(D!Signal(a, "pubs"), {}, U)
  <2> HIDE DEF a
  <2> QED BY <1>7, SignalBooks
<1>9. Books(d, {}, U)
  <2>1. x \notin {} /\ {} \cup {x} = {x}
    OBVIOUS
  <2> QED BY <1>5, <1>6, <2>1, ReleaseBooks
<1> HIDE DEF a, d
<1>10. Books(w, {}, U)
  <2>1. d.service \in ServiceType
    BY <1>9, Parts DEF Books
  <2>2. s \in ServiceType /\ s.payload = d.service.payload
    BY <2>1 DEF ServiceType
  <2> HIDE DEF s
  <2> QED BY <1>9, <2>2, ServiceBooks
<1> HIDE DEF w
<1> QED BY <1>3, <1>8, <1>10, StateIs DEF Books, U

LEMMA RunBooks ==
    ASSUME NEW t, NEW U, Books(t, {}, U), NEW r \in Request PROVE Books(D!Run(t, r), {}, U)
<1>1. Typed(t) /\ t.service \in ServiceType
  BY Parts DEF Books
<1>2. CASE r.k = "start"
  <2> DEFINE v == [t.service EXCEPT !.timer = "armed"]
  <2>1. v \in ServiceType /\ v.payload = t.service.payload
    BY <1>1 DEF ServiceType
  <2>2. [t EXCEPT !.service.timer = "armed"] = [t EXCEPT !.service = v]
    OBVIOUS
  <2> HIDE DEF v
  <2>3. Books([t EXCEPT !.service = v], {}, U)
    BY <2>1, ServiceBooks
  <2>4. D!StartTimer(t) \in {t, [t EXCEPT !.service = v]}
    BY <2>2 DEF D!StartTimer
  <2> QED BY <1>2, <2>3, <2>4 DEF D!Run
<1>3. CASE r.k = "ack"
  <2> DEFINE m == r.m
             a == IF t.rx[m].ackSvc THEN "timer" ELSE "done"
             e == WithAck(t.rx[m], a)
  <2>1. m \in Discovered
    BY <1>3 DEF Request
  <2>2. t.rx \in RxType /\ t.rx[m] \in RxEntry
    BY <1>1, <2>1, Parts, RxOf
  <2>3. D!DelayAck(t, m) = [t EXCEPT !.rx[m] = e]
    BY <1>1, <2>1, <2>2 DEF D!DelayAck, WithAck, Typed, StateType, RxType
  <2>4. a \in {"none", "requested", "timer", "done"}
    OBVIOUS
  <2> HIDE DEF a, m
  <2>5. e \in RxEntry
    BY <2>2, <2>4, WithAckIs
  <2> HIDE DEF e
  <2>6. Books([t EXCEPT !.rx[m] = e], {}, U)
    BY <2>1, <2>5, RxHandled DEF Handled
  <2> QED BY <1>3, <2>3, <2>6 DEF D!Run, m
<1>4. CASE r.k = "destroy"
  BY <1>4, DestroyBooks DEF D!Run
<1> QED BY <1>2, <1>3, <1>4 DEF Request

LEMMA RanIs ==
    ASSUME ToldInv
    PROVE  /\ Typed(Ran) /\ Ran.sendQ = dsendQ /\ Ran.sends = dsends /\ Ran.service = dservice
           /\ Ran.buffer = dbuffer /\ Ran.rx = drx /\ Ran.requests = <<>>
           /\ Ran.signalled = dsignalled \ {"request"}
<1> DEFINE u == [D!State EXCEPT !.requests = <<>>]
<1>1. Typed(D!State)
  BY StateTyped
<1>2. <<>> \in Seq(Request)
  OBVIOUS
<1>3. Typed(u) /\ u.sendQ = dsendQ /\ u.sends = dsends /\ u.service = dservice /\ u.buffer = dbuffer
      /\ u.rx = drx /\ u.requests = <<>> /\ u.signalled = dsignalled
  BY <1>1, <1>2 DEF Typed, StateType, D!State
<1>4. Ran = [u EXCEPT !.signalled = u.signalled \ {"request"}]
  BY DEF Ran, D!State
<1> HIDE DEF u
<1> QED BY <1>3, <1>4 DEF Typed, StateType

LEMMA RunRequestsBooks ==
    ASSUME ToldInv, BooksInv, D!RunRequests PROVE Books(D!State', {}, Unmade)
<1> DEFINE U == Unmade
           S == {u \in StateType : Books(u, {}, U)}
           w == X!Fold(Ran, drequests)
<1>1. Ran \in S
  <2>1. Books(D!State, {}, U) /\ Typed(Ran)
    BY RanIs DEF BooksInv
  <2> HIDE DEF U
  <2>2. Books(Ran, {}, U)
    BY <2>1, RanIs, BooksSame DEF D!State
  <2> QED BY <2>1, <2>2 DEF Typed
<1>2. ASSUME NEW u \in S, NEW r \in Request PROVE D!Run(u, r) \in S
  <2>1. Books(D!Run(u, r), {}, U)
    BY RunBooks
  <2> HIDE DEF U
  <2> QED BY <2>1 DEF Books, Typed
<1>3. drequests \in Seq(Request)
  BY StateTyped, Parts DEF D!State
<1> HIDE DEF S
<1>4. w \in S
  BY <1>1, <1>2, <1>3, X!FoldStays
<1>5. Books(w, {}, U)
  BY <1>4 DEF S
<1>6. D!Becomes(w)
  BY RunRequestsIs
<1> HIDE DEF w, U
<1> QED BY <1>5, <1>6, StateIs DEF Books, U
\* The service takes a new payload.
LEMMA PayBooks ==
    ASSUME NEW t, NEW U, Books(t, {}, U), t.service.payload = NULL, NEW b \in D!Buffers, b \in U,
           NEW u, Typed(u), u.sends = t.sends, u.sendQ = t.sendQ, u.service.payload = b,
           u.buffer[b].refs = 1, u.buffer[b].st = "live",
           \A c \in D!Buffers : c # b => u.buffer[c] = t.buffer[c]
    PROVE  Books(u, {}, U \ {b})
<1>1. Pool(u, {}) = Pool(t, {}) /\ \A c : Carriers(u, {}, c) = Carriers(t, {}, c)
  BY DEF Pool, Carriers
<1>2. Paid(t, {}, U) /\ Typed(t) /\ {} \in SUBSET Message /\ IsFiniteSet({})
  BY DEF Books
<1>3. ASSUME NEW c \in D!Buffers
      PROVE  /\ u.buffer[c].refs = Cardinality(Carriers(u, {}, c)) + (IF u.service.payload = c THEN 1 ELSE 0)
             /\ u.buffer[c].st = "live" <=> u.buffer[c].refs > 0
             /\ u.buffer[c].st = "unused" <=> c \in U \ {b}
  <2> DEFINE k == Cardinality(Carriers(t, {}, c))
  <2>1. k \in Nat /\ c # NULL
    BY <1>2, PoolFinite, NullIs
  <2>2. /\ t.buffer[c].refs = k + (IF t.service.payload = c THEN 1 ELSE 0)
        /\ t.buffer[c].st = "live" <=> t.buffer[c].refs > 0
        /\ t.buffer[c].st = "unused" <=> c \in U
    BY <1>2, Zenon DEF Paid
  <2>3. Cardinality(Carriers(u, {}, c)) = k
    BY <1>1
  <2> HIDE DEF k
  <2>4. t.buffer[c].refs = k
    BY <2>1, <2>2
  <2>5. CASE c = b
    <3>1. k = 0
      BY <2>1, <2>2, <2>4, <2>5
    <3> QED BY <2>3, <2>5, <3>1
  <2>6. CASE c # b
    BY <2>1, <2>2, <2>3, <2>4, <2>6
  <2> QED BY <2>5, <2>6
<1>4. Paid(u, {}, U \ {b})
  BY <1>3, Zenon DEF Paid
<1>5. Apart(u, {})
  BY DEF Books, Apart
<1> QED BY <1>1, <1>2, <1>4, <1>5 DEF Books

\* A step that makes no payload.
LEMMA BooksBecome ==
    ASSUME BooksInv, Books(D!State', {}, Unmade), dservice'.publishes = dservice.publishes,
           dapp' = "payload" => dapp = "payload"
    PROVE  BooksInv'
<1>1. \A b \in D!Buffers : dbuffer'[b].st = "unused" <=> b \in Unmade
  BY DEF Books, Paid, D!State
<1>2. Unmade' = Unmade
  <2>1. Unmade \subseteq D!Buffers /\ Unmade' = {b \in D!Buffers : dbuffer'[b].st = "unused"}
    BY DEF Unmade
  <2> HIDE DEF Unmade
  <2> QED BY <1>1, <2>1
<1>3. BooksInv' = (/\ Books(D!State', {}, Unmade')
                   /\ \A b \in D!Buffers \ Unmade' : b <= dservice'.publishes
                   /\ dapp' = "payload" => dservice'.publishes \in Unmade')
  BY DEF BooksInv, Books, Paid, Apart, Carriers, Pool
<1>4. /\ \A b \in D!Buffers \ Unmade : b <= dservice.publishes
      /\ dapp = "payload" => dservice.publishes \in Unmade
  BY DEF BooksInv
<1> HIDE DEF Unmade
<1> QED BY <1>2, <1>3, <1>4

LEMMA SubscribeBooks == ASSUME ToldInv, BooksInv, D!Subscribe PROVE BooksInv'
<1>1. Typed(D!State) /\ Typed(D!State') /\ dservice \in ServiceType
  BY StateTyped, SubscribeKeeps, Parts DEF Told, D!State
<1>2. /\ dservice' = [dservice EXCEPT !.handler = dservice.wants, !.sub = "listed", !.publishes = @ + 1]
      /\ dbuffer' = dbuffer /\ dsendQ' = dsendQ /\ dsends' = dsends /\ dservice.publishes < NumBuffers
  BY DEF D!Subscribe
<1>3. dservice'.publishes = dservice.publishes + 1 /\ dservice'.payload = dservice.payload
  BY <1>1, <1>2 DEF ServiceType
<1>4. Books(D!State', {}, Unmade)
  <2> DEFINE U == Unmade
             u == D!State'
  <2>1. Books(D!State, {}, U)
    BY DEF BooksInv
  <2>2. /\ Typed(u) /\ u.sends = D!State.sends /\ u.sendQ = D!State.sendQ /\ u.buffer = D!State.buffer
        /\ u.service.payload = D!State.service.payload
    BY <1>1, <1>2, <1>3 DEF D!State
  <2> HIDE DEF U, u
  <2>3. Books(u, {}, U)
    BY <2>1, <2>2, BooksSame
  <2> QED BY <2>3 DEF U, u
<1>5. Unmade' = Unmade
  BY <1>2 DEF Unmade
<1>6. BooksInv' = (/\ Books(D!State', {}, Unmade')
                   /\ \A b \in D!Buffers \ Unmade' : b <= dservice'.publishes
                   /\ dapp' = "payload" => dservice'.publishes \in Unmade')
  BY DEF BooksInv, Books, Paid, Apart, Carriers, Pool
<1>7. \A b \in D!Buffers \ Unmade : b <= dservice.publishes
  BY DEF BooksInv
<1>8. D!Buffers \subseteq Nat /\ dservice.publishes \in Nat /\ dservice.publishes + 1 \in D!Buffers
  <2>1. dservice.publishes \in Nat /\ NumBuffers \in Nat
    BY <1>1, SizesAssumption, ServiceIs
  <2> QED BY <1>2, <2>1 DEF D!Buffers
<1> HIDE DEF Unmade
<1>9. \A b \in D!Buffers \ Unmade : b <= dservice'.publishes
  BY <1>3, <1>7, <1>8
<1>10. dservice'.publishes \in Unmade
  <2>1. ~(dservice.publishes + 1 <= dservice.publishes)
    BY <1>8
  <2> QED BY <1>3, <1>7, <1>8, <2>1
<1> QED BY <1>4, <1>5, <1>6, <1>9, <1>10

LEMMA ReplacePayloadBooks ==
    ASSUME ToldInv, BooksInv, NEW b \in D!Maybe(D!Buffers), D!ReplacePayload(b) PROVE BooksInv'
<1> DEFINE d == D!SharedBufferDecRef(D!State, dservice.payload)
           n == [d.service EXCEPT !.payload = NULL]
           v == [d.service EXCEPT !.payload = b]
           t == [d EXCEPT !.service = n]
           s == [d EXCEPT !.service = v]
           g == [refs |-> 1, st |-> "live"]
           f == [s.buffer EXCEPT ![b] = g]
           w == [s EXCEPT !.buffer = f]
           U == Unmade
<1>1. Books(D!State, {}, U) /\ Typed(D!State) /\ dservice \in ServiceType
  BY StateTyped, Parts DEF D!State, BooksInv
<1>2. Typed(d) /\ d.service \in ServiceType
  <2>1. Kept(D!State, d) /\ Typed(d)
    BY <1>1, ServiceIs, DecRefKeeps, KeptTyped
  <2> QED BY <2>1, Parts
<1>3. D!Becomes(IF b = NULL THEN s ELSE w) /\ b \in {NULL, dservice.publishes} /\ dapp = "payload" /\ dapp' = "schedule"
  <2>1. [d EXCEPT !.service.payload = b] = s
    BY Zenon
  <2>2. [s EXCEPT !.buffer[b] = [refs |-> 1, st |-> "live"]] = w
    BY Zenon
  <2>3. d = D!SharedBufferDecRef(D!State, dservice.payload)
    OBVIOUS
  <2> HIDE DEF d, s, w
  <2>4. LET r == [d EXCEPT !.service.payload = b]
        IN  D!Becomes(IF b = NULL THEN r ELSE [r EXCEPT !.buffer[b] = [refs |-> 1, st |-> "live"]])
    BY <2>3, Zenon DEF D!ReplacePayload
  <2>5. b \in {NULL, dservice.publishes} /\ dapp = "payload" /\ dapp' = "schedule"
    BY DEF D!ReplacePayload
  <2> QED BY <2>1, <2>2, <2>4, <2>5, Zenon
<1>4. n \in ServiceType /\ n.payload = NULL /\ v \in ServiceType /\ v.payload = b /\ v.publishes = d.service.publishes
  BY <1>2 DEF ServiceType, D!Maybe
<1> HIDE DEF n, v
<1>5. /\ Typed(t) /\ t.sends = d.sends /\ t.sendQ = d.sendQ /\ t.buffer = d.buffer /\ t.service = n
      /\ Typed(s) /\ s.sends = d.sends /\ s.sendQ = d.sendQ /\ s.buffer = d.buffer /\ s.service = v
  <2>1. \A e \in {n, v} : LET u == [d EXCEPT !.service = e]
           IN u \in StateType /\ u.sends = d.sends /\ u.service = e /\ u.buffer = d.buffer /\ u.sendQ = d.sendQ
    BY <1>2, <1>4, WithService
  <2>2. /\ t \in StateType /\ t.sends = d.sends /\ t.sendQ = d.sendQ /\ t.buffer = d.buffer /\ t.service = n
        /\ s \in StateType /\ s.sends = d.sends /\ s.sendQ = d.sendQ /\ s.buffer = d.buffer /\ s.service = v
    BY <2>1
  <2> HIDE DEF t, s
  <2> QED BY <1>2, <2>2 DEF Typed
<1> HIDE DEF t, s
<1>6. Books(t, {}, U)
  <2>1. D!State.service = dservice
    BY DEF D!State
  <2> HIDE DEF U
  <2> QED BY <1>1, <1>4, <1>5, <2>1, UnpaidBooks DEF d
<1>7. d.service = dservice
  <2>1. dservice.payload \in D!Buffers \/ dservice.payload = NULL
    BY <1>1, ServiceIs, NullIs
  <2>2. CASE dservice.payload \in D!Buffers
    BY <1>1, <2>2, DecRefIs DEF D!State
  <2>3. CASE dservice.payload = NULL
    BY <2>3 DEF d, D!SharedBufferDecRef, D!State
  <2> QED BY <2>1, <2>2, <2>3
<1> HIDE DEF d
<1>8. CASE b = NULL
  <2>1. Books(s, {}, U)
    <3> HIDE DEF U
    <3> QED BY <1>4, <1>5, <1>6, <1>8, BooksSame
  <2>2. D!Becomes(s)
    BY <1>3, <1>8
  <2>3. D!State' = s /\ dservice' = s.service
    BY <1>5, <2>2, StateIs DEF D!Becomes
  <2>4. Books(D!State', {}, Unmade)
    BY <2>1, <2>3
  <2>5. dservice'.publishes = dservice.publishes
    BY <1>4, <1>5, <1>7, <2>3
  <2> QED BY <1>3, <2>4, <2>5, BooksBecome
<1>9. CASE b # NULL
  <2>1. b \in D!Buffers /\ b \in U /\ b = dservice.publishes
    BY <1>3, <1>9, NullIs DEF BooksInv
  <2>2. s.buffer \in BufferType /\ g \in [refs : Int, st : {"unused", "live", "freed"}] /\ g.refs = 1 /\ g.st = "live"
    BY <1>5, Parts
  <2> HIDE DEF g
  <2>3. f \in BufferType /\ f[b] = g /\ \A c \in D!Buffers : c # b => f[c] = s.buffer[c]
    BY <2>1, <2>2 DEF BufferType
  <2> HIDE DEF f
  <2>4. Typed(w) /\ w.sends = s.sends /\ w.sendQ = s.sendQ /\ w.buffer = f /\ w.service = s.service
    BY <1>5, <2>3 DEF Typed, StateType
  <2> HIDE DEF w
  <2>5. Books(w, {}, U \ {b})
    <3> HIDE DEF U
    <3> QED BY <1>4, <1>5, <1>6, <2>1, <2>2, <2>3, <2>4, PayBooks
  <2>6. D!Becomes(w)
    BY <1>3, <1>9
  <2>7. D!State' = w /\ dservice' = w.service
    BY <2>4, <2>6, StateIs DEF D!Becomes
  <2>8. Books(D!State', {}, U \ {b})
    BY <2>5, <2>7
  <2>9. Unmade' = U \ {b}
    <3>1. \A c \in D!Buffers : dbuffer'[c].st = "unused" <=> c \in U \ {b}
      BY <2>8 DEF Books, Paid, D!State
    <3>2. Unmade \subseteq D!Buffers /\ Unmade' = {c \in D!Buffers : dbuffer'[c].st = "unused"}
      BY DEF Unmade
    <3> HIDE DEF Unmade
    <3> QED BY <3>1, <3>2 DEF U
  <2>10. dservice'.publishes = dservice.publishes
    BY <1>4, <1>5, <1>7, <2>4, <2>7
  <2>11. BooksInv' = (/\ Books(D!State', {}, Unmade')
                      /\ \A c \in D!Buffers \ Unmade' : c <= dservice'.publishes
                      /\ dapp' = "payload" => dservice'.publishes \in Unmade')
    BY DEF BooksInv, Books, Paid, Apart, Carriers, Pool
  <2>12. \A c \in D!Buffers \ U : c <= dservice.publishes
    BY DEF BooksInv
  <2>13. b <= b
    BY <2>1 DEF D!Buffers
  <2> HIDE DEF U
  <2> QED BY <1>3, <2>1, <2>8, <2>9, <2>10, <2>11, <2>12, <2>13
<1> QED BY <1>8, <1>9

LEMMA ScheduleBooks ==
    ASSUME NEW t, NEW U, Books(t, {}, U), NEW r \in Request PROVE Books(D!Schedule(t, r), {}, U)
<1>1. Typed(t)
  BY DEF Books
<1> QED BY <1>1, ScheduleIs, BooksSame

LEMMA ScheduleStartBooks ==
    ASSUME ToldInv, BooksInv, D!ScheduleStart PROVE Books(D!State', {}, Unmade)
<1> DEFINE r == [k |-> "start"]
           w == D!Schedule(D!State, r)
           U == Unmade
<1>1. r \in Request
  BY DEF Request
<1>2. Books(D!State, {}, U) /\ D!Becomes(w)
  BY DEF BooksInv, D!ScheduleStart
<1> HIDE DEF r, U
<1>3. Books(w, {}, U)
  BY <1>1, <1>2, ScheduleBooks
<1> HIDE DEF w
<1> QED BY <1>2, <1>3, StateIs DEF Books, U

LEMMA DestroyServiceBooks ==
    ASSUME ToldInv, BooksInv, NEW refused \in BOOLEAN, D!DestroyDiscoveryService(refused)
    PROVE  Books(D!State', {}, Unmade)
<1> DEFINE v == [dservice EXCEPT !.destroying = TRUE]
           t == [D!State EXCEPT !.service = v]
           r == [k |-> "destroy"]
           m == D!Message(t, "goodbye", NULL)
           w == [t EXCEPT !.sendQ = Append(t.sendQ, m)]
           U == Unmade
<1>1. Books(D!State, {}, U) /\ dservice \in ServiceType
  BY StateTyped, Parts DEF D!State, BooksInv
<1>2. v \in ServiceType /\ v.payload = D!State.service.payload
  BY <1>1 DEF ServiceType, D!State
<1>3. IF refused THEN D!Becomes(D!Schedule(t, r)) ELSE D!Becomes(D!Signal(w, "pubs"))
  <2>1. t = [D!State EXCEPT !.service.destroying = TRUE]
    BY DEF D!State
  <2> HIDE DEF t
  <2>2. [t EXCEPT !.sendQ = Append(@, m)] = w
    BY DEF w
  <2> HIDE DEF m, w
  <2> QED BY <2>1, <2>2, Zenon DEF D!DestroyDiscoveryService, m, r
<1> HIDE DEF v, U
<1>4. Books(t, {}, U) /\ Typed(t)
  <2>1. Books(t, {}, U)
    BY <1>1, <1>2, ServiceBooks
  <2> QED BY <2>1 DEF Books
<1> HIDE DEF t
<1>5. Books(D!Schedule(t, r), {}, U)
  <2>1. r \in Request
    BY DEF Request
  <2> HIDE DEF r
  <2> QED BY <1>4, <2>1, ScheduleBooks
<1>6. Books(D!Signal(w, "pubs"), {}, U)
  <2>1. NULL \in D!Maybe(D!Buffers)
    BY DEF D!Maybe
  <2>2. m \in Message /\ m.buf = NULL /\ m \notin Pool(t, {})
    BY <1>4, <2>1, MessageType, MessageNew
  <2> HIDE DEF m
  <2>3. Books(t, {m}, U)
    BY <1>4, <2>2, GoodbyeBooks
  <2>4. Books(w, {}, U)
    BY <2>3, QueuedBooks
  <2> HIDE DEF w
  <2> QED BY <2>4, SignalBooks
<1> HIDE DEF r, w
<1>7. \E u : Books(u, {}, U) /\ D!Becomes(u)
  BY <1>3, <1>5, <1>6
<1> QED BY <1>7, StateIs DEF Books, U

LEMMA BooksInit == ASSUME D!Init PROVE BooksInv
<1>1. /\ dservice.payload = NULL /\ dservice.publishes = 0 /\ dbuffer = [b \in D!Buffers |-> [refs |-> 0, st |-> "unused"]]
      /\ dsendQ = <<>> /\ dsends = {} /\ dapp = "idle"
  BY DEF D!Init
<1>2. Typed(D!State) /\ {} \in SUBSET Message /\ IsFiniteSet({}) /\ Cardinality({}) = 0
  BY ToldInit, StateTyped, FS_EmptySet
<1>3. Pool(D!State, {}) = {} /\ \A b : Carriers(D!State, {}, b) = {}
  BY <1>1 DEF Pool, Carriers, D!State, D!ToSet
<1>4. Unmade = D!Buffers
  BY <1>1 DEF Unmade
<1>5. Paid(D!State, {}, Unmade)
  <2>1. ASSUME NEW b \in D!Buffers
        PROVE  /\ dbuffer[b].refs = Cardinality(Carriers(D!State, {}, b)) + (IF dservice.payload = b THEN 1 ELSE 0)
               /\ dbuffer[b].st = "live" <=> dbuffer[b].refs > 0
               /\ dbuffer[b].st = "unused" <=> b \in Unmade
    <3>1. dbuffer[b].refs = 0 /\ dbuffer[b].st = "unused" /\ dservice.payload # b
      BY <1>1, NullIs
    <3>2. Cardinality(Carriers(D!State, {}, b)) = 0
      BY <1>2, <1>3
    <3> QED BY <1>4, <3>1, <3>2
  <2> QED BY <2>1 DEF Paid, D!State
<1>6. Apart(D!State, {})
  BY <1>1 DEF Apart, D!State
<1>7. Books(D!State, {}, Unmade)
  BY <1>2, <1>3, <1>5, <1>6 DEF Books
<1> QED BY <1>1, <1>4, <1>7 DEF BooksInv

LEMMA BooksStep == ASSUME ToldInv, BooksInv, D!Next PROVE BooksInv'
<1>1. ASSUME D!SendPubs \/ D!FreeTask \/ D!RunRequests \/ D!TimerClosed \/ D!PublishTimerOnTimeout \/ D!Replies
             \/ (\E x \in dsends : D!SendComplete(x))
             \/ (\E m \in Discovered, linked, sent \in BOOLEAN : D!Receive(m, linked, sent))
      PROVE  BooksInv'
  <2>1. dservice'.publishes = dservice.publishes
    BY <1>1, SendPubsKeeps, FreeTaskKeeps, RunRequestsKeeps, TimerClosedKeeps, HelloKeeps, LinkCbKeeps,
       AckTimerKeeps, SendCompleteKeeps, ReceiveKeeps DEF D!Replies
  <2>2. dapp' = dapp
    BY <1>1 DEF D!SendPubs, D!FreeTask, D!RunRequests, D!Visit, D!Between, D!TimerClosed,
                D!PublishTimerOnTimeout, D!Replies, D!LinkCb, D!AckTimerOnTimeout, D!SendComplete, D!Receive
  <2>3. Books(D!State', {}, Unmade)
    <3>1. CASE D!SendPubs \/ D!FreeTask \/ D!RunRequests \/ D!TimerClosed \/ D!PublishTimerOnTimeout
               \/ (\E x \in dsends : D!SendComplete(x))
      BY <3>1, SendPubsBooks, FreeTaskBooks, RunRequestsBooks, TimerClosedBooks, HelloBooks, SendCompleteBooks
    <3>2. CASE D!Replies \/ (\E m \in Discovered, linked, sent \in BOOLEAN : D!Receive(m, linked, sent))
      <4>1. Handled(D!State, D!State', Unmade)
        BY <3>2, ReceiveHandled, LinkCbHandled, AckTimerHandled DEF D!Replies
      <4> QED BY <4>1, Zenon DEF Handled
    <3> QED BY <1>1, <3>1, <3>2
  <2> QED BY <2>1, <2>2, <2>3, BooksBecome
<1>2. ASSUME D!ScheduleStart \/ (\E refused \in BOOLEAN : D!DestroyDiscoveryService(refused)) PROVE BooksInv'
  <2>1. Books(D!State', {}, Unmade)
    BY <1>2, ScheduleStartBooks, DestroyServiceBooks
  <2>2. dservice'.publishes = dservice.publishes
    <3>1. dservice \in ServiceType
      BY StateTyped, Parts DEF D!State
    <3>2. CASE D!ScheduleStart
      BY <3>2 DEF D!ScheduleStart, D!Schedule, D!Signal, D!Becomes, D!State
    <3>3. CASE \E refused \in BOOLEAN : D!DestroyDiscoveryService(refused)
      <4> DEFINE v == [dservice EXCEPT !.destroying = TRUE]
                 t == [D!State EXCEPT !.service.destroying = TRUE]
      <4>1. t.service = v
        BY DEF D!State
      <4>2. v.publishes = dservice.publishes
        BY <3>1 DEF ServiceType
      <4> HIDE DEF v, t
      <4>3. dservice' = t.service
        BY <3>3 DEF D!DestroyDiscoveryService, D!Schedule, D!Signal, D!Becomes, t
      <4> QED BY <4>1, <4>2, <4>3
    <3> QED BY <1>2, <3>2, <3>3
  <2>3. dapp' # "payload"
    BY <1>2 DEF D!ScheduleStart, D!DestroyDiscoveryService
  <2> QED BY <2>1, <2>2, <2>3, BooksBecome
<1> QED BY <1>1, <1>2, SubscribeBooks, ReplacePayloadBooks DEF D!Next, D!LoopWork, D!Application

LEMMA BooksStutter == ASSUME BooksInv, UNCHANGED dVars PROVE BooksInv'
BY DEF BooksInv, Books, Paid, Apart, Carriers, Pool, Unmade, D!State, dVars

LEMMA BooksHold == ASSUME BooksInv PROVE D!PayloadCounted
<1>1. Books(D!State, {}, Unmade)
  BY DEF BooksInv
<1>2. Paid(D!State, {}, Unmade) /\ Typed(D!State) /\ {} \in SUBSET Message /\ IsFiniteSet({})
  BY <1>1 DEF Books
<1>3. ASSUME NEW b \in D!Buffers, dbuffer[b].st # "unused"
      PROVE  /\ dbuffer[b].refs = D!Cardinality({x \in dsends \cup D!ToSet(dsendQ) : x.buf = b})
                                  + (IF dservice.payload = b THEN 1 ELSE 0)
             /\ (dbuffer[b].st = "freed") = (dbuffer[b].refs = 0)
  <2> DEFINE S == {x \in dsends \cup D!ToSet(dsendQ) : x.buf = b}
  <2>1. Carriers(D!State, {}, b) = S
    BY DEF Carriers, Pool, D!State
  <2>2. Cardinality(S) \in Nat
    BY <1>2, <2>1, PoolFinite
  <2>3. /\ dbuffer[b].refs = Cardinality(S) + (IF dservice.payload = b THEN 1 ELSE 0)
        /\ dbuffer[b].st = "live" <=> dbuffer[b].refs > 0
    BY <1>2, <2>1, ZenonT(40) DEF Paid, D!State
  <2>4. dbuffer[b].st \in {"unused", "live", "freed"}
    <3>1. dbuffer \in BufferType
      BY <1>2, Parts DEF D!State
    <3> QED BY <3>1 DEF BufferType
  <2>5. D!Cardinality(S) = Cardinality(S)
    BY SameCardinality
  <2> HIDE DEF S
  <2>6. dbuffer[b].refs \in Nat
    BY <2>2, <2>3
  <2>7. (dbuffer[b].st = "freed") <=> (dbuffer[b].refs = 0)
    BY <1>3, <2>3, <2>4, <2>6
  <2>8. dbuffer[b].refs = D!Cardinality(S) + (IF dservice.payload = b THEN 1 ELSE 0)
    BY <2>3, <2>5
  <2> QED BY <2>7, <2>8 DEF S
<1> QED BY <1>3 DEF D!PayloadCounted

--------------------------------------------------------------------------------
(* The discovery service takes itself apart. *)

Goodbyes(t) == {x \in Pool(t, {}) : x.kind = "goodbye"}
OnlyAcks(t) == \A x \in t.sends : x.kind = "ack"
Forgotten(t) == \A m \in Discovered : ~t.rx[m].ackSvc /\ ~t.rx[m].linkSvc
\* A request, the only one of those of rs that follow j, to destroy the service; what
\* follows it are acknowledgements.
LastAsk(rs, j, i) == /\ i > j /\ rs[i].k = "destroy"
                     /\ \A h \in DOMAIN rs : h > i => rs[h].k = "ack"
                     /\ \A h \in DOMAIN rs : j < h /\ h < i => rs[h].k # "destroy"

\* Nothing of the service was taken apart.
Up(v) == /\ v.st = "live" /\ v.destroyed = 0 /\ v.timer \in {"none", "armed"}
         /\ v.sub \in {"created", "listed"} /\ v.pub = "listed"
\* It is being taken apart: the publication goes after the subscription, the queue is empty
\* when no message of the publication is left, and a timer that was started meanwhile is
\* closed like the first.
Ending(t) ==
    LET v == t.service
    IN  /\ v.st = "live" /\ v.destroyed = 0 /\ (v.pub # "listed" => v.sub = "gone")
        /\ v.pub = "destroyed" => (OnlyAcks(t) => t.sendQ = <<>>)
        /\ v.pub = "gone" => OnlyAcks(t) /\ t.sendQ = <<>>
Gone(v) == v.st = "freed" /\ v.destroyed = 1 /\ v.pub = "gone" /\ v.timer = "none" /\ v.sub = "gone"
Underway(t) == \/ Ending(t)
               \/ Gone(t.service) /\ OnlyAcks(t) /\ t.sendQ = <<>> /\ Forgotten(t)

\* How far the destruction has come; the requests that were not run yet are those of rs
\* that follow j.  It is not asked for, a goodbye is queued or sent, a request stands for
\* the goodbye that could not be, or it has begun; the timer may then still be asked for
\* only if the goodbye was refused at once.
Before(t, rs, j) == /\ Up(t.service) /\ ~t.service.destroying
                    /\ Goodbyes(t) = {} /\ ~Asks(rs, j, "destroy")
Leaving(t, rs, j) == /\ Up(t.service) /\ t.service.destroying
                     /\ (\E x : Goodbyes(t) = {x}) /\ ~Asks(rs, j, "destroy")
Requested(t, rs, j) == /\ Up(t.service) /\ t.service.destroying
                       /\ Goodbyes(t) = {} /\ \E i \in DOMAIN rs : LastAsk(rs, j, i)
Undone(t, rs, j) == /\ Underway(t) /\ t.service.destroying
                    /\ Goodbyes(t) = {} /\ ~Asks(rs, j, "destroy")
                    /\ Asks(rs, j, "start") => t.service.refused
Stage(t, rs, j) == Before(t, rs, j) \/ Leaving(t, rs, j) \/ Requested(t, rs, j) \/ Undone(t, rs, j)

\* A goodbye that was sent does not end before the requests that were made before it are run.
Late(t) == Sends(t, "goodbye") /\ Asks(t.requests, 0, "start")
Staged(t) == Stage(t, t.requests, 0) /\ (Asks(t.requests, 0, "start") => "request" \in t.signalled)
StageInv == Staged(D!State) /\ (Late(D!State) => dpass # 0) /\ (dservice.destroying <=> dapp = "done")

\* What the stages tell of a service.
Stands(v, w) == /\ w.st = v.st /\ w.destroyed = v.destroyed /\ w.pub = v.pub /\ w.timer = v.timer
                /\ w.sub = v.sub /\ w.destroying = v.destroying /\ w.refused = v.refused

LEMMA StageMoves ==
    ASSUME NEW t, NEW u, NEW rs, NEW j, Stage(t, rs, j), Stands(t.service, u.service), Goodbyes(u) = Goodbyes(t),
           t.service.pub = "destroyed" => (OnlyAcks(u) => OnlyAcks(t)) /\ (t.sendQ = <<>> => u.sendQ = <<>>),
           t.service.pub = "gone" /\ OnlyAcks(t) /\ t.sendQ = <<>> => OnlyAcks(u) /\ u.sendQ = <<>>,
           Gone(t.service) /\ OnlyAcks(t) /\ t.sendQ = <<>> /\ Forgotten(t) => Forgotten(u)
    PROVE  Stage(u, rs, j)
<1>1. /\ u.service.destroying = t.service.destroying /\ u.service.refused = t.service.refused
      /\ Up(t.service) => Up(u.service)
      /\ Ending(t) => Ending(u)
      /\ Gone(t.service) => Gone(u.service) /\ t.service.pub = "gone"
  BY DEF Stands, Up, Ending, Gone
<1>2. Underway(t) => Underway(u)
  BY <1>1 DEF Underway
<1> QED BY <1>1, <1>2 DEF Stage, Before, Leaving, Requested, Undone

\* Requests that are added to the queue are acknowledgements.
LEMMA StageGrows ==
    ASSUME NEW t, NEW E, NEW rs \in Seq(E), NEW qs \in Seq(E), Stage(t, rs, 0), Grown(rs, qs)
    PROVE  /\ Stage(t, qs, 0)
           /\ \A what \in {"start", "destroy"} : Asks(qs, 0, what) <=> Asks(rs, 0, what)
<1>1. /\ DOMAIN rs = 1 .. Len(rs) /\ DOMAIN qs = 1 .. Len(qs) /\ Len(rs) \in Nat /\ Len(qs) \in Nat
      /\ Len(rs) <= Len(qs)
  BY DEF Grown
<1>2. ASSUME NEW what \in {"start", "destroy"} PROVE Asks(qs, 0, what) <=> Asks(rs, 0, what)
  BY <1>1, <1>2 DEF Asks, Grown
<1>3. ASSUME NEW i \in DOMAIN rs, LastAsk(rs, 0, i) PROVE i \in DOMAIN qs /\ LastAsk(qs, 0, i)
  BY <1>1, <1>3 DEF LastAsk, Grown
<1> QED BY <1>2, <1>3 DEF Stage, Before, Leaving, Requested, Undone

\* What a handler of a message, a link or an acknowledgement does changes no stage.
LEMMA StageHandled ==
    ASSUME NEW t, NEW u, NEW U, Typed(t), Staged(t), Handled(t, u, U),
           Gone(t.service) /\ Forgotten(t) => Forgotten(u)
    PROVE  Staged(u) /\ u.service.destroying = t.service.destroying /\ (Late(u) => Late(t))
<1>1. Typed(u) /\ t.requests \in Seq(Request) /\ u.requests \in Seq(Request)
  <2>1. Typed(u)
    BY DEF Handled, Books
  <2> QED BY <2>1, Parts
<1>2. u.service = t.service /\ u.sendQ = t.sendQ /\ t.sends \subseteq u.sends
      /\ (\A x \in u.sends \ t.sends : x.kind = "ack") /\ t.signalled \subseteq u.signalled
      /\ Grown(t.requests, u.requests)
  BY Zenon DEF Handled
<1>3. Goodbyes(u) = Goodbyes(t)
  BY <1>2 DEF Goodbyes, Pool
<1>4. Stage(t, t.requests, 0) /\ (Asks(t.requests, 0, "start") => "request" \in t.signalled)
  BY DEF Staged
<1>5. /\ Stage(t, u.requests, 0)
      /\ \A what \in {"start", "destroy"} : Asks(u.requests, 0, what) <=> Asks(t.requests, 0, what)
  BY <1>1, <1>2, <1>4, StageGrows
<1>6. Stage(u, u.requests, 0)
  <2>1. Stands(t.service, u.service)
    BY <1>2 DEF Stands
  <2>2. (OnlyAcks(u) => OnlyAcks(t)) /\ (OnlyAcks(t) => OnlyAcks(u))
    BY <1>2 DEF OnlyAcks
  <2> QED BY <1>2, <1>3, <1>5, <2>1, <2>2, StageMoves
<1>7. Sends(u, "goodbye") <=> Sends(t, "goodbye")
  BY <1>2 DEF Sends
<1> QED BY <1>2, <1>4, <1>5, <1>6, <1>7 DEF Staged, Late

--------------------------------------------------------------------------------
(* What each step of the destruction does to a state. *)

\* u is t but for its payloads.
Alike(t, u) == /\ Typed(u) /\ u.service = t.service /\ u.sends = t.sends /\ u.sendQ = t.sendQ
               /\ u.rx = t.rx /\ u.requests = t.requests /\ u.signalled = t.signalled

LEMMA DecRefAlike ==
    ASSUME NEW t, Typed(t), NEW b \in D!Maybe(D!Buffers) PROVE Alike(t, D!SharedBufferDecRef(t, b))
<1>1. CASE b = NULL
  BY <1>1 DEF D!SharedBufferDecRef, Alike
<1>2. CASE b \in D!Buffers
  BY <1>2, DecRefIs DEF Alike
<1> QED BY <1>1, <1>2, NullIs

LEMMA IncRefAlike ==
    ASSUME NEW t, Typed(t), NEW b \in D!Maybe(D!Buffers) PROVE Alike(t, D!SharedBufferIncRef(t, b))
<1>1. CASE b = NULL
  BY <1>1 DEF D!SharedBufferIncRef, Alike
<1>2. CASE b \in D!Buffers
  BY <1>2, IncRefIs DEF Alike
<1> QED BY <1>1, <1>2, NullIs

\* The state with another service.
LEMMA ServiceOf ==
    ASSUME NEW t, Typed(t), NEW v \in ServiceType
    PROVE  LET u == [t EXCEPT !.service = v]
           IN  /\ Typed(u) /\ u.service = v /\ u.sends = t.sends /\ u.sendQ = t.sendQ /\ u.rx = t.rx
               /\ u.requests = t.requests /\ u.signalled = t.signalled
<1> DEFINE u == [t EXCEPT !.service = v]
<1>1. /\ u \in StateType /\ u.service = v /\ u.sends = t.sends /\ u.sendQ = t.sendQ /\ u.rx = t.rx
      /\ u.requests = t.requests /\ u.signalled = t.signalled
  BY WithService
<1> HIDE DEF u
<1>2. Typed(u)
  BY <1>1 DEF Typed
<1> QED BY <1>1, <1>2 DEF u

\* The number of sends that refer to the publication.
LEMMA PubRefsIs == ASSUME NEW t, Typed(t) PROVE D!PubRefs(t) = 0 <=> OnlyAcks(t)
<1> DEFINE S == {x \in t.sends : x.kind # "ack"}
<1>1. S \in SUBSET t.sends /\ IsFiniteSet(t.sends)
  BY DEF Typed
<1>2. IsFiniteSet(S)
  BY <1>1, FS_Subset
<1>3. S = {} <=> OnlyAcks(t)
  BY DEF OnlyAcks
<1>4. D!PubRefs(t) = Cardinality(S)
  BY SameCardinality DEF D!PubRefs
<1> HIDE DEF S
<1>5. Cardinality(S) = 0 <=> S = {}
  BY <1>2, FS_EmptySet
<1> QED BY <1>3, <1>4, <1>5

\* DPS_DestroyPublication
LEMMA FreePubDoes ==
    ASSUME NEW t, Typed(t)
    PROVE  LET u == D!FreePub(t)
           IN  /\ Typed(u) /\ u.sends = t.sends /\ u.rx = t.rx /\ u.requests = t.requests
               /\ t.signalled \subseteq u.signalled
               /\ u.service.st = t.service.st /\ u.service.destroyed = t.service.destroyed
               /\ u.service.timer = t.service.timer /\ u.service.sub = t.service.sub
               /\ u.service.destroying = t.service.destroying /\ u.service.pub = "destroyed"
               /\ u.service.refused = t.service.refused
               /\ u.sendQ = t.sendQ \/ u.sendQ = <<>>
               /\ OnlyAcks(t) => u.sendQ = <<>>
<1> DEFINE v == [t.service EXCEPT !.pub = "destroyed"]
           g == Freed(t)
           e == Emptied(t)
           w == F!Fold(e, t.sendQ)
<1>1. t.service \in ServiceType /\ t.sendQ \in Seq(Message)
  BY Parts
<1>2. /\ v \in ServiceType /\ v.st = t.service.st /\ v.destroyed = t.service.destroyed
      /\ v.timer = t.service.timer /\ v.sub = t.service.sub
      /\ v.destroying = t.service.destroying /\ v.pub = "destroyed" /\ v.refused = t.service.refused
  BY <1>1 DEF ServiceType
<1>3. g = [t EXCEPT !.service = v]
  BY DEF Freed
<1> HIDE DEF v, g
<1>4. /\ Typed(g) /\ g.service = v /\ g.sends = t.sends /\ g.sendQ = t.sendQ /\ g.rx = t.rx
      /\ g.requests = t.requests /\ g.signalled = t.signalled
  BY <1>2, <1>3, ServiceOf
<1>5. /\ Typed(e) /\ e.service = v /\ e.sends = t.sends /\ e.sendQ = <<>> /\ e.rx = t.rx
      /\ e.requests = t.requests /\ e.signalled = t.signalled
  <2>1. <<>> \in Seq(Message) /\ e = [g EXCEPT !.sendQ = <<>>]
    BY DEF Emptied, g
  <2> HIDE DEF e
  <2> QED BY <1>4, <2>1 DEF Typed, StateType
<1> HIDE DEF e
<1>6. Alike(e, w)
  <2> DEFINE S == {u \in StateType : Alike(e, u)}
  <2>1. e \in S
    BY <1>5 DEF Alike, Typed
  <2>2. ASSUME NEW s \in S, NEW x \in Message PROVE Dropped(s, x) \in S
    <3>1. x.buf \in D!Maybe(D!Buffers) /\ Typed(s) /\ Alike(e, s)
      BY DEF Message, Alike
    <3>2. Alike(s, Dropped(s, x))
      BY <3>1, DecRefAlike DEF Dropped
    <3> QED BY <3>1, <3>2 DEF Alike, Typed
  <2> HIDE DEF S
  <2>3. w \in S
    BY <1>1, <2>1, <2>2, F!FoldStays
  <2> QED BY <2>3 DEF S
<1> HIDE DEF w
<1>7. LET u == D!Signal(w, "free")
      IN  /\ Typed(u) /\ u.service = v /\ u.sends = t.sends /\ u.sendQ = <<>> /\ u.rx = t.rx
          /\ u.requests = t.requests /\ t.signalled \subseteq u.signalled
  <2>1. Typed(w)
    BY <1>6 DEF Alike
  <2> QED BY <1>5, <1>6, <2>1, SignalIs DEF Alike
<1>8. D!FreePub(t) = IF D!PubRefs(g) # 0 THEN g ELSE D!Signal(w, "free")
  BY FreePubIs DEF g, w, e
<1>9. OnlyAcks(t) => D!PubRefs(g) = 0
  <2>1. OnlyAcks(g) <=> OnlyAcks(t)
    BY <1>4 DEF OnlyAcks
  <2> QED BY <1>4, <2>1, PubRefsIs
<1>10. CASE D!PubRefs(g) # 0
  BY <1>2, <1>4, <1>8, <1>9, <1>10
<1>11. CASE D!PubRefs(g) = 0
  BY <1>2, <1>7, <1>8, <1>11
<1> QED BY <1>10, <1>11

\* Forget
LEMMA ForgetDoes ==
    ASSUME NEW t, Typed(t)
    PROVE  LET u == D!Forget(t)
           IN  /\ Typed(u) /\ u.sends = t.sends /\ u.sendQ = t.sendQ /\ u.requests = t.requests
               /\ u.signalled = t.signalled /\ Forgotten(u)
               /\ u.service.st = "freed" /\ u.service.destroyed = t.service.destroyed + 1
               /\ u.service.timer = t.service.timer /\ u.service.sub = t.service.sub
               /\ u.service.pub = t.service.pub /\ u.service.destroying = t.service.destroying
               /\ u.service.refused = t.service.refused
<1> DEFINE u == D!SharedBufferDecRef(t, t.service.payload)
           v == GoneService(u.service)
           r == [m \in Discovered |-> Cut(u.rx[m])]
           w == D!Forget(t)
<1>1. Alike(t, u)
  <2>1. t.service.payload \in D!Maybe(D!Buffers)
    BY Parts, ServiceIs
  <2> QED BY <2>1, DecRefAlike
<1>2. w = [u EXCEPT !.service.st = "freed", !.service.destroyed = u.service.destroyed + 1,
                    !.service.payload = NULL, !.rx = r]
  BY Zenon DEF D!Forget, r, Cut
<1>3. u.service \in ServiceType /\ u \in StateType /\ u.rx \in RxType
  BY <1>1, Parts DEF Alike, Typed
<1>4. Typed(w)
  BY ForgetKeeps, KeptTyped
<1>5. \A m \in Discovered : ~r[m].ackSvc /\ ~r[m].linkSvc
  <2>1. ASSUME NEW m \in Discovered PROVE u.rx[m] \in RxEntry /\ r[m] = Cut(u.rx[m])
    BY <1>3 DEF RxType
  <2> HIDE DEF r, u
  <2> QED BY <2>1, CutIs
<1> HIDE DEF u, w, r
<1>6. /\ w.sends = u.sends /\ w.sendQ = u.sendQ /\ w.service = v /\ w.requests = u.requests
      /\ w.signalled = u.signalled /\ w.rx = r
  BY <1>2, <1>3 DEF GoneService, StateType
<1>7. /\ v.st = "freed" /\ v.destroyed = u.service.destroyed + 1 /\ v.timer = u.service.timer
      /\ v.sub = u.service.sub /\ v.pub = u.service.pub /\ v.destroying = u.service.destroying
      /\ v.refused = u.service.refused
  BY <1>3, GoneServiceIs
<1> HIDE DEF v
<1>8. Forgotten(w)
  BY <1>5, <1>6 DEF Forgotten
<1> QED BY <1>1, <1>4, <1>6, <1>7, <1>8 DEF Alike, w

\* Destroy takes one thing apart, and leaves a service that is ending or gone; what is queued
\* for its publication goes with it.
LEMMA DestroyDoes ==
    ASSUME NEW t, Typed(t), Ending(t)
    PROVE  LET u == D!Destroy(t)
           IN  /\ Typed(u) /\ u.sends = t.sends /\ u.requests = t.requests
               /\ t.signalled \subseteq u.signalled
               /\ (u.sendQ = t.sendQ) \/ (u.sendQ = <<>>)
               /\ Underway(u)
               /\ u.service.destroying = t.service.destroying /\ u.service.refused = t.service.refused
               /\ Up(t.service) => /\ u.sendQ = t.sendQ /\ u.rx = t.rx
                                   /\ u.service.st = "live" /\ u.service.pub = "listed"
<1> DEFINE v == [t.service EXCEPT !.timer = "closing"]
           s == [t.service EXCEPT !.sub = "destroyed"]
           d == [t EXCEPT !.service = s]
           f == D!FreePub(t)
           g == D!Forget(t)
<1>1. t.service \in ServiceType
  BY Parts
<1>2. CASE t.service.timer # "none"
  <2>1. /\ v \in ServiceType /\ v.destroying = t.service.destroying /\ v.refused = t.service.refused
        /\ v.st = t.service.st /\ v.destroyed = t.service.destroyed /\ v.pub = t.service.pub
        /\ v.sub = t.service.sub
    BY <1>1 DEF ServiceType
  <2>2. D!Destroy(t) = [t EXCEPT !.service = v]
    BY <1>2 DEF D!Destroy
  <2> DEFINE w == [t EXCEPT !.service = v]
  <2> HIDE DEF v
  <2>3. /\ Typed(w) /\ w.service = v /\ w.sends = t.sends /\ w.sendQ = t.sendQ /\ w.rx = t.rx
        /\ w.requests = t.requests /\ w.signalled = t.signalled
    BY <2>1, ServiceOf
  <2> HIDE DEF w
  <2>4. Ending(w)
    BY <2>1, <2>3 DEF Ending, OnlyAcks
  <2>5. D!Destroy(t) = w
    BY <2>2 DEF w
  <2> QED BY <2>1, <2>3, <2>4, <2>5 DEF Underway, Up, Ending
<1>3. CASE t.service.timer = "none" /\ t.service.sub = "listed"
  <2>1. /\ s \in ServiceType /\ s.destroying = t.service.destroying /\ s.refused = t.service.refused
        /\ s.st = t.service.st /\ s.destroyed = t.service.destroyed /\ s.pub = t.service.pub
    BY <1>1 DEF ServiceType
  <2>2. D!Destroy(t) = D!Signal(d, "free")
    BY <1>3 DEF D!Destroy
  <2>3. t.service.pub = "listed" /\ t.service.st = "live" /\ t.service.destroyed = 0
    BY <1>1, <1>3 DEF Ending
  <2> HIDE DEF s
  <2>4. /\ Typed(d) /\ d.service = s /\ d.sends = t.sends /\ d.sendQ = t.sendQ /\ d.rx = t.rx
        /\ d.requests = t.requests /\ d.signalled = t.signalled
    BY <2>1, ServiceOf
  <2> HIDE DEF d
  <2> DEFINE w == D!Signal(d, "free")
  <2>5. /\ Typed(w) /\ w.service = s /\ w.sends = t.sends /\ w.sendQ = t.sendQ /\ w.rx = t.rx
        /\ w.requests = t.requests /\ t.signalled \subseteq w.signalled
    BY <2>4, SignalIs
  <2> HIDE DEF w
  <2>6. Ending(w)
    BY <2>1, <2>3, <2>5 DEF Ending
  <2>7. D!Destroy(t) = w
    BY <2>2 DEF w
  <2> QED BY <2>1, <2>3, <2>5, <2>6, <2>7 DEF Underway
<1>4. CASE t.service.timer = "none" /\ t.service.sub \in {"created", "destroyed"}
  <2>1. D!Destroy(t) = t
    BY <1>4 DEF D!Destroy
  <2> QED BY <2>1 DEF Underway, Up
<1>5. CASE t.service.timer = "none" /\ t.service.sub = "gone" /\ t.service.pub # "gone"
  <2>1. D!Destroy(t) = f
    BY <1>5 DEF D!Destroy
  <2>2. /\ Typed(f) /\ f.sends = t.sends /\ f.requests = t.requests /\ t.signalled \subseteq f.signalled
        /\ f.service.st = t.service.st /\ f.service.destroyed = t.service.destroyed
        /\ f.service.sub = t.service.sub /\ f.service.destroying = t.service.destroying
        /\ f.service.pub = "destroyed" /\ f.service.refused = t.service.refused
        /\ (f.sendQ = t.sendQ) \/ (f.sendQ = <<>>)
        /\ OnlyAcks(t) => f.sendQ = <<>>
    BY FreePubDoes
  <2> HIDE DEF f
  <2>3. Ending(f)
    BY <1>5, <2>2 DEF Ending, OnlyAcks
  <2> QED BY <1>5, <2>1, <2>2, <2>3 DEF Underway, Up
<1>6. CASE t.service.timer = "none" /\ t.service.sub = "gone" /\ t.service.pub = "gone"
  <2>1. D!Destroy(t) = g
    BY <1>6 DEF D!Destroy
  <2>2. /\ Typed(g) /\ g.sends = t.sends /\ g.sendQ = t.sendQ /\ g.requests = t.requests
        /\ g.signalled = t.signalled /\ Forgotten(g)
        /\ g.service.st = "freed" /\ g.service.destroyed = t.service.destroyed + 1
        /\ g.service.timer = t.service.timer /\ g.service.sub = t.service.sub
        /\ g.service.pub = t.service.pub /\ g.service.destroying = t.service.destroying
        /\ g.service.refused = t.service.refused
    BY ForgetDoes
  <2> HIDE DEF g
  <2>3. Gone(g.service) /\ OnlyAcks(g) /\ g.sendQ = <<>>
    BY <1>6, <2>2 DEF Ending, OnlyAcks, Gone
  <2> QED BY <1>6, <2>1, <2>2, <2>3 DEF Underway, Up
<1> QED BY <1>1, <1>2, <1>3, <1>4, <1>5, <1>6 DEF ServiceType

LEMMA FewerGoodbyes ==
    ASSUME NEW t, NEW u, u.sends \subseteq t.sends, (u.sendQ = t.sendQ) \/ (u.sendQ = <<>>)
    PROVE  Goodbyes(u) \subseteq Goodbyes(t) /\ (Sends(u, "goodbye") => Sends(t, "goodbye"))
<1>1. D!ToSet(<<>>) = {}
  BY DEF D!ToSet
<1>2. Pool(u, {}) \subseteq Pool(t, {})
  BY <1>1 DEF Pool
<1> QED BY <1>2 DEF Goodbyes, Sends

\* A step of Destroy leaves the destruction begun.
LEMMA DestroyUndoes ==
    ASSUME NEW t, Typed(t), Ending(t), t.service.destroying, Goodbyes(t) = {}, NEW rs, NEW j,
           ~Asks(rs, j, "destroy"), Asks(rs, j, "start") => t.service.refused
    PROVE  LET u == D!Destroy(t)
           IN  /\ Typed(u) /\ Undone(u, rs, j) /\ u.sends = t.sends /\ u.requests = t.requests
               /\ t.signalled \subseteq u.signalled /\ u.service.destroying = t.service.destroying
<1> DEFINE u == D!Destroy(t)
<1>1. /\ Typed(u) /\ u.sends = t.sends /\ u.requests = t.requests
      /\ t.signalled \subseteq u.signalled
      /\ (u.sendQ = t.sendQ) \/ (u.sendQ = <<>>)
      /\ Underway(u)
      /\ u.service.destroying = t.service.destroying /\ u.service.refused = t.service.refused
  BY DestroyDoes
<1> HIDE DEF u
<1>2. Goodbyes(u) = {}
  BY <1>1, FewerGoodbyes
<1>3. Undone(u, rs, j)
  BY <1>1, <1>2 DEF Undone
<1> QED BY <1>1, <1>3 DEF u

\* A service that was not taken apart can be.
LEMMA UpEnding == ASSUME NEW t, Up(t.service) PROVE Ending(t)
BY DEF Up, Ending

--------------------------------------------------------------------------------
(* The steps of the event loop keep the stages in order. *)

LEMMA StageStates ==
    ASSUME ToldInv, StageInv
    PROVE  /\ Typed(D!State) /\ Stage(D!State, drequests, 0) /\ drequests \in Seq(Request)
           /\ Asks(drequests, 0, "start") => "request" \in dsignalled
           /\ Sends(D!State, "goodbye") /\ Asks(drequests, 0, "start") => dpass # 0
           /\ D!State.service = dservice /\ D!State.sends = dsends /\ D!State.sendQ = dsendQ
           /\ D!State.rx = drx /\ D!State.requests = drequests /\ D!State.signalled = dsignalled
<1>1. /\ D!State.service = dservice /\ D!State.sends = dsends /\ D!State.sendQ = dsendQ
      /\ D!State.rx = drx /\ D!State.requests = drequests /\ D!State.signalled = dsignalled
  BY DEF D!State
<1>2. Typed(D!State)
  BY StateTyped
<1>3. drequests \in Seq(Request)
  BY <1>1, <1>2, Parts
<1> QED BY <1>1, <1>2, <1>3 DEF StageInv, Staged, Late

LEMMA StageTold ==
    ASSUME NEW t, Typed(t), D!Becomes(t), Staged(t), t.service.destroying = dservice.destroying
    PROVE  Staged(D!State') /\ dservice'.destroying = dservice.destroying
<1>1. D!State' = t
  BY StateIs
<1>2. dservice' = t.service
  BY DEF D!Becomes
<1> QED BY <1>1, <1>2

\* Messages that are sent, or refused and given up.
LEMMA SendPubsStage ==
    ASSUME ToldInv, BooksInv, StageInv, D!SendPubs
    PROVE  Staged(D!State') /\ dservice'.destroying = dservice.destroying
<1> DEFINE q == dsendQ
           t == D!State
<1>1. /\ Typed(t) /\ q \in Seq(Message) /\ Len(q) \in Nat /\ DOMAIN q = 1 .. Len(q)
      /\ D!ToSet(q) \in SUBSET Message /\ \A i \in DOMAIN q : q[i] \in D!ToSet(q) /\ q[i] \in Message
  <2>1. Typed(t)
    BY StateTyped
  <2>2. q \in Seq(Message)
    BY <2>1, Parts DEF D!State
  <2> QED BY <2>1, <2>2, QueueSet
<1>2. PICK refused \in SUBSET DOMAIN dsendQ :
        /\ \A i \in refused : dsendQ[i].kind \in Refusable
        /\ D!Becomes(M!Fold(Taken, Outgoing(dsendQ, refused)))
  BY SendPubsIs
<1> DEFINE o == Outgoing(q, refused)
           w == M!Fold(Taken, o)
<1>3. /\ o \in Seq([msg : Message, refused : BOOLEAN]) /\ Len(o) = Len(q)
      /\ \A i \in DOMAIN q : o[i].msg = q[i]
  <2>1. /\ o \in Seq([msg : Message, refused : BOOLEAN]) /\ Len(o) = Len(q)
        /\ \A i \in DOMAIN q : o[i].msg = q[i] /\ o[i].refused = (i \in refused)
    BY <1>1, OutgoingType, Zenon
  <2> QED BY <2>1, Zenon
<1>4. /\ Stage(t, drequests, 0) /\ t.service = dservice /\ t.sends = dsends /\ t.sendQ = q /\ t.rx = drx
      /\ dservice \in ServiceType
  BY StageStates, Parts
\* A message is queued once, and was not sent.
<1>d. /\ \A i, j \in DOMAIN q : i # j => q[i] # q[j]
      /\ \A i \in DOMAIN q : q[i] \notin dsends
  <2>1. Apart(t, {})
    BY DEF BooksInv, Books
  <2> QED BY <1>1, <1>4, <2>1 DEF Apart
<1> HIDE DEF o
<1>5. PICK f : /\ f[0] = Taken
               /\ \A k \in Nat : k < Len(o) => f[k + 1] = D!Multicast(f[k], o[k + 1])
               /\ w = f[Len(o)]
  BY <1>3, M!FoldTurns
\* No goodbye was refused so far, or one was and no other is queued.
<1> DEFINE Kept1(k, v) == /\ Stands(dservice, v.service)
                          /\ \A i \in DOMAIN q : i <= k /\ q[i].kind = "goodbye" => q[i] \in v.sends
           Turned(k, v) == /\ Leaving(t, drequests, 0) /\ Ending(v) /\ v.service.pub = "listed"
                           /\ v.service.destroying = dservice.destroying /\ v.service.refused
                           /\ \A i \in DOMAIN q : i > k => q[i].kind # "goodbye"
                           /\ \A x \in v.sends : x.kind # "goodbye"
           OK(k, v) ==
             /\ Typed(v) /\ v.rx = drx /\ v.requests = drequests /\ v.sendQ = <<>>
             /\ dsignalled \ {"pubs"} \subseteq v.signalled
             /\ dsends \subseteq v.sends
             /\ \A x \in v.sends : x \in dsends \/ \E i \in DOMAIN q : i <= k /\ x = q[i]
             /\ Kept1(k, v) \/ Turned(k, v)
           T == {k \in Nat : k <= Len(q) => OK(k, f[k])}
<1>6. 0 \in T
  <2>1. /\ Typed(Taken) /\ Taken.sendQ = <<>> /\ Taken.sends = dsends /\ Taken.service = dservice
        /\ Taken.rx = drx /\ Taken.requests = drequests /\ dsignalled \ {"pubs"} \subseteq Taken.signalled
    BY TakenIs DEF Taken, D!State
  <2>2. OK(0, Taken)
    BY <1>1, <2>1 DEF Stands
  <2> QED BY <1>5, <2>2
<1>7. ASSUME NEW k \in Nat, k \in T PROVE k + 1 \in T
  <2> SUFFICES ASSUME k + 1 <= Len(q) PROVE OK(k + 1, f[k + 1])
    OBVIOUS
  <2> DEFINE v == f[k]
             x == q[k + 1]
             r == o[k + 1]
             z == f[k + 1]
  <2> SUFFICES OK(k + 1, z)
    OBVIOUS
  <2>1. k < Len(q) /\ k + 1 \in DOMAIN q /\ k <= Len(q)
    BY <1>1
  <2>2. OK(k, v)
    BY <1>7, <2>1
  <2>3. z = D!Multicast(v, r) /\ r.msg = x
    BY <1>3, <1>5, <2>1
  <2>4. x \in Message /\ x \in D!ToSet(q) /\ x.buf \in D!Maybe(D!Buffers)
    BY <1>1, <2>1 DEF Message
  <2>5. /\ \A i \in DOMAIN q : i <= k + 1 => i <= k \/ q[i] = x
        /\ \A i \in DOMAIN q : i <= k => i <= k + 1
        /\ \A i \in DOMAIN q : i > k + 1 => i > k
        /\ x \notin dsends /\ \A i \in DOMAIN q : i <= k => q[i] # x
        /\ \A i \in DOMAIN q : i > k + 1 => q[i] # x
        /\ k + 1 <= k + 1 /\ k + 1 > k
    BY <1>1, <1>d, <2>1
  <2>6. \A y \in v.sends : y \in dsends \/ \E i \in DOMAIN q : i <= k + 1 /\ y = q[i]
    BY <2>2, <2>5
  <2> HIDE DEF x, r, v, z
  <2>7. CASE r.refused
    <3> DEFINE n == Noted(v, x)
    <3>1. /\ Typed(n) /\ n.service \in ServiceType
          /\ n.service = [v.service EXCEPT !.refused = @ \/ x.kind = "goodbye"]
          /\ n = [v EXCEPT !.service = [v.service EXCEPT !.refused = @ \/ x.kind = "goodbye"]]
      BY <2>2, <2>4, NotedIs
    <3>2. z = D!Published(n, x)
      BY <2>3, <2>7 DEF D!Multicast, D!Refuse, Noted
    <3> HIDE DEF n
    <3>3. v.service \in ServiceType /\ v \in StateType
      BY <2>2, Parts DEF Typed
    <3>4. /\ n.sends = v.sends /\ n.sendQ = v.sendQ /\ n.rx = v.rx /\ n.requests = v.requests
          /\ n.signalled = v.signalled
      BY <3>1, <3>3 DEF StateType
    <3>5. /\ n.service.st = v.service.st /\ n.service.destroyed = v.service.destroyed
          /\ n.service.pub = v.service.pub /\ n.service.timer = v.service.timer
          /\ n.service.sub = v.service.sub /\ n.service.destroying = v.service.destroying
          /\ n.service.refused = (v.service.refused \/ x.kind = "goodbye")
          /\ v.service.refused \in BOOLEAN
      BY <3>1, <3>3 DEF ServiceType
    <3>6. CASE x.kind = "goodbye"
      <4>1. Kept1(k, v)
        BY <2>1, <2>2, <2>5, <3>6 DEF x
      <4>2. x \in Goodbyes(t)
        BY <1>4, <2>4, <3>6 DEF Goodbyes, Pool
      <4>3. Leaving(t, drequests, 0)
        BY <1>4, <4>2 DEF Stage, Before, Requested, Undone
      <4>4. \A y \in Pool(t, {}) : y.kind = "goodbye" => y = x
        <5>1. PICK y : Goodbyes(t) = {y}
          BY <4>3 DEF Leaving
        <5> QED BY <4>2, <5>1 DEF Goodbyes
      <4>5. \A i \in DOMAIN q : i > k + 1 => q[i].kind # "goodbye"
        BY <1>1, <1>4, <2>5, <4>4 DEF Pool
      <4>6. \A y \in v.sends : y.kind # "goodbye"
        <5>1. \A y \in v.sends : y \in Pool(t, {}) /\ y # x
          BY <1>1, <1>4, <2>2, <2>5 DEF Pool
        <5> QED BY <4>4, <5>1
      <4>7. Up(n.service)
        BY <1>4, <3>5, <4>1, <4>3 DEF Leaving, Up, Stands
      <4>8. z = D!Destroy(n)
        BY <3>2, <3>6 DEF D!Published
      <4>9. /\ Typed(z) /\ z.sends = n.sends /\ z.requests = n.requests /\ n.signalled \subseteq z.signalled
            /\ Underway(z) /\ z.service.destroying = n.service.destroying /\ z.service.refused = n.service.refused
            /\ z.sendQ = n.sendQ /\ z.rx = n.rx /\ z.service.st = "live" /\ z.service.pub = "listed"
        BY <3>1, <4>7, <4>8, UpEnding, DestroyDoes
      <4>10. Ending(z)
        BY <4>9 DEF Underway, Gone
      <4>11. z.service.destroying = dservice.destroying /\ z.service.refused
        BY <3>5, <3>6, <4>1, <4>9 DEF Stands
      <4>12. Turned(k + 1, z)
        BY <3>4, <4>3, <4>5, <4>6, <4>9, <4>10, <4>11
      <4> HIDE DEF q, t, Kept1, Turned
      <4> QED BY <2>2, <2>6, <3>4, <4>9, <4>12
    <3>7. CASE x.kind # "goodbye"
      <4>1. n.service.refused = v.service.refused
        BY <3>5, <3>7
      <4>2. z = D!SharedBufferDecRef(n, x.buf)
        BY <3>2, <3>7 DEF D!Published
      <4>3. Alike(n, z)
        BY <2>4, <3>1, <4>2, DecRefAlike
      <4>4. /\ Typed(z) /\ z.service = n.service /\ z.sends = v.sends /\ z.sendQ = v.sendQ /\ z.rx = v.rx
            /\ z.requests = v.requests /\ z.signalled = v.signalled
        BY <3>4, <4>3 DEF Alike
      <4>5. Kept1(k, v) => Kept1(k + 1, z)
        BY <2>5, <3>5, <3>7, <4>1, <4>4 DEF Stands
      <4>6. Turned(k, v) => Turned(k + 1, z)
        <5>1. Ending(v) => Ending(z)
          BY <3>5, <4>4 DEF Ending, OnlyAcks
        <5> QED BY <2>5, <3>5, <4>1, <4>4, <5>1
      <4> HIDE DEF q, t, Kept1, Turned
      <4> QED BY <2>2, <2>6, <4>4, <4>5, <4>6
    <3> QED BY <3>6, <3>7
  <2>8. CASE ~r.refused
    <3> DEFINE S == v.sends \cup {x}
               u == [v EXCEPT !.sends = S]
    <3>1. v.sends \in SUBSET Message /\ IsFiniteSet(v.sends)
      BY <2>2, Parts
    <3>2. S \in SUBSET Message /\ IsFiniteSet(S)
      BY <2>4, <3>1, FS_AddElement
    <3>3. z = u
      BY <2>3, <2>8 DEF D!Multicast
    <3> HIDE DEF S
    <3>4. /\ Typed(u) /\ u.service = v.service /\ u.rx = v.rx /\ u.requests = v.requests
          /\ u.sendQ = v.sendQ /\ u.signalled = v.signalled /\ u.sends = S
      BY <2>2, <3>2 DEF Typed, StateType
    <3> HIDE DEF u
    <3>5. \A y \in u.sends : y \in dsends \/ \E i \in DOMAIN q : i <= k + 1 /\ y = q[i]
      BY <2>1, <2>5, <2>6, <3>4 DEF S, x
    <3>6. Kept1(k, v) => Kept1(k + 1, u)
      BY <2>5, <3>4 DEF S
    <3>7. Turned(k, v) => Turned(k + 1, u)
      <4>1. Ending(v) /\ v.service.pub = "listed" => Ending(u)
        BY <3>4 DEF Ending
      <4>2. Turned(k, v) => x.kind # "goodbye"
        BY <2>1, <2>5 DEF x
      <4> QED BY <2>5, <3>4, <4>1, <4>2 DEF S
    <3>8. dsends \subseteq u.sends
      BY <2>2, <3>4 DEF S
    <3> HIDE DEF q, t, Kept1, Turned
    <3> QED BY <2>2, <3>3, <3>4, <3>5, <3>6, <3>7, <3>8
  <2> QED BY <2>7, <2>8
<1> HIDE DEF T
<1>8. Nat \subseteq T
  BY <1>6, <1>7, M!Induct
<1>9. OK(Len(q), w)
  <2> DEFINE n == Len(q)
  <2>1. n \in T /\ n \in Nat /\ n <= n
    BY <1>1, <1>8
  <2> HIDE DEF n
  <2>2. OK(n, f[n])
    BY <2>1 DEF T, n
  <2>3. w = f[n]
    BY <1>3, <1>5 DEF n
  <2> HIDE DEF OK, w
  <2>4. OK(n, w)
    BY <2>2, <2>3
  <2> QED BY <2>4 DEF n
<1>10. D!Becomes(w)
  BY <1>2 DEF w, o
<1> HIDE DEF w
<1>11. D!ToSet(<<>>) = {} /\ (\A i \in DOMAIN q : i <= Len(q)) /\ \A x \in D!ToSet(q) : \E i \in DOMAIN q : x = q[i]
  <2>1. \A i \in DOMAIN q : i <= Len(q)
    BY <1>1
  <2> QED BY <1>1, <2>1, QueueSet DEF D!ToSet
<1>12. ASSUME Kept1(Len(q), w)
       PROVE  Stage(w, drequests, 0) /\ w.service.destroying = dservice.destroying
  <2>1. Goodbyes(w) = Goodbyes(t)
    <3>1. \A x \in D!ToSet(q) : x.kind = "goodbye" => x \in w.sends
      BY <1>11, <1>12
    <3>2. w.sends \subseteq dsends \cup D!ToSet(q)
      BY <1>1, <1>9
    <3> QED BY <1>4, <1>9, <1>11, <3>1, <3>2 DEF Goodbyes, Pool
  <2>2. Stands(t.service, w.service)
    BY <1>4, <1>12
  <2>3. OnlyAcks(w) => OnlyAcks(t)
    BY <1>4, <1>9 DEF OnlyAcks
  <2>4. t.sendQ = <<>> /\ OnlyAcks(t) => OnlyAcks(w) /\ w.sendQ = <<>>
    <3>1. t.sendQ = <<>> => \A i \in DOMAIN q : FALSE
      BY <1>4
    <3> QED BY <1>4, <1>9, <3>1 DEF OnlyAcks
  <2>5. w.sendQ = <<>> /\ (Forgotten(t) => Forgotten(w))
    BY <1>4, <1>9 DEF Forgotten
  <2>6. Stage(w, drequests, 0)
    <3> HIDE DEF t, q, OK, Kept1, Turned
    <3> QED BY <1>4, <2>1, <2>2, <2>3, <2>4, <2>5, StageMoves
  <2>7. w.service.destroying = dservice.destroying
    BY <1>12 DEF Stands
  <2> QED BY <2>6, <2>7
<1>13. ASSUME Turned(Len(q), w)
       PROVE  Stage(w, drequests, 0) /\ w.service.destroying = dservice.destroying
  <2>1. Goodbyes(w) = {}
    BY <1>9, <1>11, <1>13 DEF Goodbyes, Pool
  <2>2. dservice.destroying /\ ~Asks(drequests, 0, "destroy")
    BY <1>4, <1>13 DEF Leaving
  <2>3. Undone(w, drequests, 0)
    BY <1>13, <2>1, <2>2 DEF Undone, Underway
  <2> QED BY <1>13, <2>3 DEF Stage
<1>14. Stage(w, drequests, 0) /\ w.service.destroying = dservice.destroying
  BY <1>9, <1>12, <1>13
<1>15. Asks(drequests, 0, "start") => "request" \in dsignalled \ {"pubs"}
  BY StageStates
<1>16. Staged(w) /\ Typed(w)
  BY <1>9, <1>14, <1>15 DEF Staged
<1> QED BY <1>10, <1>14, <1>16, StageTold

\* OnSubDestroyed and OnPubDestroyed, which go on with the destruction.
LEMMA FreeSubsStage ==
    ASSUME NEW t, Typed(t), NEW rs, NEW j, Stage(t, rs, j)
    PROVE  LET u == D!FreeSubs(t)
           IN  /\ Typed(u) /\ Stage(u, rs, j) /\ u.requests = t.requests
               /\ t.signalled \subseteq u.signalled /\ u.service.destroying = t.service.destroying
<1>1. CASE ~(t.service.sub = "destroyed")
  <2>1. D!FreeSubs(t) = t
    BY <1>1 DEF D!FreeSubs
  <2> QED BY <2>1
<1>2. CASE t.service.sub = "destroyed"
  <2> DEFINE v == [t.service EXCEPT !.sub = "gone"]
             d == [t EXCEPT !.service = v]
             u == D!Destroy(d)
  <2>1. t.service \in ServiceType
    BY Parts
  <2>2. Undone(t, rs, j) /\ Ending(t)
    BY <1>2 DEF Stage, Before, Leaving, Requested, Undone, Underway, Up, Gone
  <2>3. /\ v \in ServiceType /\ v.st = t.service.st /\ v.destroyed = t.service.destroyed
        /\ v.destroying = t.service.destroying /\ v.refused = t.service.refused
        /\ v.sub = "gone" /\ v.pub = t.service.pub
    BY <2>1 DEF ServiceType
  <2>4. D!FreeSubs(t) = u
    BY <1>2 DEF D!FreeSubs
  <2> HIDE DEF v
  <2>5. /\ Typed(d) /\ d.service = v /\ d.sends = t.sends /\ d.sendQ = t.sendQ
        /\ d.requests = t.requests /\ d.signalled = t.signalled
    BY <2>3, ServiceOf
  <2> HIDE DEF d
  <2>6. Ending(d)
    BY <1>2, <2>2, <2>3, <2>5 DEF Ending, OnlyAcks
  <2>7. Goodbyes(d) = {} /\ d.service.destroying /\ ~Asks(rs, j, "destroy")
        /\ (Asks(rs, j, "start") => d.service.refused)
    BY <2>2, <2>3, <2>5 DEF Undone, Goodbyes, Pool
  <2>8. /\ Typed(u) /\ Undone(u, rs, j) /\ u.requests = d.requests
        /\ d.signalled \subseteq u.signalled /\ u.service.destroying = d.service.destroying
    BY <2>5, <2>6, <2>7, DestroyUndoes
  <2> HIDE DEF u
  <2> QED BY <2>3, <2>4, <2>5, <2>8 DEF Stage
<1> QED BY <1>1, <1>2

LEMMA FreePubsStage ==
    ASSUME NEW t, Typed(t), NEW rs, NEW j, Stage(t, rs, j)
    PROVE  LET u == D!FreePubs(t)
           IN  /\ Typed(u) /\ Stage(u, rs, j) /\ u.requests = t.requests
               /\ t.signalled \subseteq u.signalled /\ u.service.destroying = t.service.destroying
<1>1. CASE ~(t.service.pub = "destroyed" /\ OnlyAcks(t))
  <2>1. D!FreePubs(t) = t
    BY <1>1, PubRefsIs DEF D!FreePubs
  <2> QED BY <2>1
<1>2. CASE t.service.pub = "destroyed" /\ OnlyAcks(t)
  <2> DEFINE v == [t.service EXCEPT !.pub = "gone"]
             d == [t EXCEPT !.service = v]
             u == D!Destroy(d)
  <2>1. t.service \in ServiceType
    BY Parts
  <2>2. Undone(t, rs, j) /\ Ending(t)
    BY <1>2 DEF Stage, Before, Leaving, Requested, Undone, Underway, Up, Gone
  <2>3. /\ v \in ServiceType /\ v.st = t.service.st /\ v.destroyed = t.service.destroyed
        /\ v.destroying = t.service.destroying /\ v.refused = t.service.refused
        /\ v.pub = "gone" /\ v.sub = t.service.sub
    BY <2>1 DEF ServiceType
  <2>4. D!FreePubs(t) = u
    BY <1>2, PubRefsIs DEF D!FreePubs
  <2> HIDE DEF v
  <2>5. /\ Typed(d) /\ d.service = v /\ d.sends = t.sends /\ d.sendQ = t.sendQ
        /\ d.requests = t.requests /\ d.signalled = t.signalled
    BY <2>3, ServiceOf
  <2> HIDE DEF d
  <2>6. Ending(d)
    BY <1>2, <2>2, <2>3, <2>5 DEF Ending, OnlyAcks
  <2>7. Goodbyes(d) = {} /\ d.service.destroying /\ ~Asks(rs, j, "destroy")
        /\ (Asks(rs, j, "start") => d.service.refused)
    BY <2>2, <2>3, <2>5 DEF Undone, Goodbyes, Pool
  <2>8. /\ Typed(u) /\ Undone(u, rs, j) /\ u.requests = d.requests
        /\ d.signalled \subseteq u.signalled /\ u.service.destroying = d.service.destroying
    BY <2>5, <2>6, <2>7, DestroyUndoes
  <2> HIDE DEF u
  <2> QED BY <2>3, <2>4, <2>5, <2>8 DEF Stage
<1> QED BY <1>1, <1>2

LEMMA FreeTaskStage ==
    ASSUME ToldInv, StageInv, D!FreeTask
    PROVE  Staged(D!State') /\ dservice'.destroying = dservice.destroying
<1> DEFINE t == [D!State EXCEPT !.signalled = dsignalled \ {"free"}]
           rs == drequests
           u == D!FreeSubs(t)
           w == D!FreePubs(u)
<1>1. D!Becomes(w)
  <2>1. t = [D!State EXCEPT !.signalled = @ \ {"free"}]
    BY DEF D!State
  <2> HIDE DEF t
  <2> QED BY <2>1, Zenon DEF D!FreeTask, u, w
<1>2. /\ Typed(t) /\ t.service = dservice /\ t.sends = dsends /\ t.sendQ = dsendQ /\ t.rx = drx
      /\ t.requests = rs /\ t.signalled = dsignalled \ {"free"}
  BY StageStates DEF Typed, StateType
<1>3. Asks(rs, 0, "start") => "request" \in t.signalled
  BY <1>2, StageStates
<1>4. Stage(t, rs, 0)
  <2>1. Stands(D!State.service, t.service) /\ Goodbyes(t) = Goodbyes(D!State)
        /\ (OnlyAcks(t) <=> OnlyAcks(D!State)) /\ (Forgotten(t) <=> Forgotten(D!State))
    BY <1>2, StageStates DEF Stands, Goodbyes, Pool, OnlyAcks, Forgotten
  <2>2. t.sendQ = D!State.sendQ /\ Stage(D!State, rs, 0)
    BY <1>2, StageStates
  <2> HIDE DEF t
  <2> QED BY <2>1, <2>2, StageMoves
<1> HIDE DEF t
<1>5. /\ Typed(u) /\ Stage(u, rs, 0) /\ u.requests = t.requests
      /\ t.signalled \subseteq u.signalled /\ u.service.destroying = t.service.destroying
  BY <1>2, <1>4, FreeSubsStage
<1> HIDE DEF u
<1>6. /\ Typed(w) /\ Stage(w, rs, 0) /\ w.requests = u.requests
      /\ u.signalled \subseteq w.signalled /\ w.service.destroying = u.service.destroying
  BY <1>5, FreePubsStage
<1> HIDE DEF w
<1>7. Staged(w) /\ w.service.destroying = dservice.destroying
  BY <1>2, <1>3, <1>5, <1>6 DEF Staged
<1> QED BY <1>1, <1>6, <1>7, StageTold

\* A request is done with.
LEMMA StageTurn ==
    ASSUME NEW t, NEW rs \in Seq(Request), NEW k \in Nat, k < Len(rs), Stage(t, rs, k), rs[k + 1].k # "destroy"
    PROVE  Stage(t, rs, k + 1)
<1>1. DOMAIN rs = 1 .. Len(rs) /\ Len(rs) \in Nat
  OBVIOUS
<1>2. \A i \in DOMAIN rs : i > k + 1 => i > k
  BY <1>1
<1>3. \A what : Asks(rs, k + 1, what) => Asks(rs, k, what)
  BY <1>2, Zenon DEF Asks
<1>4. ASSUME NEW i \in DOMAIN rs, LastAsk(rs, k, i) PROVE LastAsk(rs, k + 1, i)
  <2>1. i # k + 1 /\ i > k
    BY <1>4 DEF LastAsk
  <2>2. i > k + 1
    BY <1>1, <2>1
  <2>3. \A h \in DOMAIN rs : k + 1 < h => k < h
    BY <1>1
  <2> QED BY <1>4, <2>2, <2>3 DEF LastAsk
<1> QED BY <1>3, <1>4 DEF Stage, Before, Leaving, Requested, Undone

LEMMA StartTimerStage ==
    ASSUME NEW t, Typed(t), NEW rs, NEW j, Stage(t, rs, j)
    PROVE  LET u == D!StartTimer(t)
           IN  Typed(u) /\ Stage(u, rs, j) /\ u.requests = t.requests /\ u.service.destroying = t.service.destroying
<1> DEFINE v == [t.service EXCEPT !.timer = "armed"]
           u == [t EXCEPT !.service = v]
<1>1. CASE t.service.timer = "closing" \/ t.service.st = "freed"
  BY <1>1 DEF D!StartTimer
<1>2. CASE ~(t.service.timer = "closing" \/ t.service.st = "freed")
  <2>1. t.service \in ServiceType
    BY Parts
  <2>2. /\ v \in ServiceType /\ v.timer = "armed" /\ v.st = t.service.st /\ v.destroyed = t.service.destroyed
        /\ v.sub = t.service.sub /\ v.pub = t.service.pub /\ v.destroying = t.service.destroying
        /\ v.refused = t.service.refused
    BY <2>1 DEF ServiceType
  <2>3. D!StartTimer(t) = u
    BY <1>2 DEF D!StartTimer
  <2> HIDE DEF v
  <2>4. /\ Typed(u) /\ u.service = v /\ u.sends = t.sends /\ u.sendQ = t.sendQ /\ u.requests = t.requests
    BY <2>2, ServiceOf
  <2> HIDE DEF u
  <2>5. Goodbyes(u) = Goodbyes(t) /\ (Up(t.service) => Up(u.service)) /\ (Ending(t) => Ending(u))
    BY <2>2, <2>4 DEF Goodbyes, Pool, Up, Ending, OnlyAcks
  <2>6. ~Gone(t.service)
    BY <1>2 DEF Gone
  <2>7. Stage(u, rs, j)
    BY <2>2, <2>4, <2>5, <2>6 DEF Stage, Before, Leaving, Requested, Undone, Underway
  <2> QED BY <2>2, <2>3, <2>4, <2>7
<1> QED BY <1>1, <1>2

LEMMA DelayAckStage ==
    ASSUME NEW t, Typed(t), NEW rs, NEW j, Stage(t, rs, j), NEW m \in Discovered
    PROVE  LET u == D!DelayAck(t, m)
           IN  Typed(u) /\ Stage(u, rs, j) /\ u.requests = t.requests /\ u.service.destroying = t.service.destroying
<1> DEFINE a == IF t.rx[m].ackSvc THEN "timer" ELSE "done"
           e == WithAck(t.rx[m], a)
           u == [t EXCEPT !.rx[m] = e]
<1>1. t.rx \in RxType /\ t.rx[m] \in RxEntry
  BY Parts, RxOf
<1>2. D!DelayAck(t, m) = u
  BY <1>1 DEF D!DelayAck, WithAck, Typed, StateType, RxType
<1>3. a \in {"none", "requested", "timer", "done"}
  OBVIOUS
<1> HIDE DEF a
<1>4. e \in RxEntry /\ e.ackSvc = t.rx[m].ackSvc /\ e.linkSvc = t.rx[m].linkSvc
  BY <1>1, <1>3, WithAckIs
<1> HIDE DEF e
<1>5. /\ Typed(u) /\ u.service = t.service /\ u.sendQ = t.sendQ /\ u.sends = t.sends
      /\ u.requests = t.requests /\ u.rx[m] = e /\ \A x \in Discovered : x # m => u.rx[x] = t.rx[x]
  BY <1>4, RxIs
<1> HIDE DEF u
<1>6. Goodbyes(u) = Goodbyes(t) /\ (OnlyAcks(u) <=> OnlyAcks(t)) /\ (Forgotten(t) => Forgotten(u))
      /\ Stands(t.service, u.service)
  BY <1>4, <1>5 DEF Goodbyes, Pool, OnlyAcks, Forgotten, Stands
<1>7. Stage(u, rs, j)
  BY <1>5, <1>6, StageMoves
<1> QED BY <1>2, <1>5, <1>7

LEMMA RunStage ==
    ASSUME NEW t, Typed(t), NEW rs \in Seq(Request), NEW k \in Nat, k < Len(rs), Stage(t, rs, k)
    PROVE  LET u == D!Run(t, rs[k + 1])
           IN  Typed(u) /\ Stage(u, rs, k + 1) /\ u.requests = t.requests
               /\ u.service.destroying = t.service.destroying
<1> DEFINE r == rs[k + 1]
           u == D!Run(t, r)
<1>1. r \in Request /\ k + 1 \in DOMAIN rs /\ k + 1 > k /\ DOMAIN rs = 1 .. Len(rs) /\ Len(rs) \in Nat
  OBVIOUS
<1>2. \A what : r.k = what => Asks(rs, k, what)
  BY <1>1 DEF Asks
<1>3. CASE r.k = "start"
  <2>1. u = D!StartTimer(t)
    BY <1>3 DEF D!Run
  <2> HIDE DEF u
  <2>2. Typed(u) /\ Stage(u, rs, k) /\ u.requests = t.requests /\ u.service.destroying = t.service.destroying
    BY <2>1, StartTimerStage
  <2> QED BY <1>3, <2>2, StageTurn DEF u
<1>4. CASE r.k = "ack"
  <2>1. u = D!DelayAck(t, r.m) /\ r.m \in Discovered
    BY <1>1, <1>4 DEF D!Run, Request
  <2> HIDE DEF u
  <2>2. Typed(u) /\ Stage(u, rs, k) /\ u.requests = t.requests /\ u.service.destroying = t.service.destroying
    BY <2>1, DelayAckStage
  <2> QED BY <1>4, <2>2, StageTurn DEF u
<1>5. CASE r.k = "destroy"
  <2>1. u = D!Destroy(t)
    BY <1>5 DEF D!Run
  <2>2. PICK i \in DOMAIN rs : LastAsk(rs, k, i) /\ Requested(t, rs, k)
    BY <1>2, <1>5 DEF Stage, Before, Leaving, Requested, Undone
  <2>3. i = k + 1
    BY <1>1, <1>5, <2>2 DEF LastAsk
  <2>4. ~Asks(rs, k + 1, "destroy") /\ ~Asks(rs, k + 1, "start")
    BY <1>1, <2>2, <2>3 DEF Asks, LastAsk
  <2>5. Ending(t) /\ t.service.destroying /\ Goodbyes(t) = {}
    BY <2>2, UpEnding DEF Requested
  <2> HIDE DEF u
  <2>6. /\ Typed(u) /\ Undone(u, rs, k + 1) /\ u.requests = t.requests
        /\ u.service.destroying = t.service.destroying
    BY <2>1, <2>4, <2>5, DestroyUndoes
  <2> QED BY <2>6 DEF Stage, u
<1> QED BY <1>1, <1>3, <1>4, <1>5 DEF Request

LEMMA RunRequestsStage ==
    ASSUME ToldInv, StageInv, D!RunRequests
    PROVE  Staged(D!State') /\ dservice'.destroying = dservice.destroying /\ drequests' = <<>>
<1> DEFINE rs == drequests
           w == X!Fold(Ran, rs)
<1>1. Typed(Ran) /\ Stage(Ran, rs, 0) /\ Ran.requests = <<>> /\ Ran.service = dservice
  <2>1. /\ Typed(Ran) /\ Ran.sendQ = dsendQ /\ Ran.sends = dsends /\ Ran.service = dservice
        /\ Ran.rx = drx /\ Ran.requests = <<>>
    BY RanIs
  <2>2. /\ Goodbyes(Ran) = Goodbyes(D!State) /\ (OnlyAcks(Ran) <=> OnlyAcks(D!State))
        /\ (Forgotten(D!State) => Forgotten(Ran)) /\ Stands(D!State.service, Ran.service)
    BY <2>1, StageStates DEF Goodbyes, Pool, OnlyAcks, Forgotten, Stands
  <2>3. D!State.sendQ = <<>> => Ran.sendQ = <<>>
    BY <2>1, StageStates
  <2>4. Stage(Ran, rs, 0)
    BY <2>2, <2>3, StageStates, StageMoves
  <2> QED BY <2>1, <2>4
<1>2. rs \in Seq(Request) /\ Len(rs) \in Nat
  BY StageStates
<1>3. PICK f : /\ f[0] = Ran
               /\ \A k \in Nat : k < Len(rs) => f[k + 1] = D!Run(f[k], rs[k + 1])
               /\ w = f[Len(rs)]
  BY <1>2, X!FoldTurns
<1> DEFINE OK(k, v) == Typed(v) /\ Stage(v, rs, k) /\ v.requests = <<>>
                       /\ v.service.destroying = dservice.destroying
           T == {k \in Nat : k <= Len(rs) => OK(k, f[k])}
<1>4. 0 \in T
  BY <1>1, <1>3
<1>5. ASSUME NEW k \in Nat, k \in T PROVE k + 1 \in T
  <2> SUFFICES ASSUME k + 1 <= Len(rs) PROVE OK(k + 1, f[k + 1])
    OBVIOUS
  <2>1. k < Len(rs) /\ k <= Len(rs)
    BY <1>2
  <2>2. OK(k, f[k]) /\ f[k + 1] = D!Run(f[k], rs[k + 1])
    BY <1>3, <1>5, <2>1
  <2> HIDE DEF rs
  <2> QED BY <1>2, <2>1, <2>2, RunStage
<1> HIDE DEF T
<1>6. Nat \subseteq T
  BY <1>4, <1>5, X!Induct
<1>7. OK(Len(rs), w)
  <2> DEFINE n == Len(rs)
  <2>1. n \in T /\ n \in Nat /\ n <= n
    BY <1>2, <1>6
  <2> HIDE DEF n
  <2>2. OK(n, f[n])
    BY <2>1 DEF T, n
  <2>3. w = f[n]
    BY <1>3 DEF n
  <2> HIDE DEF OK, w
  <2>4. OK(n, w)
    BY <2>2, <2>3
  <2> QED BY <2>4 DEF n
<1>8. D!Becomes(w)
  BY RunRequestsIs
<1> HIDE DEF w
\* All requests were run.
<1>9. Stage(w, <<>>, 0)
  <2> DEFINE n == Len(rs)
  <2>1. Stage(w, rs, n)
    BY <1>7
  <2>2. \A i \in DOMAIN rs : ~(i > n)
    BY <1>2
  <2>3. \A what : ~Asks(<<>>, 0, what)
    BY DEF Asks
  <2>4. \A i \in DOMAIN rs : ~LastAsk(rs, n, i)
    BY <2>2 DEF LastAsk
  <2> HIDE DEF rs, n
  <2> QED BY <2>1, <2>3, <2>4 DEF Stage, Before, Leaving, Requested, Undone
<1>10. Staged(w)
  <2>1. ~Asks(<<>>, 0, "start")
    BY DEF Asks
  <2> QED BY <1>7, <1>9, <2>1 DEF Staged
<1>11. drequests' = w.requests
  BY <1>8 DEF D!Becomes
<1> QED BY <1>7, <1>8, <1>10, <1>11, StageTold

--------------------------------------------------------------------------------
(* So do the timers, the sends and the network between two passes. *)

\* A step between two passes of the loop.
BetweenStage == /\ Staged(D!State') /\ dservice'.destroying = dservice.destroying
                /\ Late(D!State') => Late(D!State)

LEMMA BetweenTold ==
    ASSUME ToldInv, StageInv, NEW t, Typed(t), D!Becomes(t), Stage(t, drequests, 0), t.requests = drequests,
           dsignalled \subseteq t.signalled, t.service.destroying = dservice.destroying,
           Sends(t, "goodbye") => Sends(D!State, "goodbye")
    PROVE  BetweenStage
<1>1. D!State' = t
  BY StateIs
<1>2. Asks(drequests, 0, "start") => "request" \in t.signalled
  BY StageStates
<1>3. Staged(t)
  BY <1>2 DEF Staged
<1>4. Staged(D!State') /\ dservice'.destroying = dservice.destroying
  BY <1>3, StageTold
<1>5. Late(t) => Late(D!State)
  BY StageStates DEF Late
<1> QED BY <1>1, <1>4, <1>5 DEF BetweenStage

LEMMA TimerClosedStage == ASSUME ToldInv, StageInv, D!TimerClosed PROVE BetweenStage
<1> DEFINE v == [dservice EXCEPT !.timer = "none"]
           t == [D!State EXCEPT !.service = v]
           w == D!Destroy(t)
<1>1. D!Becomes(w) /\ dservice.timer = "closing"
  <2>1. t = [D!State EXCEPT !.service.timer = "none"]
    BY DEF D!State
  <2> HIDE DEF t
  <2> QED BY <2>1, Zenon DEF D!TimerClosed
<1>2. Undone(D!State, drequests, 0) /\ Ending(D!State) /\ dservice \in ServiceType
  BY <1>1, StageStates, Parts DEF Stage, Before, Leaving, Requested, Undone, Underway, Up, Gone
<1>3. /\ v \in ServiceType /\ v.destroying = dservice.destroying /\ v.refused = dservice.refused
      /\ v.st = dservice.st /\ v.destroyed = dservice.destroyed /\ v.pub = dservice.pub /\ v.sub = dservice.sub
  BY <1>2 DEF ServiceType
<1> HIDE DEF v
<1>4. /\ Typed(t) /\ t.service = v /\ t.sends = dsends /\ t.sendQ = dsendQ
      /\ t.requests = drequests /\ t.signalled = dsignalled
  BY <1>3, StageStates, ServiceOf
<1> HIDE DEF t
<1>5. /\ Ending(t) /\ t.service.destroying /\ Goodbyes(t) = {}
      /\ ~Asks(drequests, 0, "destroy") /\ (Asks(drequests, 0, "start") => t.service.refused)
  BY <1>2, <1>3, <1>4, StageStates DEF Ending, OnlyAcks, Undone, Goodbyes, Pool
<1>6. /\ Typed(w) /\ Undone(w, drequests, 0) /\ w.sends = t.sends /\ w.requests = t.requests
      /\ t.signalled \subseteq w.signalled /\ w.service.destroying = t.service.destroying
  BY <1>4, <1>5, DestroyUndoes
<1> HIDE DEF w
<1>7. Sends(w, "goodbye") => Sends(D!State, "goodbye")
  BY <1>4, <1>6, StageStates DEF Sends
<1>8. Stage(w, drequests, 0)
  BY <1>6 DEF Stage
<1> QED BY <1>1, <1>3, <1>4, <1>6, <1>7, <1>8, BetweenTold

\* The state when a send has ended.
LEMMA OffIs ==
    ASSUME ToldInv, NEW x \in dsends
    PROVE  LET t == [D!State EXCEPT !.sends = dsends \ {x}]
           IN  /\ Typed(t) /\ t.service = dservice /\ t.sends = dsends \ {x} /\ t.sendQ = dsendQ /\ t.rx = drx
               /\ t.requests = drequests /\ t.signalled = dsignalled
               /\ x \in Message /\ x.buf \in D!Maybe(D!Buffers)
<1> DEFINE S == dsends \ {x}
           t == [D!State EXCEPT !.sends = S]
<1>1. Typed(D!State) /\ dsends \in SUBSET Message /\ IsFiniteSet(dsends)
  BY StateTyped, Parts DEF D!State
<1>2. S \in SUBSET Message /\ IsFiniteSet(S)
  BY <1>1, FS_RemoveElement
<1> HIDE DEF S
<1>3. /\ Typed(t) /\ t.service = dservice /\ t.sends = S /\ t.sendQ = dsendQ /\ t.rx = drx
      /\ t.requests = drequests /\ t.signalled = dsignalled
  BY <1>1, <1>2 DEF Typed, StateType, D!State
<1> HIDE DEF t
<1> QED BY <1>1, <1>3 DEF t, S, Message

LEMMA GoodbyeEnds ==
    ASSUME ToldInv, BooksInv, StageInv, NEW x \in dsends, x.kind = "goodbye", D!SendComplete(x)
    PROVE  BetweenStage
<1> DEFINE t == [D!State EXCEPT !.sends = dsends \ {x}]
           u == D!Destroy(t)
<1>1. /\ Typed(t) /\ t.service = dservice /\ t.sends = dsends \ {x} /\ t.sendQ = dsendQ /\ t.rx = drx
      /\ t.requests = drequests /\ t.signalled = dsignalled
  BY OffIs
<1>2. Leaving(D!State, drequests, 0) /\ Goodbyes(D!State) = {x}
  <2>1. x \in Goodbyes(D!State)
    BY StageStates DEF Goodbyes, Pool
  <2>2. Goodbyes(D!State) # {}
    BY <2>1
  <2> QED BY <2>1, <2>2, StageStates DEF Stage, Before, Leaving, Requested, Undone
<1>3. Goodbyes(t) = {}
  <2>1. x \notin D!ToSet(dsendQ)
    BY StageStates DEF BooksInv, Books, Apart
  <2>2. Goodbyes(t) \subseteq Goodbyes(D!State) /\ x \notin Goodbyes(t)
    BY <1>1, <2>1, StageStates DEF Goodbyes, Pool
  <2> QED BY <1>2, <2>2
<1>4. ~Asks(drequests, 0, "destroy") /\ ~Asks(drequests, 0, "start") /\ Up(dservice) /\ dservice.destroying
  <2>1. dpass = 0
    BY DEF D!SendComplete, D!Between, D!AtRest
  <2>2. Sends(D!State, "goodbye")
    BY StageStates DEF Sends
  <2> QED BY <1>2, <2>1, <2>2, StageStates DEF Leaving
<1>5. D!Becomes(IF u.service.pub = "destroyed" THEN D!FreePub(u) ELSE u)
  <2>1. t = [D!State EXCEPT !.sends = @ \ {x}]
    BY DEF D!State
  <2> HIDE DEF t
  <2> QED BY <2>1, Zenon DEF D!SendComplete, D!Published, u
<1> HIDE DEF t
<1>6. Ending(t) /\ Up(t.service) /\ t.service.destroying
  BY <1>1, <1>4, UpEnding
<1>7. /\ Typed(u) /\ Undone(u, drequests, 0) /\ u.sends = t.sends /\ u.requests = t.requests
      /\ t.signalled \subseteq u.signalled /\ u.service.destroying = t.service.destroying
  BY <1>1, <1>3, <1>4, <1>6, DestroyUndoes
<1>8. u.service.pub = "listed"
  BY <1>1, <1>6, DestroyDoes
<1> HIDE DEF u
<1>9. D!Becomes(u)
  BY <1>5, <1>8
<1>10. Stage(u, drequests, 0)
  BY <1>7 DEF Stage
<1>11. Sends(u, "goodbye") => Sends(D!State, "goodbye")
  BY <1>1, <1>7, StageStates DEF Sends
<1> QED BY <1>1, <1>7, <1>9, <1>10, <1>11, BetweenTold

LEMMA SendEnds ==
    ASSUME ToldInv, StageInv, NEW x \in dsends, x.kind # "goodbye", D!SendComplete(x) PROVE BetweenStage
<1> DEFINE t == [D!State EXCEPT !.sends = dsends \ {x}]
           u == D!SharedBufferDecRef(t, x.buf)
           w == IF x.kind # "ack" /\ u.service.pub = "destroyed" THEN D!FreePub(u) ELSE u
<1>1. /\ Typed(t) /\ t.service = dservice /\ t.sends = dsends \ {x} /\ t.sendQ = dsendQ /\ t.rx = drx
      /\ t.requests = drequests /\ t.signalled = dsignalled /\ x.buf \in D!Maybe(D!Buffers)
  BY OffIs
<1>2. D!Becomes(w)
  <2>1. t = [D!State EXCEPT !.sends = @ \ {x}]
    BY DEF D!State
  <2> HIDE DEF t
  <2>2. (IF x.kind = "ack" THEN u ELSE D!Published(t, x)) = u
    BY DEF D!Published, u
  <2> QED BY <2>1, <2>2, Zenon DEF D!SendComplete, u, w
<1> HIDE DEF t
<1>3. /\ Typed(u) /\ u.service = dservice /\ u.sends = dsends \ {x} /\ u.sendQ = dsendQ /\ u.rx = drx
      /\ u.requests = drequests /\ u.signalled = dsignalled
  BY <1>1, DecRefAlike DEF Alike
<1> HIDE DEF u
<1>4. Goodbyes(u) = Goodbyes(D!State)
  BY <1>3, StageStates DEF Goodbyes, Pool
<1>5. Sends(u, "goodbye") => Sends(D!State, "goodbye")
  BY <1>3, StageStates DEF Sends
\* The publication waited for its last send.
<1>6. CASE x.kind # "ack" /\ dservice.pub = "destroyed"
  <2>1. w = D!FreePub(u)
    BY <1>3, <1>6
  <2>2. Undone(D!State, drequests, 0) /\ Ending(D!State) /\ dservice.sub = "gone"
    BY <1>6, StageStates DEF Stage, Before, Leaving, Requested, Undone, Underway, Up, Ending, Gone
  <2> HIDE DEF w
  <2>3. /\ Typed(w) /\ w.sends = u.sends /\ w.requests = drequests /\ dsignalled \subseteq w.signalled
        /\ w.service.st = dservice.st /\ w.service.destroyed = dservice.destroyed
        /\ w.service.sub = dservice.sub /\ w.service.pub = "destroyed"
        /\ w.service.destroying = dservice.destroying /\ w.service.refused = dservice.refused
        /\ (w.sendQ = dsendQ) \/ (w.sendQ = <<>>)
        /\ OnlyAcks(u) => w.sendQ = <<>>
    BY <1>3, <2>1, FreePubDoes
  <2>4. OnlyAcks(w) => OnlyAcks(u)
    BY <2>3 DEF OnlyAcks
  <2>5. Goodbyes(w) = {} /\ (Sends(w, "goodbye") => Sends(D!State, "goodbye"))
    <3>1. D!ToSet(<<>>) = {} /\ Goodbyes(u) = {}
      BY <1>4, <2>2 DEF D!ToSet, Undone
    <3>2. Goodbyes(w) \subseteq Goodbyes(u)
      BY <1>3, <2>3, <3>1 DEF Goodbyes, Pool
    <3>3. Sends(w, "goodbye") => Sends(u, "goodbye")
      BY <2>3 DEF Sends
    <3> QED BY <1>5, <3>1, <3>2, <3>3
  <2>6. Stage(w, drequests, 0)
    <3>1. Ending(w)
      BY <2>2, <2>3, <2>4, StageStates DEF Ending
    <3>2. Undone(w, drequests, 0)
      BY <2>2, <2>3, <2>5, <3>1, StageStates DEF Undone, Underway
    <3> QED BY <3>2 DEF Stage
  <2> QED BY <1>2, <2>3, <2>5, <2>6, BetweenTold
<1>7. CASE ~(x.kind # "ack" /\ dservice.pub = "destroyed")
  <2>1. w = u
    BY <1>3, <1>7
  <2> HIDE DEF w
  <2>2. Stands(D!State.service, u.service)
    BY <1>3, StageStates DEF Stands
  <2>3. dservice.pub = "destroyed" => (OnlyAcks(u) => OnlyAcks(D!State))
    <3>1. dservice.pub = "destroyed" => x.kind = "ack"
      BY <1>7
    <3>2. x.kind = "ack" => (OnlyAcks(u) => OnlyAcks(D!State))
      BY <1>3, StageStates DEF OnlyAcks
    <3> QED BY <3>1, <3>2
  <2>4. (OnlyAcks(D!State) => OnlyAcks(u)) /\ (Forgotten(D!State) => Forgotten(u)) /\ u.sendQ = D!State.sendQ
    BY <1>3, StageStates DEF OnlyAcks, Forgotten
  <2>5. Stage(u, drequests, 0)
    BY <1>4, <2>2, <2>3, <2>4, StageStates, StageMoves
  <2> QED BY <1>2, <1>3, <1>5, <2>1, <2>5, BetweenTold
<1> QED BY <1>6, <1>7

\* The timer of a service whose publication is gone.
LEMMA StoppedStage ==
    ASSUME ToldInv, StageInv, D!PublishTimerOnTimeout, dservice.pub # "listed" PROVE BetweenStage
<1> DEFINE v == [dservice EXCEPT !.hellos = dservice.hellos + 1]
           t == [D!State EXCEPT !.service = v]
           b == dservice.payload
           u == D!SharedBufferIncRef(t, b)
           d == D!SharedBufferDecRef(u, b)
           z == [d.service EXCEPT !.timer = "stopped"]
           w == [d EXCEPT !.service = z]
<1>1. dservice \in ServiceType /\ Typed(D!State) /\ D!State.service = dservice /\ dservice.timer = "armed"
  BY StageStates, Parts DEF D!PublishTimerOnTimeout
<1>2. v \in ServiceType /\ Stands(dservice, v) /\ v.payload = b
  <2>1. dservice.hellos + 1 \in Nat
    BY <1>1, ServiceIs
  <2> QED BY <1>1, <2>1 DEF ServiceType, Stands
<1>3. D!Becomes(w)
  <2>1. t = [D!State EXCEPT !.service.hellos = @ + 1]
    BY DEF D!State
  <2>2. t.service.payload = b
    BY <1>1, <1>2 DEF Typed, StateType
  <2> HIDE DEF t
  <2>3. D!Becomes([d EXCEPT !.service.timer = "stopped"])
    BY <2>1, <2>2, Zenon DEF D!PublishTimerOnTimeout, D!EncodeDiscoveryPayload, u, d
  <2>4. [d EXCEPT !.service.timer = "stopped"] = w
    BY DEF w, z
  <2> HIDE DEF d, w
  <2> QED BY <2>3, <2>4
<1> HIDE DEF v
<1>4. /\ Typed(t) /\ t.service = v /\ t.sends = dsends /\ t.sendQ = dsendQ /\ t.rx = drx
      /\ t.requests = drequests /\ t.signalled = dsignalled
  BY <1>1, <1>2, StageStates, ServiceOf
<1> HIDE DEF t
<1>5. b \in D!Maybe(D!Buffers)
  BY <1>1, ServiceIs
<1> HIDE DEF b
<1>6. Alike(t, u) /\ Typed(u)
  BY <1>4, <1>5, IncRefAlike DEF Alike
<1> HIDE DEF u
<1>7. /\ Typed(d) /\ d.service = v /\ d.sends = dsends /\ d.sendQ = dsendQ
      /\ d.requests = drequests /\ d.signalled = dsignalled
  BY <1>4, <1>5, <1>6, DecRefAlike DEF Alike
<1> HIDE DEF d
<1>8. /\ z \in ServiceType /\ z.st = dservice.st /\ z.destroyed = dservice.destroyed /\ z.pub = dservice.pub
      /\ z.sub = dservice.sub /\ z.destroying = dservice.destroying /\ z.refused = dservice.refused
  BY <1>2, <1>7 DEF ServiceType, Stands
<1> HIDE DEF z
<1>9. /\ Typed(w) /\ w.service = z /\ w.sends = dsends /\ w.sendQ = dsendQ
      /\ w.requests = drequests /\ w.signalled = dsignalled
  BY <1>7, <1>8, ServiceOf
<1> HIDE DEF w
<1>10. Undone(D!State, drequests, 0) /\ Ending(D!State)
  BY <1>1, StageStates DEF Stage, Before, Leaving, Requested, Undone, Underway, Up, Gone
<1>11. Ending(w)
  BY <1>1, <1>8, <1>9, <1>10, StageStates DEF Ending, OnlyAcks
<1>12. Goodbyes(w) = Goodbyes(D!State) /\ (Sends(w, "goodbye") => Sends(D!State, "goodbye"))
  BY <1>9, StageStates DEF Goodbyes, Pool, Sends
<1>13. Stage(w, drequests, 0)
  BY <1>1, <1>8, <1>9, <1>10, <1>11, <1>12 DEF Stage, Undone, Underway
<1> QED BY <1>3, <1>8, <1>9, <1>12, <1>13, BetweenTold

LEMMA QueuedStage ==
    ASSUME ToldInv, StageInv, D!PublishTimerOnTimeout, dservice.pub = "listed" PROVE BetweenStage
<1> DEFINE v == [dservice EXCEPT !.hellos = dservice.hellos + 1]
           t == [D!State EXCEPT !.service = v]
           b == dservice.payload
           x == D!Message(t, "hello", b)
           u == D!SharedBufferIncRef(t, b)
           q == Append(u.sendQ, x)
           a == [u EXCEPT !.sendQ = q]
           w == D!Signal(a, "pubs")
<1>1. dservice \in ServiceType /\ Typed(D!State) /\ D!State.service = dservice /\ dservice.timer = "armed"
  BY StageStates, Parts DEF D!PublishTimerOnTimeout
<1>2. v \in ServiceType /\ Stands(dservice, v) /\ v.payload = b
  <2>1. dservice.hellos + 1 \in Nat
    BY <1>1, ServiceIs
  <2> QED BY <1>1, <2>1 DEF ServiceType, Stands
<1>3. dservice.pub = "listed"
  OBVIOUS
<1>4. D!Becomes(w)
  <2>1. t = [D!State EXCEPT !.service.hellos = @ + 1]
    BY DEF D!State
  <2>2. t.service.payload = b
    BY <1>1, <1>2 DEF Typed, StateType
  <2> HIDE DEF t
  <2>3. D!Becomes(D!Signal([u EXCEPT !.sendQ = Append(@, x)], "pubs"))
    BY <1>3, <2>1, <2>2, Zenon DEF D!PublishTimerOnTimeout, D!EncodeDiscoveryPayload, u, x
  <2>4. [u EXCEPT !.sendQ = Append(@, x)] = a
    BY DEF a, q
  <2> HIDE DEF u, a, x, q
  <2> QED BY <2>3, <2>4 DEF w
<1> HIDE DEF v
<1>5. /\ Typed(t) /\ t.service = v /\ t.sends = dsends /\ t.sendQ = dsendQ /\ t.rx = drx
      /\ t.requests = drequests /\ t.signalled = dsignalled
  BY <1>1, <1>2, StageStates, ServiceOf
<1> HIDE DEF t
<1>6. b \in D!Maybe(D!Buffers)
  BY <1>1, ServiceIs
<1> HIDE DEF b
<1>7. x \in Message /\ x.kind = "hello"
  BY <1>5, <1>6, MessageType
<1> HIDE DEF x
<1>8. /\ Typed(u) /\ u.service = v /\ u.sends = dsends /\ u.sendQ = dsendQ /\ u.rx = drx
      /\ u.requests = drequests /\ u.signalled = dsignalled
  BY <1>5, <1>6, IncRefAlike DEF Alike
<1> HIDE DEF u
<1>9. q \in Seq(Message) /\ D!ToSet(q) = D!ToSet(dsendQ) \cup {x} /\ q # <<>>
  <2>1. dsendQ \in Seq(Message)
    BY StageStates, Parts
  <2>2. /\ DOMAIN q = 1 .. Len(dsendQ) + 1 /\ DOMAIN dsendQ = 1 .. Len(dsendQ) /\ Len(dsendQ) \in Nat
        /\ \A i \in DOMAIN dsendQ : q[i] = dsendQ[i]
        /\ q[Len(dsendQ) + 1] = x /\ q \in Seq(Message) /\ Len(q) = Len(dsendQ) + 1
    BY <1>7, <1>8, <2>1
  <2> HIDE DEF q
  <2>3. D!ToSet(q) \subseteq D!ToSet(dsendQ) \cup {x}
    BY <2>2 DEF D!ToSet
  <2>4. D!ToSet(dsendQ) \subseteq D!ToSet(q) /\ x \in D!ToSet(q)
    BY <2>2 DEF D!ToSet
  <2> QED BY <2>2, <2>3, <2>4
<1> HIDE DEF q
<1>10. /\ Typed(a) /\ a.service = v /\ a.sends = dsends /\ a.sendQ = q /\ a.rx = drx
       /\ a.requests = drequests /\ a.signalled = dsignalled
  BY <1>8, <1>9 DEF Typed, StateType
<1> HIDE DEF a
<1>11. /\ Typed(w) /\ w.service = v /\ w.sends = dsends /\ w.sendQ = q /\ w.rx = drx
       /\ w.requests = drequests /\ dsignalled \subseteq w.signalled
  BY <1>10, SignalIs
<1> HIDE DEF w
<1>12. Goodbyes(w) = Goodbyes(D!State) /\ (Sends(w, "goodbye") => Sends(D!State, "goodbye"))
  BY <1>7, <1>9, <1>11, StageStates DEF Goodbyes, Pool, Sends
<1>13. Stage(w, drequests, 0)
  <2>1. ~Gone(dservice)
    BY <1>1 DEF Gone
  <2> QED BY <1>2, <1>3, <1>11, <1>12, <2>1, StageStates, StageMoves
<1>14. w.service.destroying = dservice.destroying
  BY <1>2, <1>11 DEF Stands
<1> QED BY <1>4, <1>11, <1>12, <1>13, <1>14, BetweenTold

LEMMA HelloStage == ASSUME ToldInv, StageInv, D!PublishTimerOnTimeout PROVE BetweenStage
BY StoppedStage, QueuedStage

\* Messages, links and acknowledgements.
LEMMA HandledStage ==
    ASSUME ToldInv, StageInv, NEW U, Handled(D!State, D!State', U),
           Gone(dservice) /\ Forgotten(D!State) => Forgotten(D!State')
    PROVE  BetweenStage
<1> DEFINE t == D!State
           u == D!State'
<1>1. Typed(t) /\ Staged(t) /\ t.service = dservice /\ u.service = dservice'
  BY StateTyped DEF StageInv, D!State
<1>2. Gone(t.service) /\ Forgotten(t) => Forgotten(u)
  BY <1>1
<1>3. Handled(t, u, U)
  OBVIOUS
<1> HIDE DEF t, u
<1>4. Staged(u) /\ u.service.destroying = t.service.destroying /\ (Late(u) => Late(t))
  BY <1>1, <1>2, <1>3, StageHandled
<1> QED BY <1>1, <1>4 DEF t, u, BetweenStage

LEMMA ReceiveStage ==
    ASSUME ToldInv, BooksInv, StageInv, NEW m \in Discovered, NEW linked \in BOOLEAN, NEW sent \in BOOLEAN,
           D!Receive(m, linked, sent)
    PROVE  BetweenStage
<1>1. Handled(D!State, D!State', Unmade)
  BY ReceiveHandled
<1>2. ~Gone(dservice)
  BY DEF D!Receive, Gone
<1> QED BY <1>1, <1>2, HandledStage

LEMMA LinkCbStage ==
    ASSUME ToldInv, BooksInv, StageInv, NEW m \in Discovered, D!LinkCb(m) PROVE BetweenStage
<1> DEFINE e == Over(drx[m])
           t == [D!State EXCEPT !.rx[m] = e]
<1>1. Handled(D!State, D!State', Unmade)
  BY LinkCbHandled
<1>2. Typed(D!State) /\ drx[m] \in RxEntry /\ D!State.rx = drx
  BY StageStates, RxOf
<1>3. e \in RxEntry /\ ~e.linkSvc /\ e.ackSvc = drx[m].ackSvc
  BY <1>2, EntryAlso
<1>4. t = [D!State EXCEPT !.rx[m].linking = FALSE, !.rx[m].linkSvc = FALSE]
  BY <1>2 DEF Over, D!State, Typed, StateType, RxType
<1>5. Forgotten(D!State) => D!Becomes(t)
  <2> HIDE DEF t
  <2>1. Forgotten(D!State) => ~drx[m].linkSvc
    BY <1>2 DEF Forgotten
  <2> QED BY <1>4, <2>1, Zenon DEF D!LinkCb
<1> HIDE DEF e
<1>6. Typed(t) /\ t.rx[m] = e /\ \A x \in Discovered : x # m => t.rx[x] = drx[x]
  BY <1>2, <1>3, RxIs
<1> HIDE DEF t
<1>7. Forgotten(D!State) => Forgotten(t)
  BY <1>2, <1>3, <1>6 DEF Forgotten
<1>8. Forgotten(D!State) => Forgotten(D!State')
  BY <1>5, <1>6, <1>7, StateIs
<1> QED BY <1>1, <1>8, HandledStage

LEMMA AckTimerStage ==
    ASSUME ToldInv, BooksInv, StageInv, NEW m \in Discovered, NEW sent \in BOOLEAN, D!AckTimerOnTimeout(m, sent)
    PROVE  BetweenStage
<1> DEFINE e == Acked(drx[m])
           t == [D!State EXCEPT !.rx[m] = e]
<1>1. Handled(D!State, D!State', Unmade)
  BY AckTimerHandled
<1>2. Typed(D!State) /\ drx[m] \in RxEntry /\ D!State.rx = drx
  BY StageStates, RxOf
<1>3. e \in RxEntry /\ ~e.ackSvc /\ e.linkSvc = drx[m].linkSvc
  BY <1>2, EntryAcks
<1>4. t = [D!State EXCEPT !.rx[m].ack = "done", !.rx[m].ackSvc = FALSE]
  BY <1>2 DEF Acked, D!State, Typed, StateType, RxType
<1>5. Forgotten(D!State) => D!Becomes(t)
  <2> HIDE DEF t
  <2>1. Forgotten(D!State) => ~drx[m].ackSvc
    BY <1>2 DEF Forgotten
  <2> QED BY <1>4, <2>1, Zenon DEF D!AckTimerOnTimeout
<1> HIDE DEF e
<1>6. Typed(t) /\ t.rx[m] = e /\ \A x \in Discovered : x # m => t.rx[x] = drx[x]
  BY <1>2, <1>3, RxIs
<1> HIDE DEF t
<1>7. Forgotten(D!State) => Forgotten(t)
  BY <1>2, <1>3, <1>6 DEF Forgotten
<1>8. Forgotten(D!State) => Forgotten(D!State')
  BY <1>5, <1>6, <1>7, StateIs
<1> QED BY <1>1, <1>8, HandledStage

--------------------------------------------------------------------------------
(* So does the application. *)

\* Nothing is asked to be destroyed before the application is done.
LEMMA NotDone ==
    ASSUME ToldInv, StageInv, dapp # "done"
    PROVE  /\ Before(D!State, drequests, 0) /\ ~dservice.destroying /\ Up(dservice)
           /\ Goodbyes(D!State) = {} /\ ~Sends(D!State, "goodbye")
<1>1. ~dservice.destroying
  BY DEF StageInv
<1>2. Before(D!State, drequests, 0)
  BY <1>1, StageStates DEF Stage, Leaving, Requested, Undone
<1>3. Goodbyes(D!State) = {} /\ Up(dservice)
  BY <1>2, StageStates DEF Before
<1>4. ~Sends(D!State, "goodbye")
  BY <1>3 DEF Sends, Goodbyes, Pool
<1> QED BY <1>1, <1>2, <1>3, <1>4

LEMMA StageNext ==
    ASSUME Staged(D!State'), Late(D!State') => dpass' # 0, dservice'.destroying <=> dapp' = "done"
    PROVE  StageInv'
BY DEF StageInv, D!State

LEMMA SubscribeStage == ASSUME ToldInv, StageInv, D!Subscribe PROVE StageInv'
<1> DEFINE u == D!State'
<1>1. dapp = "idle" /\ dapp' = "payload" /\ dservice \in ServiceType
  BY StageStates, Parts DEF D!Subscribe
<1>2. /\ u.service = dservice' /\ u.sends = dsends /\ u.sendQ = dsendQ /\ u.rx = drx
      /\ u.requests = drequests /\ u.signalled = dsignalled
      /\ dservice' = [dservice EXCEPT !.handler = dservice.wants, !.sub = "listed", !.publishes = @ + 1]
  BY DEF D!Subscribe, D!State
<1>3. Up(dservice') /\ ~dservice'.destroying
  BY <1>1, <1>2, NotDone DEF Up, ServiceType
<1> HIDE DEF u
<1>4. Goodbyes(u) = {} /\ ~Sends(u, "goodbye")
  BY <1>1, <1>2, NotDone, StageStates DEF Goodbyes, Pool, Sends
<1>5. Before(u, drequests, 0)
  BY <1>1, <1>2, <1>3, <1>4, NotDone DEF Before
<1>6. Staged(u) /\ ~Late(u)
  BY <1>2, <1>4, <1>5, StageStates DEF Staged, Stage, Late
<1> QED BY <1>1, <1>3, <1>6, StageNext DEF u

LEMMA ReplacePayloadStage ==
    ASSUME ToldInv, StageInv, NEW b \in D!Maybe(D!Buffers), D!ReplacePayload(b) PROVE StageInv'
<1> DEFINE d == D!SharedBufferDecRef(D!State, dservice.payload)
           v == [d.service EXCEPT !.payload = b]
           s == [d EXCEPT !.service = v]
           f == [s.buffer EXCEPT ![b] = [refs |-> 1, st |-> "live"]]
           w == [s EXCEPT !.buffer = f]
           z == IF b = NULL THEN s ELSE w
<1>1. dservice \in ServiceType /\ Typed(D!State) /\ dservice.payload \in D!Maybe(D!Buffers)
  BY StageStates, Parts, ServiceIs
<1>2. D!Becomes(z) /\ dapp = "payload" /\ dapp' = "schedule"
  <2>1. [d EXCEPT !.service.payload = b] = s
    BY Zenon
  <2>2. [s EXCEPT !.buffer[b] = [refs |-> 1, st |-> "live"]] = w
    BY Zenon
  <2>3. d = D!SharedBufferDecRef(D!State, dservice.payload)
    OBVIOUS
  <2> HIDE DEF d, s, w
  <2>4. LET r == [d EXCEPT !.service.payload = b]
        IN  D!Becomes(IF b = NULL THEN r ELSE [r EXCEPT !.buffer[b] = [refs |-> 1, st |-> "live"]])
    BY <2>3, Zenon DEF D!ReplacePayload
  <2>5. dapp = "payload" /\ dapp' = "schedule"
    BY DEF D!ReplacePayload
  <2> QED BY <2>1, <2>2, <2>4, <2>5, Zenon
<1>3. /\ Typed(d) /\ d.service = dservice /\ d.sends = dsends /\ d.sendQ = dsendQ
      /\ d.requests = drequests /\ d.signalled = dsignalled
  BY <1>1, DecRefAlike, StageStates DEF Alike
<1> HIDE DEF d
<1>4. v \in ServiceType /\ Stands(dservice, v)
  BY <1>1, <1>3 DEF ServiceType, Stands
<1> HIDE DEF v
<1>5. /\ Typed(s) /\ s.service = v /\ s.sends = dsends /\ s.sendQ = dsendQ
      /\ s.requests = drequests /\ s.signalled = dsignalled
  BY <1>3, <1>4, ServiceOf
<1> HIDE DEF s
<1>6. b # NULL => /\ Typed(w) /\ w.service = v /\ w.sends = dsends /\ w.sendQ = dsendQ
                  /\ w.requests = drequests /\ w.signalled = dsignalled
  <2> SUFFICES ASSUME b # NULL
               PROVE  /\ Typed(w) /\ w.service = v /\ w.sends = dsends /\ w.sendQ = dsendQ
                      /\ w.requests = drequests /\ w.signalled = dsignalled
    OBVIOUS
  <2>1. b \in D!Buffers /\ s.buffer \in BufferType
    BY <1>5, NullIs, Parts
  <2>2. f \in BufferType
    BY <2>1 DEF BufferType
  <2> HIDE DEF f
  <2> QED BY <1>5, <2>2 DEF Typed, StateType
<1> HIDE DEF w
<1>7. /\ Typed(z) /\ z.service = v /\ z.sends = dsends /\ z.sendQ = dsendQ
      /\ z.requests = drequests /\ z.signalled = dsignalled
  BY <1>5, <1>6
<1> HIDE DEF z
<1>8. Goodbyes(z) = {} /\ ~Sends(z, "goodbye") /\ Up(z.service) /\ ~z.service.destroying
  BY <1>2, <1>4, <1>7, NotDone, StageStates DEF Goodbyes, Pool, Sends, Stands, Up
<1>9. Before(z, drequests, 0)
  BY <1>2, <1>8, NotDone DEF Before
<1>10. Staged(z) /\ ~Late(z)
  BY <1>7, <1>8, <1>9, StageStates DEF Staged, Stage, Late
<1>11. D!State' = z /\ dservice' = z.service
  BY <1>2, <1>7, StateIs DEF D!Becomes
<1> QED BY <1>2, <1>8, <1>10, <1>11, StageNext

LEMMA ScheduleStartStage == ASSUME ToldInv, StageInv, D!ScheduleStart PROVE StageInv'
<1> DEFINE r == [k |-> "start"]
           w == D!Schedule(D!State, r)
           rs == Append(drequests, r)
<1>1. r \in Request /\ r.k = "start"
  BY DEF Request
<1>2. D!Becomes(w) /\ dapp = "schedule" /\ dapp' = "idle"
  BY DEF D!ScheduleStart
<1> HIDE DEF r
<1>3. /\ Typed(w) /\ w.service = dservice /\ w.sendQ = dsendQ /\ w.sends = dsends
      /\ w.requests = rs /\ "request" \in w.signalled
  <2>1. Typed(D!State)
    BY StageStates
  <2>2. /\ Typed(w) /\ w.service = D!State.service /\ w.sendQ = D!State.sendQ /\ w.sends = D!State.sends
        /\ w.requests = Append(D!State.requests, r) /\ w.signalled = D!State.signalled \cup {"request"}
    BY <1>1, <2>1, ScheduleIs
  <2> HIDE DEF w
  <2> QED BY <2>2, StageStates
<1> HIDE DEF w
<1>4. ~Asks(rs, 0, "destroy")
  <2>1. ~Asks(drequests, 0, "destroy")
    BY <1>2, NotDone DEF Before
  <2>2. drequests \in Seq(Request)
    BY StageStates
  <2>3. \A i \in DOMAIN rs : (i \in DOMAIN drequests /\ rs[i] = drequests[i]) \/ rs[i] = r
    BY <1>1, <2>2
  <2> HIDE DEF rs
  <2> QED BY <1>1, <2>1, <2>2, <2>3 DEF Asks
<1>5. Goodbyes(w) = {} /\ ~Sends(w, "goodbye") /\ Up(w.service) /\ ~w.service.destroying
  BY <1>2, <1>3, NotDone, StageStates DEF Goodbyes, Pool, Sends
<1> HIDE DEF rs
<1>6. Staged(w) /\ ~Late(w)
  BY <1>3, <1>4, <1>5 DEF Staged, Stage, Before, Late
<1>7. D!State' = w /\ dservice' = w.service
  BY <1>2, <1>3, StateIs DEF D!Becomes
<1> QED BY <1>2, <1>5, <1>6, <1>7, StageNext

LEMMA DestroyServiceStage ==
    ASSUME ToldInv, StageInv, NEW refused \in BOOLEAN, D!DestroyDiscoveryService(refused) PROVE StageInv'
<1> DEFINE v == [dservice EXCEPT !.destroying = TRUE]
           t == [D!State EXCEPT !.service = v]
           r == [k |-> "destroy"]
           m == D!Message(t, "goodbye", NULL)
           q == Append(t.sendQ, m)
           a == [t EXCEPT !.sendQ = q]
           b == D!Schedule(t, r)
           c == D!Signal(a, "pubs")
           rs == Append(drequests, r)
<1>1. dservice \in ServiceType /\ D!State.service = dservice /\ drequests \in Seq(Request)
  BY StageStates, Parts
<1>2. (IF refused THEN D!Becomes(b) ELSE D!Becomes(c)) /\ dapp = "idle" /\ dapp' = "done"
  <2>1. t = [D!State EXCEPT !.service.destroying = TRUE]
    BY DEF D!State
  <2> HIDE DEF t
  <2>2. [t EXCEPT !.sendQ = Append(@, m)] = a
    BY DEF a, q
  <2> HIDE DEF m, a
  <2> QED BY <2>1, <2>2, Zenon DEF D!DestroyDiscoveryService, m, r, b, c
<1>3. v \in ServiceType /\ Up(v) /\ v.destroying = TRUE
  BY <1>1, <1>2, NotDone DEF ServiceType, Up
<1> HIDE DEF v
<1>4. /\ Typed(t) /\ t.service = v /\ t.sends = dsends /\ t.sendQ = dsendQ
      /\ t.requests = drequests /\ t.signalled = dsignalled
  BY <1>3, StageStates, ServiceOf
<1> HIDE DEF t
<1>5. /\ Goodbyes(D!State) = {} /\ ~Sends(D!State, "goodbye") /\ ~Asks(drequests, 0, "destroy")
      /\ Asks(drequests, 0, "start") => "request" \in dsignalled
  BY <1>2, NotDone, StageStates DEF Before
\* The goodbye cannot be queued: a request takes its place.
<1>6. CASE refused
  <2>1. r \in Request /\ r.k = "destroy"
    BY DEF Request
  <2>2. D!Becomes(b)
    BY <1>2, <1>6
  <2> HIDE DEF r
  <2>3. /\ Typed(b) /\ b.service = v /\ b.sendQ = dsendQ /\ b.sends = dsends
        /\ b.requests = rs /\ "request" \in b.signalled
    BY <1>4, <2>1, ScheduleIs
  <2> HIDE DEF b
  <2>4. Len(drequests) + 1 \in DOMAIN rs /\ LastAsk(rs, 0, Len(drequests) + 1)
    <3>1. /\ DOMAIN rs = 1 .. Len(drequests) + 1 /\ Len(drequests) \in Nat
          /\ DOMAIN drequests = 1 .. Len(drequests)
          /\ rs[Len(drequests) + 1] = r /\ \A i \in DOMAIN drequests : rs[i] = drequests[i]
      BY <1>1, <2>1
    <3> HIDE DEF rs
    <3> QED BY <1>5, <2>1, <3>1 DEF LastAsk, Asks
  <2>5. Goodbyes(b) = {} /\ ~Sends(b, "goodbye")
    BY <1>5, <2>3, StageStates DEF Goodbyes, Pool, Sends
  <2> HIDE DEF rs
  <2>6. Requested(b, rs, 0)
    BY <1>3, <2>3, <2>4, <2>5 DEF Requested
  <2>7. Staged(b) /\ ~Late(b)
    BY <2>3, <2>5, <2>6 DEF Staged, Stage, Late
  <2>8. D!State' = b /\ dservice' = b.service
    BY <2>2, <2>3, StateIs DEF D!Becomes
  <2> QED BY <1>2, <1>3, <2>3, <2>7, <2>8, StageNext
<1>7. CASE ~refused
  <2>1. NULL \in D!Maybe(D!Buffers)
    BY DEF D!Maybe
  <2>2. m \in Message /\ m.kind = "goodbye"
    BY <1>4, <2>1, MessageType
  <2>3. D!Becomes(c)
    BY <1>2, <1>7
  <2> HIDE DEF m
  <2>4. q \in Seq(Message) /\ D!ToSet(q) = D!ToSet(dsendQ) \cup {m}
    <3>1. dsendQ \in Seq(Message)
      BY StageStates, Parts
    <3>2. /\ DOMAIN q = 1 .. Len(dsendQ) + 1 /\ DOMAIN dsendQ = 1 .. Len(dsendQ) /\ Len(dsendQ) \in Nat
          /\ \A i \in DOMAIN dsendQ : q[i] = dsendQ[i]
          /\ q[Len(dsendQ) + 1] = m /\ q \in Seq(Message)
      BY <1>4, <2>2, <3>1
    <3> HIDE DEF q
    <3>3. D!ToSet(q) \subseteq D!ToSet(dsendQ) \cup {m}
      BY <3>2 DEF D!ToSet
    <3>4. D!ToSet(dsendQ) \subseteq D!ToSet(q) /\ m \in D!ToSet(q)
      BY <3>2 DEF D!ToSet
    <3> QED BY <3>2, <3>3, <3>4
  <2> HIDE DEF q
  <2>5. /\ Typed(a) /\ a.service = v /\ a.sends = dsends /\ a.sendQ = q
        /\ a.requests = drequests /\ a.signalled = dsignalled
    BY <1>4, <2>4 DEF Typed, StateType
  <2> HIDE DEF a
  <2>6. /\ Typed(c) /\ c.service = v /\ c.sends = dsends /\ c.sendQ = q
        /\ c.requests = drequests /\ dsignalled \subseteq c.signalled
    BY <2>5, SignalIs
  <2> HIDE DEF c
  <2>7. Goodbyes(c) = {m} /\ ~Sends(c, "goodbye")
    BY <1>5, <2>2, <2>4, <2>6, StageStates DEF Goodbyes, Pool, Sends
  <2>8. Leaving(c, drequests, 0)
    BY <1>3, <1>5, <2>6, <2>7 DEF Leaving
  <2>9. Staged(c) /\ ~Late(c)
    BY <1>5, <2>6, <2>7, <2>8 DEF Staged, Stage, Late
  <2>10. D!State' = c /\ dservice' = c.service
    BY <2>3, <2>6, StateIs DEF D!Becomes
  <2> QED BY <1>2, <1>3, <2>6, <2>9, <2>10, StageNext
<1> QED BY <1>6, <1>7

LEMMA StageInit == ASSUME D!Init PROVE StageInv
<1>1. /\ dservice.st = "live" /\ dservice.destroyed = 0 /\ dservice.timer = "none" /\ dservice.sub = "created"
      /\ dservice.pub = "listed" /\ dservice.destroying = FALSE /\ dapp = "idle"
      /\ dsendQ = <<>> /\ dsends = {} /\ drequests = <<>>
  BY DEF D!Init
<1>2. Goodbyes(D!State) = {} /\ ~Sends(D!State, "goodbye")
  BY <1>1 DEF Goodbyes, Pool, Sends, D!State, D!ToSet
<1>3. \A what : ~Asks(drequests, 0, what)
  BY <1>1 DEF Asks
<1>4. Before(D!State, drequests, 0)
  BY <1>1, <1>2, <1>3 DEF Before, Up, D!State
<1>5. Staged(D!State)
  BY <1>3, <1>4 DEF Staged, Stage, D!State
<1> QED BY <1>1, <1>2, <1>5 DEF StageInv, Late

LEMMA StageStep ==
    ASSUME ToldInv, BooksInv, StageInv, D!Next PROVE StageInv'
\* A pass that stops before the requests goes on.
<1>1. ASSUME D!SendPubs \/ D!FreeTask PROVE StageInv'
  <2>1. Staged(D!State') /\ dservice'.destroying = dservice.destroying
    BY <1>1, SendPubsStage, FreeTaskStage
  <2>2. PICK a \in {"pubs", "free"} : D!Visit(a)
    BY <1>1 DEF D!SendPubs, D!FreeTask
  <2>3. Typed(D!State') /\ D!State'.signalled = dsignalled' /\ D!State'.requests = drequests'
    BY <1>1, SendPubsKeeps, FreeTaskKeeps DEF Told, D!State
  <2>4. dsignalled' \subseteq {"pubs", "free", "request"}
    BY <2>3 DEF Typed, StateType
  <2>5. dapp' = dapp /\ ("request" \in dsignalled' => dpass' # 0)
    BY <2>2, <2>4, VisitIs, Positions
  <2>6. Late(D!State') => dpass' # 0
    BY <2>1, <2>3, <2>5 DEF Late, Staged
  <2>7. dservice.destroying <=> dapp = "done"
    BY DEF StageInv
  <2> QED BY <2>1, <2>5, <2>6, <2>7, StageNext
<1>2. ASSUME D!RunRequests PROVE StageInv'
  <2>1. Staged(D!State') /\ dservice'.destroying = dservice.destroying /\ drequests' = <<>>
    BY <1>2, RunRequestsStage
  <2>2. ~Late(D!State')
    BY <2>1 DEF Late, Asks, D!State
  <2>3. dapp' = dapp
    BY <1>2 DEF D!RunRequests, D!Visit
  <2>4. dservice.destroying <=> dapp = "done"
    BY DEF StageInv
  <2> QED BY <2>1, <2>2, <2>3, <2>4, StageNext
<1>3. ASSUME D!TimerClosed \/ D!PublishTimerOnTimeout \/ D!Replies \/ (\E x \in dsends : D!SendComplete(x))
             \/ (\E m \in Discovered, linked, sent \in BOOLEAN : D!Receive(m, linked, sent))
      PROVE  StageInv'
  <2>1. BetweenStage
    BY <1>3, TimerClosedStage, HelloStage, GoodbyeEnds, SendEnds, ReceiveStage, LinkCbStage, AckTimerStage
       DEF D!Replies
  <2>2. dpass' = dpass /\ dapp' = dapp
    BY <1>3 DEF D!Between, D!TimerClosed, D!PublishTimerOnTimeout, D!Replies, D!LinkCb, D!AckTimerOnTimeout,
                D!SendComplete, D!Receive
  <2>3. (Late(D!State) => dpass # 0) /\ (dservice.destroying <=> dapp = "done")
    BY DEF StageInv
  <2>4. /\ Staged(D!State') /\ dservice'.destroying = dservice.destroying
        /\ Late(D!State') => Late(D!State)
    BY <2>1, Zenon DEF BetweenStage
  <2> QED BY <2>2, <2>3, <2>4, StageNext
<1>4. ASSUME D!Application PROVE StageInv'
  BY <1>4, SubscribeStage, ReplacePayloadStage, ScheduleStartStage, DestroyServiceStage DEF D!Application
<1> QED BY <1>1, <1>2, <1>3, <1>4 DEF D!Next, D!LoopWork

LEMMA StageStutter == ASSUME StageInv, UNCHANGED dVars PROVE StageInv'
<1>1. D!State' = D!State /\ dpass' = dpass /\ dapp' = dapp /\ dservice' = dservice
  BY DEF D!State, dVars
<1>2. Staged(D!State) /\ (Late(D!State) => dpass # 0) /\ (dservice.destroying <=> dapp = "done")
  BY DEF StageInv
<1> QED BY <1>1, <1>2, StageNext

LEMMA StageHolds == ASSUME ToldInv, StageInv PROVE D!NothingDangles
<1>1. Stage(D!State, drequests, 0)
  BY StageStates
<1>2. dservice.destroyed <= 1
  BY <1>1, StageStates DEF Stage, Before, Leaving, Requested, Undone, Underway, Up, Ending, Gone
<1>3. ASSUME dservice.st = "freed"
      PROVE  /\ dservice.timer = "none" /\ dservice.sub = "gone" /\ dservice.pub = "gone"
             /\ \A i \in DOMAIN drequests :
                    drequests[i].k = "ack" \/ (drequests[i].k = "start" /\ dservice.refused)
             /\ \A x \in dsends \cup D!ToSet(dsendQ) : x.kind = "ack"
             /\ \A m \in Discovered : ~drx[m].ackSvc /\ ~drx[m].linkSvc
  <2>1. Undone(D!State, drequests, 0) /\ Gone(dservice) /\ OnlyAcks(D!State) /\ dsendQ = <<>> /\ Forgotten(D!State)
    BY <1>1, <1>3, StageStates DEF Stage, Before, Leaving, Requested, Undone, Underway, Up, Ending
  <2>2. \A i \in DOMAIN drequests :
           drequests[i].k = "ack" \/ (drequests[i].k = "start" /\ dservice.refused)
    <3> SUFFICES ASSUME NEW i \in DOMAIN drequests
                 PROVE  drequests[i].k = "ack" \/ (drequests[i].k = "start" /\ dservice.refused)
      OBVIOUS
    <3>1. drequests[i] \in Request /\ i > 0
      BY StageStates
    <3>2. drequests[i].k \in {"start", "ack", "destroy"}
      BY <3>1 DEF Request
    <3>3. ~Asks(drequests, 0, "destroy") /\ (Asks(drequests, 0, "start") => dservice.refused)
      BY <2>1, StageStates DEF Undone
    <3> QED BY <3>1, <3>2, <3>3 DEF Asks
  <2>3. \A x \in dsends \cup D!ToSet(dsendQ) : x.kind = "ack"
    BY <2>1, StageStates DEF OnlyAcks, D!ToSet
  <2> QED BY <2>1, <2>2, <2>3, StageStates DEF Gone, Forgotten
<1> QED BY <1>2, <1>3 DEF D!NothingDangles

--------------------------------------------------------------------------------
(* All services. *)

\* Each message that DPS_DiscoverySend has in flight is in one place and holds one
\* reference to its payload, whatever is refused.
THEOREM BooksInductive == Spec => []BooksInv
<1>1. Init => BooksInv
  BY BooksInit DEF Init
<1>2. ServicesInv /\ BooksInv /\ [Next]_vars => BooksInv'
  <2> SUFFICES ASSUME ServicesInv, BooksInv, [Next]_vars PROVE BooksInv'
    OBVIOUS
  <2>1. D!Next \/ UNCHANGED dVars
    BY Zenon DEF Next, vars
  <2> QED BY <2>1, BooksStep, BooksStutter DEF ServicesInv
<1> QED BY <1>1, <1>2, ServicesInductive, PTL DEF Spec

\* A payload has one reference for each message that carries it and one for the service
\* that will carry it again, and is freed with the last (SharedBufferIncRef,
\* SharedBufferDecRef), also where a goodbye is refused and the service destroyed at once.
THEOREM PayloadCountedHolds == Spec => []D!PayloadCounted
<1> QED BY BooksHold, BooksInductive, PTL

\* A service takes itself apart in one order, whether its goodbye is sent, refused when it is
\* multicast, or cannot even be queued.
THEOREM StageInductive == Spec => []StageInv
<1>1. Init => StageInv
  BY StageInit DEF Init
<1>2. ServicesInv /\ BooksInv /\ StageInv /\ [Next]_vars => StageInv'
  <2> SUFFICES ASSUME ServicesInv, BooksInv, StageInv, [Next]_vars PROVE StageInv'
    OBVIOUS
  <2>1. D!Next \/ UNCHANGED dVars
    BY Zenon DEF Next, vars
  <2> QED BY <2>1, StageStep, StageStutter DEF ServicesInv
<1> QED BY <1>1, <1>2, ServicesInductive, BooksInductive, PTL DEF Spec

\* A payload is freed with the last message that carries it (SharedBufferDecRef), and a
\* discovery service once, when no request, timer, publication, link or delayed
\* acknowledgement reads it any more (Destroy, called by the callback of each thing it
\* destroyed), but for a request to start the timer where the goodbye was refused at once.
THEOREM NoneDanglingHolds == Spec => []NoneDangling
<1>1. ServicesInv /\ BooksInv /\ StageInv => NoneDangling
  BY BooksHold, StageHolds DEF ServicesInv, NoneDangling
<1> QED BY <1>1, ServicesInductive, BooksInductive, StageInductive, PTL

================================================================================
