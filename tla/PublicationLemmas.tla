-------------------------- MODULE PublicationLemmas ----------------------------
(***************************************************************************)
(* Lemmas about the operators of Publications, for any publications,       *)
(* requests, remotes and scenarios. Good(t, h, n) says of a state t that a *)
(* request is in one place at a time, and that its reference count is what *)
(* refers to it: the queue of its publication, each send of it that has    *)
(* not completed, and the frames of the loop that have counted a reference *)
(* (h). n counts the frames, and the application's thread, that use a      *)
(* request without one: DPS_UpdatePubs between the locks of its walk,      *)
(* DPS_DecodePublication until it queues it, and DPS_PublishBufs until it  *)
(* does. An operation on publications, on queues or on the net moves       *)
(* references from one place to another, and keeps Good. Inv adds what the *)
(* loop's stack may look like, and what each of its frames relies on.      *)
(***************************************************************************)
EXTENDS Publications, FiniteSetTheorems, SequenceTheorems, TLAPS

--------------------------------------------------------------------------------
(* Counting. *)

\* How often a sequence holds a member of a set.
CountIn(q, S) == Cardinality({i \in DOMAIN q : q[i] \in S})

LEMMA CountType == ASSUME NEW T, NEW q \in Seq(T), NEW S
                   PROVE  IsFiniteSet({i \in DOMAIN q : q[i] \in S}) /\ CountIn(q, S) \in Nat
<1>1. DOMAIN q = 1 .. Len(q) /\ Len(q) \in Nat
  OBVIOUS
<1>2. IsFiniteSet(1 .. Len(q))
  BY <1>1, FS_Interval
<1>3. {i \in DOMAIN q : q[i] \in S} \in SUBSET (1 .. Len(q))
  BY <1>1
<1>4. IsFiniteSet({i \in DOMAIN q : q[i] \in S})
  BY <1>2, <1>3, FS_Subset
<1> QED BY <1>4, FS_CardinalityType DEF CountIn

LEMMA CountCat ==
    ASSUME NEW T, NEW q \in Seq(T), NEW w \in Seq(T), NEW S
    PROVE  CountIn(q \o w, S) = CountIn(q, S) + CountIn(w, S)
<1> DEFINE n == Len(q)
           l == q \o w
           A == {i \in DOMAIN q : q[i] \in S}
           B == {i \in DOMAIN w : w[i] \in S}
           C == {i \in n + 1 .. n + Len(w) : l[i] \in S}
           f == [i \in B |-> n + i]
<1>1. /\ n \in Nat /\ Len(w) \in Nat /\ DOMAIN q = 1 .. n /\ DOMAIN w = 1 .. Len(w) /\ l \in Seq(T)
      /\ DOMAIN l = 1 .. n + Len(w)
  OBVIOUS
<1>2. (\A i \in 1 .. n : l[i] = q[i]) /\ \A i \in 1 .. Len(w) : l[n + i] = w[i]
  OBVIOUS
<1> HIDE DEF l
<1>3. {i \in DOMAIN l : l[i] \in S} = A \cup C /\ A \cap C = {}
  BY <1>1, <1>2
<1>4. IsFiniteSet(A) /\ IsFiniteSet(B)
  BY CountType
<1>5. f \in [B -> C]
  BY <1>1, <1>2
<1>6. \A i, j \in B : f[i] = f[j] => i = j
  BY <1>1
<1>7. ASSUME NEW c \in C PROVE \E i \in B : f[i] = c
  <2>1. c - n \in 1 .. Len(w) /\ n + (c - n) = c
    BY <1>1
  <2>2. c - n \in B
    BY <1>1, <1>2, <2>1
  <2> QED BY <2>1, <2>2
<1> HIDE DEF A, B, C, f
<1>8. ExistsBijection(B, C)
  BY <1>5, <1>6, <1>7, Zenon DEF ExistsBijection, Bijection, Injection, IsInjective, Surjection
<1>9. IsFiniteSet(C) /\ Cardinality(C) = Cardinality(B)
  BY <1>4, <1>8, FS_Bijection
<1>10. Cardinality(A \cup C) = Cardinality(A) + Cardinality(C) - Cardinality({})
  BY <1>3, <1>4, <1>9, FS_Union
<1>11. Cardinality({}) = 0 /\ Cardinality(A) \in Nat /\ Cardinality(B) \in Nat
  BY <1>4, FS_EmptySet, FS_CardinalityType
<1>12. Cardinality(A \cup C) = Cardinality(A) + Cardinality(B)
  BY <1>9, <1>10, <1>11
<1> QED BY <1>3, <1>12 DEF CountIn, A, B, l

LEMMA CountOne == ASSUME NEW e, NEW S PROVE CountIn(<<e>>, S) = IF e \in S THEN 1 ELSE 0
<1> DEFINE A == {i \in DOMAIN <<e>> : <<e>>[i] \in S}
<1>1. A = IF e \in S THEN {1} ELSE {}
  OBVIOUS
<1>2. Cardinality({1}) = 1 /\ Cardinality({}) = 0
  BY FS_Singleton, FS_EmptySet
<1> HIDE DEF A
<1>3. Cardinality(A) = IF e \in S THEN 1 ELSE 0
  BY <1>1, <1>2
<1> QED BY <1>3 DEF CountIn, A

LEMMA CountNone == \A S : CountIn(<<>>, S) = 0
BY FS_EmptySet DEF CountIn

LEMMA CountSome ==
    ASSUME NEW T, NEW q \in Seq(T), NEW S
    PROVE  CountIn(q, S) # 0 <=> \E i \in 1 .. Len(q) : q[i] \in S
<1>1. IsFiniteSet({i \in DOMAIN q : q[i] \in S})
  BY CountType
<1>2. CountIn(q, S) = 0 <=> {i \in DOMAIN q : q[i] \in S} = {}
  BY <1>1, FS_EmptySet DEF CountIn
<1>3. DOMAIN q = 1 .. Len(q)
  OBVIOUS
<1> QED BY <1>2, <1>3

\* How often x is in a queue.
LEMMA OccursIs == \A x, q : Occurs(x, q) = CountIn(q, {x})
<1> TAKE x, q
<1>1. {i \in DOMAIN q : q[i] = x} = {i \in DOMAIN q : q[i] \in {x}}
  OBVIOUS
<1> QED BY <1>1 DEF Occurs, CountIn

LEMMA OccursType == ASSUME NEW T, NEW q \in Seq(T), NEW x PROVE Occurs(x, q) \in Nat
BY CountType, OccursIs
LEMMA OccursCat ==
    ASSUME NEW T, NEW q \in Seq(T), NEW w \in Seq(T), NEW x
    PROVE  Occurs(x, q \o w) = Occurs(x, q) + Occurs(x, w)
<1>1. CountIn(q \o w, {x}) = CountIn(q, {x}) + CountIn(w, {x})
  BY CountCat
<1> QED BY <1>1, OccursIs, Zenon
LEMMA OccursOne == \A e, x : Occurs(x, <<e>>) = IF e = x THEN 1 ELSE 0
<1> TAKE e, x
<1>1. CountIn(<<e>>, {x}) = IF e \in {x} THEN 1 ELSE 0
  BY CountOne, Zenon
<1> QED BY <1>1, OccursIs
LEMMA OccursNone == \A x : Occurs(x, <<>>) = 0
BY CountNone, OccursIs, Zenon
LEMMA OccursSome ==
    ASSUME NEW T, NEW q \in Seq(T), NEW x
    PROVE  Occurs(x, q) # 0 <=> \E i \in 1 .. Len(q) : q[i] = x
<1>1. CountIn(q, {x}) # 0 <=> \E i \in 1 .. Len(q) : q[i] \in {x}
  BY CountSome
<1> QED BY <1>1, OccursIs
LEMMA OccursAppend ==
    ASSUME NEW T, NEW q \in Seq(T), NEW e \in T, NEW x
    PROVE  Occurs(x, Append(q, e)) = Occurs(x, q) + IF e = x THEN 1 ELSE 0
<1>1. Append(q, e) = q \o <<e>> /\ <<e>> \in Seq(T)
  OBVIOUS
<1>2. Occurs(x, q \o <<e>>) = Occurs(x, q) + Occurs(x, <<e>>)
  BY <1>1, OccursCat
<1> QED BY <1>1, <1>2, OccursOne
LEMMA OccursTail ==
    ASSUME NEW T, NEW q \in Seq(T), q # <<>>, NEW x
    PROVE  /\ Head(q) \in T /\ Tail(q) \in Seq(T)
           /\ Occurs(x, q) = Occurs(x, Tail(q)) + IF Head(q) = x THEN 1 ELSE 0
<1>1. q = <<Head(q)>> \o Tail(q) /\ <<Head(q)>> \in Seq(T) /\ Tail(q) \in Seq(T) /\ Head(q) \in T
  OBVIOUS
<1>2. Occurs(x, <<Head(q)>> \o Tail(q)) = Occurs(x, <<Head(q)>>) + Occurs(x, Tail(q))
  BY <1>1, OccursCat
<1>3. Occurs(x, Tail(q)) \in Nat
  BY <1>1, OccursType
<1>4. Occurs(x, q) = Occurs(x, <<Head(q)>>) + Occurs(x, Tail(q))
  BY <1>1, <1>2, Zenon
<1> QED BY <1>1, <1>3, <1>4, OccursOne

--------------------------------------------------------------------------------
(* Messages on the net, each as often as it was sent. *)

Message == [kind : {"pub"}, of : Reqs, dest : Remotes \cup {"multicast"}]
           \cup [kind : {"ack"}, of : Acks, dest : Sources \cup {NULL}] \cup [kind : {"fwd"}, of : PubIds, dest : Sources]
CopiesOf(b) == UNION {{m} \X (1 .. b[m]) : m \in BagToSet(b)}
Weigh(b, S) == Cardinality({c \in CopiesOf(b) : c[1] \in S})
IsNet(b) == DOMAIN b \in SUBSET Message /\ b \in [DOMAIN b -> Nat \ {0}] /\ IsFiniteSet(CopiesOf(b))

LEMMA CopyIs == \A b, c : c \in CopiesOf(b) <=> \E m \in DOMAIN b : \E k \in 1 .. b[m] : c = <<m, k>>
BY DEF CopiesOf, BagToSet

LEMMA WeighType == ASSUME NEW b, IsNet(b), NEW S
                   PROVE  IsFiniteSet({c \in CopiesOf(b) : c[1] \in S}) /\ Weigh(b, S) \in Nat
<1>1. {c \in CopiesOf(b) : c[1] \in S} \in SUBSET CopiesOf(b)
  OBVIOUS
<1>2. IsFiniteSet({c \in CopiesOf(b) : c[1] \in S})
  BY <1>1, FS_Subset DEF IsNet
<1> QED BY <1>2, FS_CardinalityType DEF Weigh

LEMMA NetAdd ==
    ASSUME NEW b, IsNet(b), NEW m \in Message
    PROVE  /\ IsNet(b (+) SetToBag({m}))
           /\ \A S : Weigh(b (+) SetToBag({m}), S) = Weigh(b, S) + IF m \in S THEN 1 ELSE 0
           /\ DOMAIN (b (+) SetToBag({m})) = DOMAIN b \cup {m}
<1> DEFINE n == IF m \in DOMAIN b THEN b[m] ELSE 0
           a == b (+) SetToBag({m})
           new == <<m, n + 1>>
<1>1. DOMAIN a = DOMAIN b \cup {m} /\ DOMAIN b \in SUBSET Message /\ b \in [DOMAIN b -> Nat \ {0}]
  BY DEF IsNet, SetToBag, BagToSet, (+)
<1>2. n \in Nat
  BY <1>1
<1>3. a[m] = n + 1
  BY DEF SetToBag, BagToSet, (+)
<1>4. \A e \in DOMAIN b : e # m => a[e] = b[e]
  BY <1>1 DEF SetToBag, BagToSet, (+)
<1>5. a = [e \in DOMAIN a |-> a[e]]
  BY DEF SetToBag, BagToSet, (+)
<1> HIDE DEF a
<1>6. a \in [DOMAIN a -> Nat \ {0}]
  <2>1. \A e \in DOMAIN a : a[e] \in Nat \ {0}
    BY <1>1, <1>2, <1>3, <1>4
  <2> QED BY <1>5, <2>1, Zenon
<1>7. CopiesOf(a) = CopiesOf(b) \cup {new}
  <2>1. ASSUME NEW c, c \in CopiesOf(a) PROVE c \in CopiesOf(b) \cup {new}
    <3>0. PICK e \in DOMAIN a : \E k \in 1 .. a[e] : c = <<e, k>>
      BY <2>1, CopyIs
    <3>1. PICK k \in 1 .. a[e] : c = <<e, k>>
      BY <3>0
    <3>2. CASE e # m
      BY <1>1, <1>4, <3>1, <3>2, CopyIs
    <3>3. CASE e = m /\ k = n + 1
      BY <3>1, <3>3
    <3>4. CASE e = m /\ k # n + 1
      <4>1. k \in 1 .. n
        BY <1>2, <1>3, <3>1, <3>4
      <4>2. m \in DOMAIN b /\ n = b[m]
        BY <4>1
      <4> QED BY <3>1, <3>4, <4>1, <4>2, CopyIs
    <3> QED BY <3>2, <3>3, <3>4
  <2>2. ASSUME NEW c, c \in CopiesOf(b) PROVE c \in CopiesOf(a)
    <3>0. PICK e \in DOMAIN b : \E k \in 1 .. b[e] : c = <<e, k>>
      BY <2>2, CopyIs
    <3>1. PICK k \in 1 .. b[e] : c = <<e, k>>
      BY <3>0
    <3>2. k \in 1 .. a[e]
      <4>1. CASE e = m
        BY <1>2, <1>3, <3>1, <4>1
      <4>2. CASE e # m
        BY <1>4, <3>1, <4>2
      <4> QED BY <4>1, <4>2
    <3> QED BY <1>1, <3>1, <3>2, CopyIs
  <2>3. new \in CopiesOf(a)
    <3>1. m \in DOMAIN a /\ n + 1 \in 1 .. a[m]
      BY <1>1, <1>2, <1>3
    <3> QED BY <3>1, CopyIs
  <2> QED BY <2>1, <2>2, <2>3
<1>8. new \notin CopiesOf(b)
  <2>1. ASSUME NEW e, e \in DOMAIN b, NEW k, k \in 1 .. b[e], new = <<e, k>> PROVE FALSE
    <3>1. e = m /\ k = n + 1
      BY <2>1
    <3> QED BY <1>2, <2>1, <3>1
  <2> QED BY <2>1, CopyIs, Zenon
<1>9. IsFiniteSet(CopiesOf(a))
  <2>1. IsFiniteSet(CopiesOf(b))
    BY DEF IsNet
  <2>2. IsFiniteSet(CopiesOf(b) \cup {new})
    BY <2>1, FS_AddElement
  <2> QED BY <1>7, <2>2
<1>10. ASSUME NEW S PROVE Weigh(a, S) = Weigh(b, S) + IF m \in S THEN 1 ELSE 0
  <2> DEFINE A == {c \in CopiesOf(b) : c[1] \in S}
  <2>1. IsFiniteSet(A) /\ Cardinality(A) \in Nat
    BY WeighType DEF Weigh
  <2>2. new[1] = m
    OBVIOUS
  <2>3. {c \in CopiesOf(a) : c[1] \in S} = IF m \in S THEN A \cup {new} ELSE A
    BY <1>7, <2>2
  <2>4. new \notin A
    BY <1>8
  <2> HIDE DEF A, new
  <2>5. Cardinality(A \cup {new}) = Cardinality(A) + 1
    BY <2>1, <2>4, FS_AddElement
  <2>6. Weigh(a, S) = Cardinality({c \in CopiesOf(a) : c[1] \in S}) /\ Weigh(b, S) = Cardinality(A)
    BY Zenon DEF Weigh, A
  <2>7. Cardinality({c \in CopiesOf(a) : c[1] \in S}) = Cardinality(A) + IF m \in S THEN 1 ELSE 0
    <3>1. CASE m \in S
      <4>1. {c \in CopiesOf(a) : c[1] \in S} = A \cup {new}
        BY <2>3, <3>1, Zenon
      <4> QED BY <2>5, <3>1, <4>1
    <3>2. CASE m \notin S
      <4>1. {c \in CopiesOf(a) : c[1] \in S} = A
        BY <2>3, <3>2, Zenon
      <4> QED BY <2>1, <3>2, <4>1
    <3> QED BY <3>1, <3>2
  <2> QED BY <2>6, <2>7
<1>11. IsNet(a)
  BY <1>1, <1>6, <1>9 DEF IsNet
<1> QED BY <1>1, <1>10, <1>11 DEF a

LEMMA NetDrop ==
    ASSUME NEW b, IsNet(b), NEW m \in DOMAIN b
    PROVE  /\ IsNet(b (-) SetToBag({m})) /\ DOMAIN (b (-) SetToBag({m})) \subseteq DOMAIN b
           /\ \A S : Weigh(b, S) = Weigh(b (-) SetToBag({m}), S) + IF m \in S THEN 1 ELSE 0
<1> DEFINE n == b[m]
           a == b (-) SetToBag({m})
           old == <<m, n>>
<1>1. DOMAIN b \in SUBSET Message /\ b \in [DOMAIN b -> Nat \ {0}] /\ n \in Nat \ {0}
  BY DEF IsNet
<1>2. DOMAIN a = {d \in DOMAIN b : d # m \/ n > 1}
  BY <1>1 DEF SetToBag, BagToSet, (-)
<1>3. m \in DOMAIN a => a[m] = n - 1
  BY <1>1 DEF SetToBag, BagToSet, (-)
<1>4. \A e \in DOMAIN a : e # m => a[e] = b[e]
  BY <1>1 DEF SetToBag, BagToSet, (-)
<1>5. a = [e \in DOMAIN a |-> a[e]]
  BY DEF SetToBag, BagToSet, (-)
<1> HIDE DEF a
<1>6. a \in [DOMAIN a -> Nat \ {0}]
  <2>1. \A e \in DOMAIN a : a[e] \in Nat \ {0}
    BY <1>1, <1>2, <1>3, <1>4
  <2> QED BY <1>5, <2>1, Zenon
<1>7. CopiesOf(a) = CopiesOf(b) \ {old}
  <2>1. ASSUME NEW c, c \in CopiesOf(a) PROVE c \in CopiesOf(b) \ {old}
    <3>0. PICK e \in DOMAIN a : \E k \in 1 .. a[e] : c = <<e, k>>
      BY <2>1, CopyIs
    <3>1. PICK k \in 1 .. a[e] : c = <<e, k>>
      BY <3>0
    <3>2. CASE e # m
      BY <1>2, <1>4, <3>1, <3>2, CopyIs
    <3>3. CASE e = m
      <4>1. k \in 1 .. b[e] /\ k # n
        BY <1>1, <1>3, <3>1, <3>3
      <4> QED BY <3>1, <3>3, <4>1, CopyIs
    <3> QED BY <3>2, <3>3
  <2>2. ASSUME NEW c, c \in CopiesOf(b), c # old PROVE c \in CopiesOf(a)
    <3>0. PICK e \in DOMAIN b : \E k \in 1 .. b[e] : c = <<e, k>>
      BY <2>2, CopyIs
    <3>1. PICK k \in 1 .. b[e] : c = <<e, k>>
      BY <3>0
    <3>2. CASE e # m
      BY <1>2, <1>4, <3>1, <3>2, CopyIs
    <3>3. CASE e = m
      <4>1. k \in 1 .. n - 1
        BY <1>1, <2>2, <3>1, <3>3
      <4>2. m \in DOMAIN a
        BY <1>1, <1>2, <4>1
      <4> QED BY <1>3, <3>1, <3>3, <4>1, <4>2, CopyIs
    <3> QED BY <3>2, <3>3
  <2> QED BY <2>1, <2>2
<1>8. old \in CopiesOf(b)
  <2>1. n \in 1 .. b[m]
    BY <1>1
  <2> QED BY <2>1, CopyIs
<1>9. IsFiniteSet(CopiesOf(a))
  <2>1. IsFiniteSet(CopiesOf(b))
    BY DEF IsNet
  <2>2. IsFiniteSet(CopiesOf(b) \ {old})
    BY <2>1, FS_RemoveElement
  <2> QED BY <1>7, <2>2
<1>10. ASSUME NEW S PROVE Weigh(b, S) = Weigh(a, S) + IF m \in S THEN 1 ELSE 0
  <2> DEFINE A == {c \in CopiesOf(b) : c[1] \in S}
  <2>1. IsFiniteSet(A) /\ Cardinality(A) \in Nat
    BY WeighType DEF Weigh
  <2>2. old[1] = m
    OBVIOUS
  <2>3. {c \in CopiesOf(a) : c[1] \in S} = A \ {old}
    BY <1>7
  <2>4. old \in A <=> m \in S
    BY <1>8, <2>2
  <2> HIDE DEF A, old
  <2>5. Cardinality(A \ {old}) = IF old \in A THEN Cardinality(A) - 1 ELSE Cardinality(A)
    BY <2>1, FS_RemoveElement
  <2>6. Weigh(a, S) = Cardinality(A \ {old}) /\ Weigh(b, S) = Cardinality(A)
    BY <2>3 DEF Weigh, A
  <2> QED BY <2>1, <2>4, <2>5, <2>6
<1>11. IsNet(a)
  BY <1>1, <1>2, <1>6, <1>9 DEF IsNet
<1> QED BY <1>2, <1>10, <1>11 DEF a

\* Only what is on the net counts.
LEMMA WeighSame == ASSUME NEW b, NEW S, NEW T, \A m \in DOMAIN b : m \in S <=> m \in T PROVE Weigh(b, S) = Weigh(b, T)
<1>1. \A c \in CopiesOf(b) : c[1] \in DOMAIN b
  BY CopyIs
<1>2. {c \in CopiesOf(b) : c[1] \in S} = {c \in CopiesOf(b) : c[1] \in T}
  BY <1>1
<1> QED BY <1>2 DEF Weigh
LEMMA WeighSome == ASSUME NEW b, IsNet(b), NEW S, NEW m \in DOMAIN b, m \in S PROVE Weigh(b, S) > 0
<1> DEFINE A == {c \in CopiesOf(b) : c[1] \in S}
<1>1. b[m] \in Nat \ {0}
  BY DEF IsNet
<1>2. <<m, 1>> \in CopiesOf(b)
  BY <1>1, CopyIs
<1>3. <<m, 1>> \in A
  BY <1>2
<1>4. IsFiniteSet(A) /\ Cardinality(A) \in Nat
  BY WeighType DEF Weigh
<1>5. Cardinality(A) # 0
  BY <1>3, <1>4, FS_EmptySet
<1> QED BY <1>4, <1>5 DEF Weigh
LEMMA WeighNone == ASSUME NEW b, IsNet(b), NEW S, \A m \in DOMAIN b : m \notin S PROVE Weigh(b, S) = 0
<1>1. \A c \in CopiesOf(b) : c[1] \in DOMAIN b
  BY CopyIs
<1>2. {c \in CopiesOf(b) : c[1] \in S} = {}
  BY <1>1
<1> QED BY <1>2, FS_EmptySet DEF Weigh
LEMMA EmptyNet == IsNet(EmptyBag) /\ DOMAIN EmptyBag = {}
<1>1. DOMAIN EmptyBag = {} /\ EmptyBag \in [{} -> Nat \ {0}]
  BY DEF EmptyBag, SetToBag
<1>2. CopiesOf(EmptyBag) = {}
  BY <1>1, CopyIs, Zenon
<1> QED BY <1>1, <1>2, FS_EmptySet DEF IsNet

--------------------------------------------------------------------------------
(* The state, typed. *)

Bodies == {"ok", "other_key", "bad_map", "bad_filter"}
PubType == [st : {"unused", "held", "listed", "freed", "gone"}, id : PubIds \cup {NULL}, flags : SUBSET Flags,
            refs : Int, seq : Int, ttl : Int, ackReq : BOOLEAN, from : Sources \cup {NULL},
            sendQ : Seq(Reqs), retQ : Seq(Reqs)]
ReqType == [st : {"unused", "live", "gone", "rejected"}, pub : Pubs \cup {NULL}, refs : Int, seq : Int, ttl : Int,
            expires : Int, status : {"NO_ROUTE", "OK", "FAILED"}, cb : BOOLEAN, rx : BOOLEAN, body : Bodies,
            calls : Int]
AckType == [st : {"unused", "live", "gone"}, pub : Pubs \cup {NULL}, seq : Int, dest : Sources \cup {NULL}]
SubType == [st : {"unused", "listed", "freed", "gone"}, refs : Int]
HistoryType == [PubIds -> [sn : Int, ackReq : BOOLEAN, from : [Sources -> Int]]]
AckMsg == [id : PubIds, seq : Nat \ {0}, from : Remotes]
PubMsg == [id : PubIds \cup {NULL}, seq : Int, ttl : Int, ackReq : BOOLEAN, from : Sources, body : Bodies]
Tasks == {"pubs", "acks", "free"}
Faults == {"request_refCount", "publication_refCount", "null_queue"}
StateType ==
    [scenario : Scenarios, publications : Seq(Pubs), freePubs : Seq(Pubs), subscriptions : Seq(Subs),
     freeSubs : Seq(Subs), ackQueue : Seq(Acks), pub : [Pubs -> PubType], req : [Reqs -> ReqType],
     ack : [Acks -> AckType], sub : [Subs -> SubType], async : SUBSET Tasks, timer : Int \cup {NULL},
     remotes : SUBSET Remotes, mcast : BOOLEAN, history : HistoryType,
     net : {b \in UNION {[D -> Nat \ {0}] : D \in SUBSET Message} : IsNet(b)}, acks : SUBSET AckMsg, rxRefs : Int,
     state : {"RUNNING", "STOPPING", "STOPPED"}, owned : SUBSET Pubs, budget : Int, fault : SUBSET Faults]

LEMMA NetIs == ASSUME NEW b, IsNet(b) PROVE b \in {a \in UNION {[D -> Nat \ {0}] : D \in SUBSET Message} : IsNet(a)}
BY DEF IsNet

LEMMA Parts ==
    ASSUME NEW t \in StateType
    PROVE  /\ t.scenario \in Scenarios /\ t.publications \in Seq(Pubs) /\ t.freePubs \in Seq(Pubs)
           /\ t.subscriptions \in Seq(Subs) /\ t.freeSubs \in Seq(Subs) /\ t.ackQueue \in Seq(Acks)
           /\ t.pub \in [Pubs -> PubType] /\ t.req \in [Reqs -> ReqType] /\ t.ack \in [Acks -> AckType]
           /\ t.sub \in [Subs -> SubType] /\ t.async \in SUBSET Tasks /\ t.timer \in Int \cup {NULL}
           /\ t.remotes \in SUBSET Remotes /\ t.mcast \in BOOLEAN /\ t.history \in HistoryType /\ IsNet(t.net)
           /\ t.acks \in SUBSET AckMsg /\ t.rxRefs \in Int /\ t.state \in {"RUNNING", "STOPPING", "STOPPED"}
           /\ t.owned \in SUBSET Pubs /\ t.budget \in Int /\ t.fault \in SUBSET Faults
BY DEF StateType

\* What an object is, of a state that is typed.
LEMMA PubParts ==
    ASSUME NEW o \in PubType
    PROVE  /\ o.st \in {"unused", "held", "listed", "freed", "gone"} /\ o.id \in PubIds \cup {NULL}
           /\ o.flags \in SUBSET Flags /\ o.refs \in Int /\ o.seq \in Int /\ o.ttl \in Int /\ o.ackReq \in BOOLEAN
           /\ o.from \in Sources \cup {NULL} /\ o.sendQ \in Seq(Reqs) /\ o.retQ \in Seq(Reqs)
BY DEF PubType
LEMMA ReqParts ==
    ASSUME NEW q \in ReqType
    PROVE  /\ q.st \in {"unused", "live", "gone", "rejected"} /\ q.pub \in Pubs \cup {NULL} /\ q.refs \in Int
           /\ q.seq \in Int /\ q.ttl \in Int /\ q.expires \in Int /\ q.status \in {"NO_ROUTE", "OK", "FAILED"}
           /\ q.cb \in BOOLEAN /\ q.rx \in BOOLEAN /\ q.body \in Bodies /\ q.calls \in Int
BY DEF ReqType

\* The parts of the state that publications, requests, acknowledgements and subscriptions live in:
\* what an operator on publications and requests leaves alone,
Apart(t, u) ==
    /\ u.scenario = t.scenario /\ u.subscriptions = t.subscriptions /\ u.freeSubs = t.freeSubs
    /\ u.ackQueue = t.ackQueue /\ u.ack = t.ack /\ u.sub = t.sub /\ u.net = t.net /\ u.state = t.state
    /\ u.owned = t.owned /\ u.history = t.history
\* and all of them.
Alike(t, u) ==
    /\ Apart(t, u) /\ u.publications = t.publications /\ u.freePubs = t.freePubs /\ u.pub = t.pub /\ u.req = t.req
    /\ u.fault = t.fault

LEMMA PutReq ==
    ASSUME NEW t \in StateType, NEW f \in [Reqs -> ReqType]
    PROVE  LET u == [t EXCEPT !.req = f]
           IN  /\ u \in StateType /\ Apart(t, u) /\ u.req = f /\ u.pub = t.pub /\ u.publications = t.publications
               /\ u.freePubs = t.freePubs /\ u.fault = t.fault /\ u.async = t.async /\ u.rxRefs = t.rxRefs
BY DEF StateType, Apart
LEMMA PutPub ==
    ASSUME NEW t \in StateType, NEW f \in [Pubs -> PubType]
    PROVE  LET u == [t EXCEPT !.pub = f]
           IN  /\ u \in StateType /\ Apart(t, u) /\ u.pub = f /\ u.req = t.req /\ u.publications = t.publications
               /\ u.freePubs = t.freePubs /\ u.fault = t.fault /\ u.async = t.async /\ u.rxRefs = t.rxRefs
BY DEF StateType, Apart
LEMMA PutRxRefs ==
    ASSUME NEW t \in StateType, NEW n \in Int PROVE [t EXCEPT !.rxRefs = n] \in StateType /\ Alike(t, [t EXCEPT !.rxRefs = n])
BY DEF StateType, Apart, Alike
LEMMA PutBudget ==
    ASSUME NEW t \in StateType, NEW n \in Int PROVE [t EXCEPT !.budget = n] \in StateType /\ Alike(t, [t EXCEPT !.budget = n])
BY DEF StateType, Apart, Alike
LEMMA PutAsync ==
    ASSUME NEW t \in StateType, NEW S \in SUBSET Tasks
    PROVE  [t EXCEPT !.async = S] \in StateType /\ Alike(t, [t EXCEPT !.async = S])
BY DEF StateType, Apart, Alike
LEMMA PutRemotes ==
    ASSUME NEW t \in StateType, NEW S \in SUBSET Remotes
    PROVE  [t EXCEPT !.remotes = S] \in StateType /\ Alike(t, [t EXCEPT !.remotes = S])
BY DEF StateType, Apart, Alike
LEMMA PutTimer ==
    ASSUME NEW t \in StateType, NEW n \in Int \cup {NULL}
    PROVE  [t EXCEPT !.timer = n] \in StateType /\ Alike(t, [t EXCEPT !.timer = n])
BY DEF StateType, Apart, Alike

LEMMA AsyncIs == ASSUME NEW t \in StateType, NEW a \in Tasks PROVE Async(t, a) \in StateType /\ Alike(t, Async(t, a))
<1>1. t.async \cup {a} \in SUBSET Tasks
  BY Parts
<1> QED BY <1>1, PutAsync DEF Async
LEMMA SendCompleteIs ==
    ASSUME NEW t \in StateType, NEW dest, NEW ok PROVE SendComplete(t, dest, ok) \in StateType /\ Alike(t, SendComplete(t, dest, ok))
<1>1. t.remotes \ {dest} \in SUBSET Remotes
  BY Parts
<1>2. [t EXCEPT !.remotes = t.remotes \ {dest}] \in StateType /\ Alike(t, [t EXCEPT !.remotes = t.remotes \ {dest}])
  BY <1>1, PutRemotes
<1>3. Alike(t, t)
  BY DEF Alike, Apart
<1> QED BY <1>2, <1>3 DEF SendComplete
LEMMA CheckIs == ASSUME NEW t, NEW cond, cond, NEW word PROVE Check(t, cond, word) = t
BY DEF Check

--------------------------------------------------------------------------------
(* Requests: who holds one.  A function of the loop's stack and of the application's *)
(* thread says how many frames have counted a reference (h), and how many use one    *)
(* that is theirs alone without a reference (n).                                     *)

Queue(t, p) == t.pub[p].sendQ \o t.pub[p].retQ
OfReq(r) == {m \in Message : m.kind = "pub" /\ m.of = r}
Queued(t, r, p) == Occurs(r, Queue(t, p))
Flying(t, r) == Weigh(t.net, OfReq(r))

ReqOK(t, h, n, r) ==
    LET q == t.req[r] IN
    /\ q.st = "unused" => q = NewReq /\ h[r] = 0 /\ n[r] = 0 /\ Flying(t, r) = 0
    /\ q.st # "unused" => /\ q.pub \in Pubs
                          /\ q.refs = Queued(t, r, q.pub) + Flying(t, r) + h[r]
                          /\ Queued(t, r, q.pub) + h[r] + n[r] <= 1
    /\ \A p \in Pubs : Queued(t, r, p) # 0 => q.st # "unused" /\ q.pub = p
    /\ q.refs > 0 \/ n[r] > 0 => q.st = "live"
    /\ q.calls = IF q.cb /\ q.st = "gone" THEN 1 ELSE 0

Counts(h) == h \in [Reqs -> Nat]
Good(t, h, n) ==
    /\ t \in StateType /\ Counts(h) /\ Counts(n) /\ "request_refCount" \notin t.fault
    /\ \A r \in Reqs : ReqOK(t, h, n, r)

\* What an operator on publications and requests leaves alone.
SameReq(q, w) ==
    /\ w.pub = q.pub /\ w.seq = q.seq /\ w.body = q.body /\ w.cb = q.cb
    /\ w.st = "unused" <=> q.st = "unused"
    /\ q.refs = 0 => w = q
SameQueues(o, w) == w.sendQ = o.sendQ /\ w.retQ = o.retQ
SamePub(o, w) ==
    /\ w.seq = o.seq /\ w.id = o.id /\ w.ackReq = o.ackReq
    /\ w.st = "unused" => o.st = "unused"
    /\ SameQueues(o, w) \/ (w.sendQ = <<>> /\ w.retQ = <<>>)
Kept(t, u) ==
    /\ Apart(t, u)
    /\ \A r \in Reqs : SameReq(t.req[r], u.req[r])
    /\ \A p \in Pubs : SamePub(t.pub[p], u.pub[p])

LEMMA KeptSelf == ASSUME NEW t, NEW u, Alike(t, u) PROVE Kept(t, u)
BY DEF Kept, Alike, SameReq, SamePub, SameQueues
LEMMA KeptTrans == ASSUME NEW t, NEW u, NEW v, Kept(t, u), Kept(u, v) PROVE Kept(t, v)
<1>1. Apart(t, v)
  BY DEF Kept, Apart
<1>2. ASSUME NEW r \in Reqs PROVE SameReq(t.req[r], v.req[r])
  BY DEF Kept, SameReq
<1>3. ASSUME NEW p \in Pubs PROVE SamePub(t.pub[p], v.pub[p])
  BY DEF Kept, SamePub, SameQueues
<1> QED BY <1>1, <1>2, <1>3 DEF Kept

LEMMA QueueType == ASSUME NEW t \in StateType, NEW p \in Pubs
                   PROVE  /\ Queue(t, p) \in Seq(Reqs) /\ t.pub[p].sendQ \in Seq(Reqs) /\ t.pub[p].retQ \in Seq(Reqs)
                          /\ \A r : Queued(t, r, p) \in Nat
<1>1. t.pub[p] \in PubType
  BY Parts
<1>2. t.pub[p].sendQ \in Seq(Reqs) /\ t.pub[p].retQ \in Seq(Reqs)
  BY <1>1, PubParts
<1>3. Queue(t, p) \in Seq(Reqs)
  BY <1>2 DEF Queue
<1> QED BY <1>2, <1>3, OccursType DEF Queued
LEMMA FlyingType == ASSUME NEW t \in StateType PROVE \A r : Flying(t, r) \in Nat
<1>1. IsNet(t.net)
  BY Parts
<1> QED BY <1>1, WeighType DEF Flying

\* Only the numbers matter.
LEMMA ReqSame ==
    ASSUME NEW t, NEW u, NEW h, NEW n, NEW i, NEW l, NEW r, ReqOK(t, h, n, r), u.req[r] = t.req[r], i[r] = h[r], l[r] = n[r],
           Flying(u, r) = Flying(t, r), \A p \in Pubs : Queued(u, r, p) = Queued(t, r, p)
    PROVE  ReqOK(u, i, l, r)
BY DEF ReqOK

\* A state that differs in nothing that counts.
Neutral(t, u) ==
    /\ u.req = t.req /\ u.net = t.net /\ ("request_refCount" \in u.fault => "request_refCount" \in t.fault)
    /\ \A p \in Pubs : SameQueues(t.pub[p], u.pub[p])
LEMMA GoodNeutral ==
    ASSUME NEW t, NEW u \in StateType, NEW h, NEW n, Good(t, h, n), Neutral(t, u) PROVE Good(u, h, n)
<1>1. \A p \in Pubs : \A r : Queued(u, r, p) = Queued(t, r, p)
  BY DEF Neutral, SameQueues, Queued, Queue
<1>2. \A r : Flying(u, r) = Flying(t, r)
  BY DEF Neutral, Flying
<1>3. ASSUME NEW r \in Reqs PROVE ReqOK(u, h, n, r)
  <2>1. ReqOK(t, h, n, r) /\ u.req[r] = t.req[r]
    BY DEF Good, Neutral
  <2> QED BY <1>1, <1>2, <2>1, ReqSame
<1> QED BY <1>3 DEF Good, Neutral
LEMMA NeutralAlike == ASSUME NEW t, NEW u, Alike(t, u) PROVE Neutral(t, u)
BY DEF Alike, Apart, Neutral, SameQueues
LEMMA GoodAlike == ASSUME NEW t, NEW u \in StateType, NEW h, NEW n, Good(t, h, n), Alike(t, u) PROVE Good(u, h, n)
BY NeutralAlike, GoodNeutral
LEMMA GoodLess ==
    ASSUME NEW t, NEW h, NEW n, NEW l, Good(t, h, n), Counts(l), \A r \in Reqs : l[r] <= n[r] PROVE Good(t, h, l)
<1>1. ASSUME NEW r \in Reqs PROVE ReqOK(t, h, l, r)
  <2>1. ReqOK(t, h, n, r) /\ h[r] \in Nat /\ n[r] \in Nat /\ l[r] \in Nat /\ l[r] <= n[r] /\ t \in StateType
    BY DEF Good, Counts
  <2>2. \A p \in Pubs : Queued(t, r, p) \in Nat
    BY <2>1, QueueType
  <2> QED BY <2>1, <2>2 DEF ReqOK
<1> QED BY <1>1 DEF Good

\* A request changes, or what it counts does; the others stay.
OnlyReq(t, u, r) == u.req = [t.req EXCEPT ![r] = u.req[r]]
SameCounts(t, u, h, i, S) ==
    \A x \in S : i[x] = h[x] /\ Flying(u, x) = Flying(t, x) /\ \A p \in Pubs : Queued(u, x, p) = Queued(t, x, p)
LEMMA OneReq ==
    ASSUME NEW t, NEW u \in StateType, NEW h, NEW n, NEW i, NEW l, Good(t, h, n), Counts(i), Counts(l), NEW r \in Reqs,
           ReqOK(u, i, l, r), OnlyReq(t, u, r),
           "request_refCount" \in u.fault => "request_refCount" \in t.fault,
           SameCounts(t, u, h, i, Reqs \ {r}), \A x \in Reqs \ {r} : l[x] = n[x]
    PROVE  Good(u, i, l)
<1>1. ASSUME NEW x \in Reqs \ {r} PROVE ReqOK(u, i, l, x)
  <2>0. t \in StateType
    BY DEF Good
  <2>2. t.req \in [Reqs -> ReqType]
    BY <2>0, Parts
  <2>1. ReqOK(t, h, n, x) /\ u.req[x] = t.req[x]
    BY <2>2 DEF Good, OnlyReq
  <2> QED BY <2>1, ReqSame DEF SameCounts
<1> QED BY <1>1 DEF Good

--------------------------------------------------------------------------------
(* Completion. *)

LEMMA DestroyIs ==
    ASSUME NEW t \in StateType, NEW r \in Reqs
    PROVE  LET u == DestroyPublishRequest(t, r)
           IN  /\ u \in StateType /\ Apart(t, u) /\ u.pub = t.pub /\ u.publications = t.publications
               /\ u.freePubs = t.freePubs /\ u.fault = t.fault /\ u.async = t.async
               /\ u.req = [t.req EXCEPT ![r] = [t.req[r] EXCEPT !.st = "gone"]]
<1> DEFINE f == [t.req EXCEPT ![r] = [t.req[r] EXCEPT !.st = "gone"]]
           k == t.rxRefs - (IF t.req[r].rx THEN 1 ELSE 0)
           v == [t EXCEPT !.req = f]
<1>1. t.req \in [Reqs -> ReqType] /\ t.rxRefs \in Int
  BY Parts
<1>2. f \in [Reqs -> ReqType]
  BY <1>1 DEF ReqType
<1>3. k \in Int
  BY <1>1
<1>4. DestroyPublishRequest(t, r) = [v EXCEPT !.rxRefs = k]
  BY DEF DestroyPublishRequest, StateType
<1> HIDE DEF f, k
<1>5. v \in StateType /\ Apart(t, v) /\ v.req = f /\ v.pub = t.pub /\ v.publications = t.publications
      /\ v.freePubs = t.freePubs /\ v.fault = t.fault /\ v.async = t.async
  BY <1>2, PutReq
<1> HIDE DEF v
<1>6. [v EXCEPT !.rxRefs = k] \in StateType /\ Alike(v, [v EXCEPT !.rxRefs = k])
  BY <1>3, <1>5, PutRxRefs
<1>7. [v EXCEPT !.rxRefs = k].async = v.async
  BY <1>5 DEF StateType
<1> QED BY <1>4, <1>5, <1>6, <1>7 DEF Alike, Apart, f

LEMMA ReqCalls ==
    ASSUME NEW q \in ReqType, NEW k \in Int, NEW status \in {"NO_ROUTE", "OK", "FAILED"}
    PROVE  /\ [q EXCEPT !.calls = k, !.status = status] \in ReqType
           /\ [[q EXCEPT !.calls = k, !.status = status] EXCEPT !.st = "gone"]
              = [q EXCEPT !.st = "gone", !.calls = k, !.status = status]
           /\ [q EXCEPT !.st = "gone"] = [q EXCEPT !.st = "gone", !.calls = q.calls, !.status = q.status]
BY DEF ReqType

\* What completing r makes of it.
Completed(q) == [q EXCEPT !.st = "gone", !.calls = q.calls + (IF q.cb THEN 1 ELSE 0),
                          !.status = IF q.cb /\ q.status = "NO_ROUTE" THEN "OK" ELSE q.status]
LEMMA CompletionIs ==
    ASSUME NEW t \in StateType, NEW r \in Reqs
    PROVE  LET u == PublishCompletion(t, r)
           IN  /\ u \in StateType /\ Apart(t, u) /\ u.pub = t.pub /\ u.publications = t.publications
               /\ u.freePubs = t.freePubs /\ u.fault = t.fault /\ u.async = t.async
               /\ u.req = [t.req EXCEPT ![r] = IF t.req[r].refs # 0 THEN t.req[r] ELSE Completed(t.req[r])]
<1>1. t.req \in [Reqs -> ReqType] /\ t.req[r] \in ReqType
  BY Parts
<1>2. CASE t.req[r].refs # 0
  BY <1>1, <1>2 DEF PublishCompletion, Apart
<1>3. CASE t.req[r].refs = 0
  <2> DEFINE q == t.req[r]
             w == [q EXCEPT !.calls = q.calls + 1, !.status = IF q.status = "NO_ROUTE" THEN "OK" ELSE q.status]
             f == [t.req EXCEPT ![r] = IF q.cb THEN w ELSE q]
             v == [t EXCEPT !.req = f]
  <2>0. q.calls \in Int /\ q.calls + 1 \in Int /\ q.calls + 0 = q.calls /\ q.status \in {"NO_ROUTE", "OK", "FAILED"}
    BY <1>1, ReqParts
  <2>1. /\ w \in ReqType /\ q \in ReqType
        /\ [w EXCEPT !.st = "gone"] = [q EXCEPT !.st = "gone", !.calls = q.calls + 1,
                                               !.status = IF q.status = "NO_ROUTE" THEN "OK" ELSE q.status]
        /\ [q EXCEPT !.st = "gone"] = [q EXCEPT !.st = "gone", !.calls = q.calls, !.status = q.status]
    <3> DEFINE k == q.calls + 1
               to == IF q.status = "NO_ROUTE" THEN "OK" ELSE q.status
    <3>1. k \in Int /\ to \in {"NO_ROUTE", "OK", "FAILED"} /\ q \in ReqType
      BY <1>1, <2>0
    <3> HIDE DEF k, to, q
    <3>2. /\ [q EXCEPT !.calls = k, !.status = to] \in ReqType
          /\ [[q EXCEPT !.calls = k, !.status = to] EXCEPT !.st = "gone"]
             = [q EXCEPT !.st = "gone", !.calls = k, !.status = to]
          /\ [q EXCEPT !.st = "gone"] = [q EXCEPT !.st = "gone", !.calls = q.calls, !.status = q.status]
      BY <3>1, ReqCalls, Zenon
    <3> USE DEF k, to, q
    <3> QED BY <3>1, <3>2, Zenon
  <2>2. PublishCompletion(t, r) = DestroyPublishRequest(IF q.cb THEN [t EXCEPT !.req[r] = w] ELSE t, r)
    BY <1>3, ZenonT(40) DEF PublishCompletion, StateType, ReqType
  <2>3. v = IF q.cb THEN [t EXCEPT !.req[r] = w] ELSE t
    BY <1>1 DEF StateType
  <2>4. f \in [Reqs -> ReqType]
    BY <1>1, <2>1
  <2>5. [(IF q.cb THEN w ELSE q) EXCEPT !.st = "gone"] = Completed(q)
    <3>1. CASE q.cb
      BY <2>1, <3>1, Zenon DEF Completed
    <3>2. CASE ~q.cb
      BY <2>0, <2>1, <3>2, Zenon DEF Completed
    <3> QED BY <3>1, <3>2
  <2>6. f[r] = IF q.cb THEN w ELSE q
    BY <1>1
  <2>7. [f EXCEPT ![r] = [f[r] EXCEPT !.st = "gone"]] = [t.req EXCEPT ![r] = Completed(q)]
    BY <1>1, <2>5, <2>6
  <2> HIDE DEF f, w
  <2>8. v \in StateType /\ Apart(t, v) /\ v.req = f /\ v.pub = t.pub /\ v.publications = t.publications
        /\ v.freePubs = t.freePubs /\ v.fault = t.fault /\ v.async = t.async
    BY <2>4, PutReq
  <2>9. PublishCompletion(t, r) = DestroyPublishRequest(v, r)
    BY <2>2, <2>3
  <2> HIDE DEF v, q
  <2> DEFINE u == DestroyPublishRequest(v, r)
  <2>10. /\ u \in StateType /\ Apart(v, u) /\ u.pub = v.pub /\ u.publications = v.publications
         /\ u.freePubs = v.freePubs /\ u.fault = v.fault /\ u.async = v.async
         /\ u.req = [v.req EXCEPT ![r] = [v.req[r] EXCEPT !.st = "gone"]]
    BY <2>8, DestroyIs
  <2> HIDE DEF u
  <2>11. Apart(t, u)
    BY <2>8, <2>10 DEF Apart
  <2>12. u.req = [t.req EXCEPT ![r] = Completed(q)]
    BY <2>7, <2>8, <2>10
  <2>13. PublishCompletion(t, r) = u
    BY <2>9 DEF u
  <2> QED BY <1>3, <2>8, <2>10, <2>11, <2>12, <2>13 DEF q
<1> QED BY <1>2, <1>3

\* A request that is live, and that nobody uses on the side, is left completed or as it is.
LEMMA CompletionGood ==
    ASSUME NEW t, NEW h, NEW n, Good(t, h, n), NEW r \in Reqs, t.req[r].st = "live", n[r] = 0
    PROVE  Good(PublishCompletion(t, r), h, n)
<1> DEFINE u == PublishCompletion(t, r)
<1>1. t \in StateType /\ t.req \in [Reqs -> ReqType] /\ t.req[r] \in ReqType
  BY Parts DEF Good
<1>2. u \in StateType /\ Apart(t, u) /\ u.pub = t.pub /\ u.fault = t.fault
      /\ u.req = [t.req EXCEPT ![r] = IF t.req[r].refs # 0 THEN t.req[r] ELSE Completed(t.req[r])]
  BY <1>1, CompletionIs
<1> HIDE DEF u
<1>3. (\A x : Flying(u, x) = Flying(t, x)) /\ \A x, p : Queued(u, x, p) = Queued(t, x, p)
  BY <1>2 DEF Apart, Flying, Queued, Queue
<1>4. ReqOK(t, h, n, r)
  BY DEF Good
<1>5. ReqOK(u, h, n, r)
  <2>1. CASE t.req[r].refs # 0
    <3>1. u.req[r] = t.req[r]
      BY <1>1, <1>2, <2>1
    <3> QED BY <1>3, <1>4, <3>1, ReqSame
  <2>2. CASE t.req[r].refs = 0
    <3>1. u.req[r] = Completed(t.req[r])
      BY <1>1, <1>2, <2>2
    <3>2. /\ u.req[r].st = "gone" /\ u.req[r].calls = t.req[r].calls + (IF t.req[r].cb THEN 1 ELSE 0)
          /\ u.req[r].pub = t.req[r].pub /\ u.req[r].refs = 0 /\ u.req[r].cb = t.req[r].cb
      BY <1>1, <2>2, <3>1 DEF Completed, ReqType
    <3>3. t.req[r].calls = 0
      BY <1>4 DEF ReqOK
    <3>4. u.req[r].calls = IF u.req[r].cb /\ u.req[r].st = "gone" THEN 1 ELSE 0
      BY <1>1, <3>2, <3>3 DEF ReqType
    <3> QED BY <1>3, <1>4, <2>2, <3>2, <3>4 DEF ReqOK
  <2> QED BY <2>1, <2>2
<1>6. OnlyReq(t, u, r) /\ SameCounts(t, u, h, h, Reqs \ {r})
  BY <1>1, <1>2, <1>3 DEF OnlyReq, SameCounts
<1>7. Counts(h) /\ Counts(n)
  BY DEF Good
<1> QED BY <1>2, <1>5, <1>6, <1>7, OneReq DEF u

Minus(h, r) == [h EXCEPT ![r] = h[r] - 1]
Plus(h, r) == [h EXCEPT ![r] = h[r] + 1]
LEMMA MinusIs == ASSUME NEW h, Counts(h), NEW r \in Reqs, h[r] > 0
                 PROVE  Counts(Minus(h, r)) /\ Minus(h, r)[r] = h[r] - 1 /\ \A x \in Reqs \ {r} : Minus(h, r)[x] = h[x]
BY DEF Minus, Counts
LEMMA PlusIs == ASSUME NEW h, Counts(h), NEW r \in Reqs
                PROVE  Counts(Plus(h, r)) /\ Plus(h, r)[r] = h[r] + 1 /\ \A x \in Reqs \ {r} : Plus(h, r)[x] = h[x]
BY DEF Plus, Counts

\* A reference that was counted is given up.
Lowered(q, status) == [q EXCEPT !.refs = q.refs - 1, !.status = status]
Lower(t, r, status) == [t EXCEPT !.req = [t.req EXCEPT ![r] = Lowered(t.req[r], status)]]
LEMMA LoweredIs ==
    ASSUME NEW q \in ReqType, NEW status \in {"NO_ROUTE", "OK", "FAILED"}
    PROVE  LET w == Lowered(q, status)
           IN  /\ w \in ReqType /\ w.refs = q.refs - 1 /\ w.st = q.st /\ w.pub = q.pub /\ w.calls = q.calls
               /\ w.cb = q.cb /\ w.seq = q.seq /\ w.body = q.body
<1> DEFINE k == q.refs - 1
<1>1. k \in Int
  BY ReqParts
<1>2. Lowered(q, status) = [q EXCEPT !.refs = k, !.status = status]
  BY Zenon DEF Lowered
<1> HIDE DEF k
<1>3. LET w == [q EXCEPT !.refs = k, !.status = status]
      IN  /\ w \in ReqType /\ w.refs = k /\ w.st = q.st /\ w.pub = q.pub /\ w.calls = q.calls
          /\ w.cb = q.cb /\ w.seq = q.seq /\ w.body = q.body
  BY <1>1 DEF ReqType
<1> QED BY <1>2, <1>3, Zenon DEF k
LEMMA CountDown ==
    ASSUME NEW t, NEW h, NEW n, Good(t, h, n), NEW r \in Reqs, h[r] > 0, NEW status \in {"NO_ROUTE", "OK", "FAILED"},
           NEW u, u = Lower(t, r, status)
    PROVE  /\ Good(u, Minus(h, r), n) /\ t.req[r].refs > 0 /\ t.req[r].st = "live" /\ u.req[r].st = "live"
           /\ u.req[r].refs = t.req[r].refs - 1 /\ OnlyReq(t, u, r) /\ Kept(t, u) /\ u.pub = t.pub
<1>1. t \in StateType /\ t.req \in [Reqs -> ReqType] /\ t.req[r] \in ReqType /\ Counts(h) /\ ReqOK(t, h, n, r)
      /\ h[r] \in Nat /\ t.req[r].refs \in Int
  <2>1. t \in StateType /\ t.req \in [Reqs -> ReqType] /\ Counts(h) /\ ReqOK(t, h, n, r)
    BY Parts DEF Good
  <2> QED BY <2>1, ReqParts DEF Counts
<1> DEFINE w == Lowered(t.req[r], status)
           f == [t.req EXCEPT ![r] = w]
<1>2. /\ w \in ReqType /\ w.refs = t.req[r].refs - 1 /\ w.st = t.req[r].st /\ w.pub = t.req[r].pub
      /\ w.calls = t.req[r].calls /\ w.cb = t.req[r].cb /\ w.seq = t.req[r].seq /\ w.body = t.req[r].body
  BY <1>1, LoweredIs
<1>3. f \in [Reqs -> ReqType] /\ f[r] = w /\ \A x \in Reqs \ {r} : f[x] = t.req[x]
  BY <1>1, <1>2
<1> HIDE DEF w
<1>4. u \in StateType /\ Apart(t, u) /\ u.req = f /\ u.pub = t.pub /\ u.fault = t.fault
  BY <1>1, <1>3, PutReq DEF w, Lower
<1>5. (\A x : Flying(u, x) = Flying(t, x)) /\ \A x, p : Queued(u, x, p) = Queued(t, x, p)
  BY <1>4 DEF Apart, Flying, Queued, Queue
<1>6. t.req[r].st # "unused" /\ t.req[r].pub \in Pubs
  BY <1>1 DEF ReqOK
<1>7. Queued(t, r, t.req[r].pub) \in Nat /\ Flying(t, r) \in Nat
  BY <1>1, <1>6, QueueType, FlyingType
<1>8. t.req[r].refs > 0 /\ t.req[r].st = "live"
  BY <1>1, <1>6, <1>7 DEF ReqOK
<1>9. Counts(Minus(h, r)) /\ Minus(h, r)[r] = h[r] - 1 /\ \A x \in Reqs \ {r} : Minus(h, r)[x] = h[x]
  BY <1>1, MinusIs
<1>10. n[r] \in Nat
  BY DEF Good, Counts
<1>11. ReqOK(u, Minus(h, r), n, r)
  <2> DEFINE i == Minus(h, r)
             p == t.req[r].pub
  <2>1. u.req[r] = w /\ i[r] = h[r] - 1
    BY <1>3, <1>4, <1>9
  <2> HIDE DEF i, p
  <2>2. w.st = "live" /\ w.pub = p /\ p \in Pubs
    BY <1>2, <1>6, <1>8 DEF p
  <2>3. /\ t.req[r].refs = Queued(t, r, p) + Flying(t, r) + h[r] /\ Queued(t, r, p) + h[r] + n[r] <= 1
        /\ \A x \in Pubs : Queued(t, r, x) # 0 => x = p
    BY <1>1, <1>6 DEF ReqOK, p
  <2>4. w.refs = Queued(u, r, p) + Flying(u, r) + i[r] /\ Queued(u, r, p) + i[r] + n[r] <= 1
    BY <1>1, <1>2, <1>5, <1>7, <1>10, <2>1, <2>3 DEF p
  <2>5. w.calls = IF w.cb /\ w.st = "gone" THEN 1 ELSE 0
    BY <1>1, <1>2, <1>8 DEF ReqOK
  <2> QED BY <1>5, <2>1, <2>2, <2>3, <2>4, <2>5 DEF ReqOK, i
<1>12. Good(u, Minus(h, r), n) /\ OnlyReq(t, u, r)
  <2> DEFINE i == Minus(h, r)
  <2>1. OnlyReq(t, u, r)
    BY <1>3, <1>4 DEF OnlyReq
  <2>2. Counts(i) /\ Counts(n) /\ ReqOK(u, i, n, r)
    BY <1>9, <1>11 DEF Good
  <2>3. SameCounts(t, u, h, i, Reqs \ {r})
    BY <1>5, <1>9 DEF SameCounts
  <2>4. "request_refCount" \in u.fault => "request_refCount" \in t.fault
    BY <1>4
  <2> HIDE DEF i
  <2>5. Good(u, i, n)
    BY <1>4, <2>1, <2>2, <2>3, <2>4, OneReq
  <2> QED BY <2>1, <2>5 DEF i
<1>13. Kept(t, u)
  <2>1. \A x \in Reqs : SameReq(t.req[x], u.req[x])
    BY <1>1, <1>2, <1>3, <1>4, <1>8 DEF SameReq
  <2>2. \A p \in Pubs : SamePub(t.pub[p], u.pub[p])
    BY <1>4 DEF SamePub, SameQueues
  <2> QED BY <1>4, <2>1, <2>2 DEF Kept
<1> QED BY <1>2, <1>3, <1>4, <1>8, <1>12, <1>13

LEMMA CompletionKept ==
    ASSUME NEW t \in StateType, NEW r \in Reqs, t.req[r].st = "live"
    PROVE  /\ Apart(t, PublishCompletion(t, r)) /\ PublishCompletion(t, r).pub = t.pub
           /\ \A x \in Reqs : t.req[x].refs # 0 \/ x # r => PublishCompletion(t, r).req[x] = t.req[x]
           /\ LET q == t.req[r]  w == PublishCompletion(t, r).req[r]
              IN  w.pub = q.pub /\ w.seq = q.seq /\ w.body = q.body /\ w.cb = q.cb /\ w.st # "unused"
<1> DEFINE u == PublishCompletion(t, r)
<1>1. t.req \in [Reqs -> ReqType] /\ t.req[r] \in ReqType
  BY Parts
<1>2. Apart(t, u) /\ u.pub = t.pub
      /\ u.req = [t.req EXCEPT ![r] = IF t.req[r].refs # 0 THEN t.req[r] ELSE Completed(t.req[r])]
  BY CompletionIs
<1> HIDE DEF u
<1>3. \A x \in Reqs : t.req[x].refs # 0 \/ x # r => u.req[x] = t.req[x]
  BY <1>1, <1>2
<1>4. u.req[r] = IF t.req[r].refs # 0 THEN t.req[r] ELSE Completed(t.req[r])
  BY <1>1, <1>2
<1>5. LET q == t.req[r]  w == u.req[r]
      IN  w.pub = q.pub /\ w.seq = q.seq /\ w.body = q.body /\ w.cb = q.cb /\ w.st # "unused"
  BY <1>1, <1>4 DEF Completed, ReqType
<1> QED BY <1>2, <1>3, <1>5 DEF u

\* A reference that was counted is given up, and the request completes with the last.
LEMMA ReleaseGood ==
    ASSUME NEW t, NEW h, NEW n, Good(t, h, n), NEW r \in Reqs, h[r] > 0, n[r] = 0,
           NEW status \in {"NO_ROUTE", "OK", "FAILED"}
    PROVE  LET u == ReleaseReq(t, r, status)
           IN  Good(u, Minus(h, r), n) /\ Kept(t, u) /\ u.pub = t.pub
<1> DEFINE q == t.req[r]
           to == IF q.status = "OK" THEN q.status ELSE status
           v == Lower(t, r, to)
           u == ReleaseReq(t, r, status)
<1>1. t \in StateType /\ t.req \in [Reqs -> ReqType] /\ q \in ReqType
  BY Parts DEF Good
<1>2. to \in {"NO_ROUTE", "OK", "FAILED"}
  BY <1>1, ReqParts
<1>3. Good(v, Minus(h, r), n) /\ q.refs > 0 /\ q.st = "live" /\ v.req[r].st = "live" /\ v.req[r].refs = q.refs - 1
      /\ OnlyReq(t, v, r) /\ Kept(t, v) /\ v.pub = t.pub
  <2> HIDE DEF to
  <2>1. v = Lower(t, r, to)
    OBVIOUS
  <2> HIDE DEF v, q
  <2> USE DEF q
  <2> QED BY <1>2, <2>1, CountDown
<1>4. v = [t EXCEPT !.req[r].refs = @ - 1, !.req[r].status = IF @ = "OK" THEN @ ELSE status]
  BY <1>1, ZenonT(40) DEF Lower, Lowered, ReqType, StateType
<1>5. u = PublishCompletion(v, r)
  BY <1>3, <1>4 DEF ReleaseReq, Check
<1>6. \A x \in Reqs \ {r} : v.req[x] = t.req[x]
  BY <1>1, <1>3 DEF OnlyReq
<1> HIDE DEF v, u
<1>7. Good(u, Minus(h, r), n)
  BY <1>3, <1>5, CompletionGood
<1>8. Kept(t, u) /\ u.pub = t.pub
  <2>1. v \in StateType
    BY <1>3 DEF Good
  <2>2. /\ Apart(v, u) /\ u.pub = v.pub
        /\ \A x \in Reqs : v.req[x].refs # 0 \/ x # r => u.req[x] = v.req[x]
        /\ u.req[r].pub = v.req[r].pub /\ u.req[r].seq = v.req[r].seq /\ u.req[r].body = v.req[r].body
        /\ u.req[r].cb = v.req[r].cb /\ u.req[r].st # "unused"
    BY <1>3, <1>5, <2>1, CompletionKept
  <2>3. Apart(t, u)
    BY <1>3, <2>2 DEF Kept, Apart
  <2>4. SameReq(t.req[r], u.req[r])
    BY <1>3, <2>2 DEF Kept, SameReq
  <2>5. \A x \in Reqs \ {r} : u.req[x] = t.req[x]
    BY <1>6, <2>2
  <2>6. \A x \in Reqs : SameReq(t.req[x], u.req[x])
    BY <2>4, <2>5 DEF SameReq
  <2>7. \A p \in Pubs : SamePub(t.pub[p], u.pub[p])
    BY <1>3, <2>2 DEF SamePub, SameQueues
  <2> QED BY <1>3, <2>2, <2>3, <2>6, <2>7 DEF Kept
<1> QED BY <1>7, <1>8 DEF u

--------------------------------------------------------------------------------
(* Lists. *)

Filtered(l, e) == IF e.out THEN l ELSE Append(l, e.x)
W == INSTANCE FoldTheorems WITH Op <- Filtered

\* What is left of a list is what was not unlinked.
LEMMA WithoutIs ==
    ASSUME NEW T, NEW q \in Seq(T), NEW S
    PROVE  Without(q, S) \in Seq(T) /\ ToSet(Without(q, S)) = ToSet(q) \ S
<1> DEFINE k == Len(q)
           D == DOMAIN q
           es == [i \in D |-> [x |-> q[i], out |-> q[i] \in S]]
           step(x, l) == IF x \in S THEN l ELSE Append(l, x)
           turn(g, c) == IF c = {} THEN <<>> ELSE step(q[W!Top(c)], g[c \ {W!Top(c)}])
           turns(g) == g = [c \in SUBSET D |-> turn(g, c)]
<1>0. k \in Nat /\ D = 1 .. k
  OBVIOUS
<1>1. \A i \in D : \A l : Filtered(l, es[i]) = step(q[i], l)
  BY DEF Filtered
<1> HIDE DEF es, D, k, step
<1>2. ASSUME NEW g, NEW c \in SUBSET D
      PROVE  turn(g, c) = IF c = {} THEN <<>> ELSE Filtered(g[c \ {W!Top(c)}], es[W!Top(c)])
  <2>1. CASE c = {}
    BY <2>1, Zenon
  <2>2. CASE c # {}
    <3>1. W!Top(c) \in D
      BY <1>0, <2>2, W!TopIn
    <3> QED BY <1>1, <2>2, <3>1, Zenon
  <2> QED BY <2>1, <2>2, Zenon
<1>3. ASSUME NEW g PROVE W!Steps(g, <<>>, es, D) <=> turns(g)
  <2>1. [c \in SUBSET D |-> turn(g, c)]
        = [c \in SUBSET D |-> IF c = {} THEN <<>> ELSE Filtered(g[c \ {W!Top(c)}], es[W!Top(c)])]
    <3> HIDE DEF turn
    <3> QED BY <1>2, Zenon
  <2> HIDE DEF turn
  <2> QED BY <2>1, Zenon DEF W!Steps
<1>4. PICK g0 : W!Steps(g0, <<>>, es, D)
  BY <1>0, W!StepsExist
<1>5. turns(g0)
  BY <1>3, <1>4, Zenon
<1>6. PICK g : turns(g) /\ Without(q, S) = g[D]
  <2>1. Without(q, S) = (CHOOSE g : turns(g))[D]
    BY Zenon DEF Without, FoldLeft, MapThenFoldSet, Max, W!Top, D, step
  <2>2. turns(CHOOSE g : turns(g))
    <3> HIDE DEF turns
    <3> QED BY <1>5, Zenon
  <2> QED BY <2>1, <2>2, Zenon
<1>7. W!Steps(g, <<>>, es, 1 .. k)
  BY <1>0, <1>3, <1>6, Zenon
<1>8. PICK f : W!Turns(f, <<>>, es, k, g[1 .. k])
  BY <1>0, <1>7, W!StepsTurn, Zenon
<1> HIDE DEF turns
<1>9. f[0] = <<>> /\ Without(q, S) = f[k]
  BY <1>0, <1>6, <1>8, Zenon DEF W!Turns
<1>10. ASSUME NEW j \in Nat, j < k PROVE f[j + 1] = IF q[j + 1] \in S THEN f[j] ELSE Append(f[j], q[j + 1])
  <2>1. j + 1 \in D
    BY <1>0, <1>10
  <2>2. f[j + 1] = Filtered(f[j], es[j + 1])
    BY <1>8, <1>10 DEF W!Turns
  <2>3. f[j + 1] = step(q[j + 1], f[j])
    BY <1>1, <2>1, <2>2, Zenon
  <2> QED BY <2>3, Zenon DEF step
<1> DEFINE P(j) == /\ f[j] \in Seq(T)
                   /\ \A y : y \in ToSet(f[j]) <=> \E i \in 1 .. j : q[i] = y /\ y \notin S
           N == {j \in Nat : j <= k => P(j)}
<1>11. P(0)
  <2>1. 1 .. 0 = {} /\ ToSet(<<>>) = {} /\ <<>> \in Seq(T)
    BY DEF ToSet
  <2> QED BY <1>9, <2>1
<1>12. ASSUME NEW j \in Nat, j < k, P(j) PROVE P(j + 1)
  <2>1. j + 1 \in 1 .. k
    BY <1>0, <1>12
  <2>2. f[j] \in Seq(T) /\ \A y : y \in ToSet(f[j]) <=> \E i \in 1 .. j : q[i] = y /\ y \notin S
    BY <1>12
  <2>3. f[j + 1] = IF q[j + 1] \in S THEN f[j] ELSE Append(f[j], q[j + 1])
    BY <1>10, <1>12
  <2>4. q[j + 1] \in T
    BY <1>0, <2>1 DEF D
  <2>5. 1 .. j + 1 = (1 .. j) \cup {j + 1}
    OBVIOUS
  <2>6. \A l \in Seq(T) : \A e \in T : \A y : y \in ToSet(Append(l, e)) <=> y \in ToSet(l) \/ y = e
    <3> SUFFICES ASSUME NEW l \in Seq(T), NEW e \in T, NEW y
                 PROVE  y \in ToSet(Append(l, e)) <=> y \in ToSet(l) \/ y = e
      OBVIOUS
    <3>1. /\ DOMAIN Append(l, e) = 1 .. Len(l) + 1 /\ DOMAIN l = 1 .. Len(l) /\ Len(l) \in Nat
          /\ Append(l, e)[Len(l) + 1] = e /\ \A i \in 1 .. Len(l) : Append(l, e)[i] = l[i]
      OBVIOUS
    <3>2. 1 .. Len(l) + 1 = (1 .. Len(l)) \cup {Len(l) + 1}
      BY <3>1
    <3> QED BY <3>1, <3>2 DEF ToSet
  <2>7. \A y : y \in ToSet(Append(f[j], q[j + 1])) <=> y \in ToSet(f[j]) \/ y = q[j + 1]
    BY <2>2, <2>4, <2>6
  <2>8. f[j + 1] \in Seq(T)
    BY <2>2, <2>3, <2>4
  <2>9. CASE q[j + 1] \in S
    BY <2>2, <2>3, <2>5, <2>8, <2>9
  <2>10. CASE q[j + 1] \notin S
    BY <2>2, <2>3, <2>5, <2>7, <2>8, <2>10
  <2> QED BY <2>9, <2>10
<1> HIDE DEF P
<1>13. k \in N
  <2>1. 0 \in N
    BY <1>11
  <2>2. ASSUME NEW j \in Nat, j \in N PROVE j + 1 \in N
    <3>1. j + 1 <= k => j < k /\ j <= k
      BY <1>0
    <3> QED BY <1>12, <2>2, <3>1
  <2> HIDE DEF N
  <2> QED BY <1>0, <2>1, <2>2, W!Induct
<1>14. f[k] \in Seq(T) /\ \A y : y \in ToSet(f[k]) <=> \E i \in 1 .. k : q[i] = y /\ y \notin S
  BY <1>0, <1>13 DEF P
<1>15. \A y : y \in ToSet(q) <=> \E i \in 1 .. k : q[i] = y
  BY <1>0 DEF ToSet, D
<1> QED BY <1>9, <1>14, <1>15

--------------------------------------------------------------------------------
(* What changes a publication alone, or its references. *)

Does(t, u) == u \in StateType /\ Neutral(t, u) /\ Kept(t, u)

LEMMA DoesSelf == ASSUME NEW t \in StateType PROVE Does(t, t)
BY KeptSelf, NeutralAlike DEF Does, Alike, Apart
LEMMA DoesAlike == ASSUME NEW t, NEW u \in StateType, Alike(t, u) PROVE Does(t, u)
BY KeptSelf, NeutralAlike DEF Does
LEMMA DoesTrans == ASSUME NEW t, NEW u, NEW v, Does(t, u), Does(u, v) PROVE Does(t, v)
<1>1. Kept(t, v)
  BY KeptTrans DEF Does
<1>2. Neutral(t, v)
  BY DEF Does, Neutral, SameQueues
<1> QED BY <1>1, <1>2 DEF Does
LEMMA DoesGood == ASSUME NEW t, NEW u, Does(t, u), NEW h, NEW n, Good(t, h, n) PROVE Good(u, h, n) /\ Kept(t, u)
BY GoodNeutral DEF Does

SetPub(t, p, o) == [t EXCEPT !.pub = [t.pub EXCEPT ![p] = o]]
LEMMA SetPubIs ==
    ASSUME NEW t \in StateType, NEW p \in Pubs, NEW o \in PubType
    PROVE  LET u == SetPub(t, p, o)
           IN  /\ u \in StateType /\ Apart(t, u) /\ u.req = t.req /\ u.fault = t.fault /\ u.async = t.async
               /\ u.publications = t.publications /\ u.freePubs = t.freePubs
               /\ u.pub[p] = o /\ \A x \in Pubs \ {p} : u.pub[x] = t.pub[x]
<1> DEFINE f == [t.pub EXCEPT ![p] = o]
<1>1. t.pub \in [Pubs -> PubType]
  BY Parts
<1>2. f \in [Pubs -> PubType] /\ f[p] = o /\ \A x \in Pubs \ {p} : f[x] = t.pub[x]
  BY <1>1
<1> HIDE DEF f
<1>3. LET u == [t EXCEPT !.pub = f]
      IN  /\ u \in StateType /\ Apart(t, u) /\ u.pub = f /\ u.req = t.req /\ u.publications = t.publications
          /\ u.freePubs = t.freePubs /\ u.fault = t.fault /\ u.async = t.async
  BY <1>2, PutPub
<1> QED BY <1>2, <1>3 DEF SetPub, f
LEMMA SetPubDoes ==
    ASSUME NEW t \in StateType, NEW p \in Pubs, NEW o \in PubType, SameQueues(t.pub[p], o), SamePub(t.pub[p], o)
    PROVE  Does(t, SetPub(t, p, o))
<1> DEFINE u == SetPub(t, p, o)
<1>1. /\ u \in StateType /\ Apart(t, u) /\ u.req = t.req /\ u.fault = t.fault
      /\ u.pub[p] = o /\ \A x \in Pubs \ {p} : u.pub[x] = t.pub[x]
  BY SetPubIs
<1> HIDE DEF u
<1>2. \A x \in Pubs : SameQueues(t.pub[x], u.pub[x]) /\ SamePub(t.pub[x], u.pub[x])
  <2>1. \A x \in Pubs \ {p} : SameQueues(t.pub[x], u.pub[x]) /\ SamePub(t.pub[x], u.pub[x])
    BY <1>1 DEF SameQueues, SamePub
  <2> QED BY <1>1, <2>1
<1>3. \A r \in Reqs : SameReq(t.req[r], u.req[r])
  BY <1>1 DEF SameReq
<1>4. u.net = t.net
  BY <1>1 DEF Apart
<1> QED BY <1>1, <1>2, <1>3, <1>4 DEF Does, Neutral, Kept, u

\* The record of a publication with other references, flags and place.
LEMMA PubRefs ==
    ASSUME NEW o \in PubType, NEW k \in Int
    PROVE  LET w == [o EXCEPT !.refs = k]
           IN  w \in PubType /\ SameQueues(o, w) /\ SamePub(o, w) /\ w.st = o.st /\ w.refs = k /\ w.flags = o.flags /\ w.from = o.from
BY DEF PubType, SameQueues, SamePub
LEMMA PubSt ==
    ASSUME NEW o \in PubType, NEW st \in {"held", "listed", "freed", "gone"}
    PROVE  LET w == [o EXCEPT !.st = st]
           IN  w \in PubType /\ SameQueues(o, w) /\ SamePub(o, w) /\ w.st = st /\ w.refs = o.refs /\ w.flags = o.flags /\ w.from = o.from
BY DEF PubType, SameQueues, SamePub
LEMMA PubFlags ==
    ASSUME NEW o \in PubType, NEW flags \in SUBSET Flags
    PROVE  LET w == [o EXCEPT !.flags = flags]
           IN  w \in PubType /\ SameQueues(o, w) /\ SamePub(o, w) /\ w.st = o.st /\ w.refs = o.refs /\ w.flags = flags /\ w.from = o.from
BY DEF PubType, SameQueues, SamePub
LEMMA PubTtl ==
    ASSUME NEW o \in PubType, NEW ttl \in Int
    PROVE  LET w == [o EXCEPT !.ttl = ttl]
           IN  w \in PubType /\ SameQueues(o, w) /\ SamePub(o, w) /\ w.st = o.st /\ w.refs = o.refs /\ w.flags = o.flags /\ w.from = o.from
BY DEF PubType, SameQueues, SamePub

LEMMA IncRefIs == ASSUME NEW t \in StateType, NEW p \in Pubs
                  PROVE  /\ Does(t, PublicationIncRef(t, p))
                         /\ PublicationIncRef(t, p) = SetPub(t, p, [t.pub[p] EXCEPT !.refs = t.pub[p].refs + 1])
<1>1. t.pub \in [Pubs -> PubType] /\ t.pub[p] \in PubType
  BY Parts
<1>2. PublicationIncRef(t, p) = SetPub(t, p, [t.pub[p] EXCEPT !.refs = t.pub[p].refs + 1])
  BY <1>1 DEF PublicationIncRef, SetPub, StateType
<1> DEFINE k == t.pub[p].refs + 1
<1>3. k \in Int
  BY <1>1, PubParts
<1> HIDE DEF k
<1>4. LET w == [t.pub[p] EXCEPT !.refs = k] IN w \in PubType /\ SameQueues(t.pub[p], w) /\ SamePub(t.pub[p], w)
  BY <1>1, <1>3, PubRefs
<1>5. Does(t, SetPub(t, p, [t.pub[p] EXCEPT !.refs = k]))
  BY <1>4, SetPubDoes
<1> QED BY <1>2, <1>5 DEF k

LEMMA PutLists ==
    ASSUME NEW t \in StateType, NEW a \in Seq(Pubs), NEW b \in Seq(Pubs)
    PROVE  LET u == [t EXCEPT !.publications = a, !.freePubs = b]
           IN  /\ u \in StateType /\ Apart(t, u) /\ u.pub = t.pub /\ u.req = t.req /\ u.fault = t.fault
               /\ u.async = t.async /\ u.publications = a /\ u.freePubs = b /\ Does(t, u)
<1> DEFINE u == [t EXCEPT !.publications = a, !.freePubs = b]
<1>1. /\ u \in StateType /\ Apart(t, u) /\ u.pub = t.pub /\ u.req = t.req /\ u.fault = t.fault
      /\ u.async = t.async /\ u.publications = a /\ u.freePubs = b
  BY DEF StateType, Apart
<1> HIDE DEF u
<1>2. Neutral(t, u) /\ Kept(t, u)
  BY <1>1 DEF Neutral, Kept, Apart, SameQueues, SamePub, SameReq
<1> QED BY <1>1, <1>2 DEF Does, u

LEMMA MoveToFreeIs ==
    ASSUME NEW t \in StateType, NEW p \in Pubs, NEW flags \in SUBSET Flags PROVE Does(t, MoveToFree(t, p, flags))
<1>1. t.pub \in [Pubs -> PubType] /\ t.pub[p] \in PubType /\ t.publications \in Seq(Pubs) /\ t.freePubs \in Seq(Pubs)
  BY Parts
<1>2. CASE "WAS_FREED" \in t.pub[p].flags
  BY <1>2, DoesSelf DEF MoveToFree
<1>3. CASE "WAS_FREED" \notin t.pub[p].flags
  <2> DEFINE a == Without(t.publications, {p})
             b == <<p>> \o t.freePubs
             o == [t.pub[p] EXCEPT !.st = "freed"]
             w == [o EXCEPT !.flags = flags]
             v == SetPub(t, p, w)
  <2>1. a \in Seq(Pubs) /\ b \in Seq(Pubs)
    BY <1>1, WithoutIs
  <2>2. o \in PubType /\ SameQueues(t.pub[p], o) /\ SamePub(t.pub[p], o)
    BY <1>1, PubSt
  <2>3. MoveToFree(t, p, flags) = [t EXCEPT !.pub = [t.pub EXCEPT ![p] = w], !.publications = a, !.freePubs = b]
    BY <1>1, <1>3 DEF MoveToFree, StateType
  <2> HIDE DEF o
  <2>4. w \in PubType /\ SameQueues(o, w) /\ SamePub(o, w)
    BY <2>2, PubFlags
  <2>5. SameQueues(t.pub[p], w) /\ SamePub(t.pub[p], w)
    BY <2>2, <2>4 DEF SameQueues, SamePub
  <2>6. Does(t, v)
    BY <2>4, <2>5, SetPubDoes
  <2>7. [t EXCEPT !.pub = [t.pub EXCEPT ![p] = w], !.publications = a, !.freePubs = b]
        = [v EXCEPT !.publications = a, !.freePubs = b]
    BY DEF SetPub
  <2> HIDE DEF a, b, w, v
  <2>8. Does(v, [v EXCEPT !.publications = a, !.freePubs = b])
    BY <2>1, <2>6, PutLists DEF Does
  <2> QED BY <2>3, <2>6, <2>7, <2>8, DoesTrans
<1> QED BY <1>2, <1>3

--------------------------------------------------------------------------------
(* The end of a publication. *)

\* The status of a request changes.
Marked(t, r, status) == [t EXCEPT !.req = [t.req EXCEPT ![r] = [t.req[r] EXCEPT !.status = status]]]
LEMMA MarkedIs ==
    ASSUME NEW t, NEW h, NEW n, Good(t, h, n), NEW r \in Reqs, t.req[r].st # "unused",
           NEW status \in {"NO_ROUTE", "OK", "FAILED"}
    PROVE  LET u == Marked(t, r, status)
           IN  /\ Good(u, h, n) /\ u.pub = t.pub /\ u.req[r].st = t.req[r].st /\ u.req[r].refs = t.req[r].refs
               /\ Apart(t, u) /\ OnlyReq(t, u, r) /\ u.publications = t.publications /\ u.freePubs = t.freePubs
               /\ t.req[r].refs # 0 => Kept(t, u)
<1> DEFINE q == t.req[r]
           w == [q EXCEPT !.status = status]
           f == [t.req EXCEPT ![r] = w]
           u == Marked(t, r, status)
<1>1. t \in StateType /\ t.req \in [Reqs -> ReqType] /\ q \in ReqType /\ Counts(h) /\ Counts(n) /\ ReqOK(t, h, n, r)
  BY Parts DEF Good
<1>2. /\ w \in ReqType /\ w.refs = q.refs /\ w.st = q.st /\ w.pub = q.pub /\ w.calls = q.calls
      /\ w.cb = q.cb /\ w.seq = q.seq /\ w.body = q.body
  BY <1>1 DEF ReqType
<1> HIDE DEF w
<1>3. f \in [Reqs -> ReqType] /\ f[r] = w /\ \A x \in Reqs \ {r} : f[x] = t.req[x]
  BY <1>1, <1>2
<1> HIDE DEF f
<1>4. u = [t EXCEPT !.req = f]
  BY DEF Marked, f, w
<1> HIDE DEF u
<1>5. u \in StateType /\ Apart(t, u) /\ u.req = f /\ u.pub = t.pub /\ u.fault = t.fault
      /\ u.publications = t.publications /\ u.freePubs = t.freePubs
  BY <1>1, <1>3, <1>4, PutReq
<1>6. (\A x : Flying(u, x) = Flying(t, x)) /\ \A x, p : Queued(u, x, p) = Queued(t, x, p)
  BY <1>5 DEF Apart, Flying, Queued, Queue
<1>7. OnlyReq(t, u, r) /\ SameCounts(t, u, h, h, Reqs \ {r})
  BY <1>3, <1>5, <1>6 DEF OnlyReq, SameCounts, f
<1>8. ReqOK(u, h, n, r)
  BY <1>1, <1>2, <1>3, <1>5, <1>6 DEF ReqOK
<1>9. Good(u, h, n)
  BY <1>1, <1>5, <1>7, <1>8, OneReq
<1>10. t.req[r].refs # 0 => Kept(t, u)
  <2>1. t.req[r].refs # 0 => \A x \in Reqs : SameReq(t.req[x], u.req[x])
    BY <1>2, <1>3, <1>5 DEF SameReq
  <2>2. \A p \in Pubs : SamePub(t.pub[p], u.pub[p])
    BY <1>5 DEF SamePub, SameQueues
  <2> QED BY <1>5, <2>1, <2>2 DEF Kept
<1> QED BY <1>2, <1>3, <1>5, <1>7, <1>9, <1>10 DEF u

\* The queues of p are emptied; what was in them is about to be released.
Emptied(t, p) == SetPub(t, p, [t.pub[p] EXCEPT !.sendQ = <<>>, !.retQ = <<>>])
Loose(t, h, p) == [r \in Reqs |-> h[r] + Queued(t, r, p)]
LEMMA EmptiedGood ==
    ASSUME NEW t, NEW h, NEW n, Good(t, h, n), NEW p \in Pubs
    PROVE  Good(Emptied(t, p), Loose(t, h, p), n) /\ Kept(t, Emptied(t, p))
<1> DEFINE u == Emptied(t, p)
           i == Loose(t, h, p)
           o == [t.pub[p] EXCEPT !.sendQ = <<>>, !.retQ = <<>>]
<1>1. t \in StateType /\ t.pub[p] \in PubType /\ Counts(h) /\ Counts(n)
  BY Parts DEF Good
<1>2. o \in PubType /\ o.sendQ = <<>> /\ o.retQ = <<>> /\ SamePub(t.pub[p], o)
  <2> DEFINE e == <<>>
  <2>1. e \in Seq(Reqs)
    OBVIOUS
  <2>2. o = [t.pub[p] EXCEPT !.sendQ = e, !.retQ = e]
    OBVIOUS
  <2> HIDE DEF e, o
  <2>3. o \in PubType /\ o.sendQ = e /\ o.retQ = e /\ o.seq = t.pub[p].seq /\ o.id = t.pub[p].id
        /\ o.ackReq = t.pub[p].ackReq /\ o.st = t.pub[p].st
    BY <1>1, <2>1, <2>2 DEF PubType
  <2> QED BY <2>3 DEF SamePub, e
<1>3. u = SetPub(t, p, o)
  BY DEF Emptied
<1> HIDE DEF o, u
<1>4. /\ u \in StateType /\ Apart(t, u) /\ u.req = t.req /\ u.fault = t.fault
      /\ u.pub[p] = o /\ \A x \in Pubs \ {p} : u.pub[x] = t.pub[x]
  BY <1>1, <1>2, <1>3, SetPubIs
<1>5. \A r : Flying(u, r) = Flying(t, r)
  BY <1>4 DEF Apart, Flying
<1>6. \A r : Queued(u, r, p) = 0 /\ \A x \in Pubs \ {p} : Queued(u, r, x) = Queued(t, r, x)
  <2>1. <<>> \o <<>> = <<>>
    OBVIOUS
  <2>2. Queue(u, p) = <<>> /\ \A x \in Pubs \ {p} : Queue(u, x) = Queue(t, x)
    BY <1>2, <1>4, <2>1 DEF Queue
  <2> QED BY <2>2, OccursNone DEF Queued
<1>7. \A r : Queued(t, r, p) \in Nat
  BY <1>1, QueueType
<1>8. Counts(i) /\ \A r \in Reqs : i[r] = h[r] + Queued(t, r, p)
  BY <1>1, <1>7 DEF Counts, Loose
<1> HIDE DEF i
<1>9. ASSUME NEW r \in Reqs PROVE ReqOK(u, i, n, r)
  <2>1. ReqOK(t, h, n, r) /\ h[r] \in Nat /\ n[r] \in Nat /\ Flying(t, r) \in Nat /\ \A x \in Pubs : Queued(t, r, x) \in Nat
    BY <1>1, FlyingType, QueueType DEF Good, Counts
  <2>2. u.req[r] = t.req[r] /\ Flying(u, r) = Flying(t, r) /\ i[r] = h[r] + Queued(t, r, p)
    BY <1>4, <1>5, <1>8
  <2>3. CASE Queued(t, r, p) = 0
    <3>1. i[r] = h[r] /\ \A x \in Pubs : Queued(u, r, x) = Queued(t, r, x)
      BY <1>6, <2>1, <2>2, <2>3
    <3> QED BY <2>1, <2>2, <3>1, ReqSame
  <2>4. CASE Queued(t, r, p) # 0
    <3>1. t.req[r].st # "unused" /\ t.req[r].pub = p
      BY <2>1, <2>4 DEF ReqOK
    <3>2. \A x \in Pubs : Queued(u, r, x) = 0
      BY <1>6, <2>1, <3>1 DEF ReqOK
    <3>3. /\ t.req[r].refs = Queued(u, r, p) + Flying(u, r) + i[r] /\ Queued(u, r, p) + i[r] + n[r] <= 1
      BY <1>6, <2>1, <2>2, <3>1 DEF ReqOK
    <3> QED BY <2>1, <2>2, <3>1, <3>2, <3>3 DEF ReqOK
  <2> QED BY <2>3, <2>4
<1>10. Good(u, i, n)
  BY <1>1, <1>4, <1>8, <1>9 DEF Good
<1>11. Kept(t, u)
  <2>1. \A r \in Reqs : SameReq(t.req[r], u.req[r])
    BY <1>4 DEF SameReq
  <2>2. \A x \in Pubs \ {p} : SamePub(t.pub[x], u.pub[x])
    BY <1>4 DEF SamePub, SameQueues
  <2>3. \A x \in Pubs : SamePub(t.pub[x], u.pub[x])
    BY <1>2, <1>4, <2>2
  <2> QED BY <1>4, <2>1, <2>3 DEF Kept
<1> QED BY <1>10, <1>11 DEF u, i

Fail(u, r) == ReleaseReq([u EXCEPT !.req[r].status = "FAILED"], r, "FAILED")
Q == INSTANCE FoldTheorems WITH Op <- Fail

LEMMA FailGood ==
    ASSUME NEW t, NEW h, NEW n, Good(t, h, n), NEW r \in Reqs, h[r] > 0, n[r] = 0
    PROVE  Good(Fail(t, r), Minus(h, r), n) /\ Kept(t, Fail(t, r)) /\ Fail(t, r).pub = t.pub
<1> DEFINE v == Marked(t, r, "FAILED")
           u == ReleaseReq(v, r, "FAILED")
<1>1. t \in StateType /\ t.req \in [Reqs -> ReqType] /\ ReqOK(t, h, n, r) /\ h[r] \in Nat
  BY Parts DEF Good, Counts
<1>2. Fail(t, r) = u
  BY <1>1 DEF Fail, Marked, StateType, ReqType
<1>3. t.req[r].st # "unused"
  BY <1>1 DEF ReqOK
<1>4. t.req[r].refs # 0
  <2>1. Queued(t, r, t.req[r].pub) \in Nat /\ Flying(t, r) \in Nat
    BY <1>1, <1>3, QueueType, FlyingType DEF ReqOK
  <2> QED BY <1>1, <1>3, <2>1 DEF ReqOK
<1>5. Good(v, h, n) /\ Kept(t, v) /\ v.pub = t.pub
  BY <1>3, <1>4, MarkedIs
<1> HIDE DEF v
<1>6. Good(u, Minus(h, r), n) /\ Kept(v, u) /\ u.pub = v.pub
  BY <1>5, ReleaseGood
<1> HIDE DEF u
<1> QED BY <1>2, <1>5, <1>6, KeptTrans

LEMMA FailQueuesGood ==
    ASSUME NEW t, NEW h, NEW n, Good(t, h, n), NEW p \in Pubs
    PROVE  Good(FailQueues(t, p), h, n) /\ Kept(t, FailQueues(t, p))
<1> DEFINE q == Queue(t, p)
           base == Emptied(t, p)
           end == FailQueues(t, p)
           Left(k) == [r \in Reqs |-> h[r] + Occurs(r, SubSeq(q, k + 1, Len(q)))]
<1>1. t \in StateType /\ t.pub \in [Pubs -> PubType] /\ q \in Seq(Reqs) /\ Len(q) \in Nat /\ Counts(h) /\ Counts(n)
  BY Parts, QueueType DEF Good
<1>2. PICK f : /\ f[0] = base
               /\ \A k \in Nat : k < Len(q) => f[k + 1] = Fail(f[k], q[k + 1])
               /\ end = f[Len(q)]
  <2>1. base = [t EXCEPT !.pub[p].sendQ = <<>>, !.pub[p].retQ = <<>>]
    BY <1>1 DEF Emptied, SetPub, StateType, PubType
  <2>2. end = Q!Fold(base, q)
    BY <2>1, ZenonT(40) DEF FailQueues, Queue, Fail, FoldLeft, MapThenFoldSet, Max, Q!Fold, Q!Stepped, Q!Steps, Q!Top
  <2> HIDE DEF base, end, q
  <2> QED BY <1>1, <2>2, Q!FoldTurns
<1>3. Good(base, Left(0), n) /\ Kept(t, base)
  <2>1. SubSeq(q, 1, Len(q)) = q
    BY <1>1
  <2>2. 0 + 1 = 1
    OBVIOUS
  <2>3. Left(0) = Loose(t, h, p)
    BY <2>1, <2>2, Zenon DEF Loose, Queued
  <2> QED BY <2>3, EmptiedGood
<1> HIDE DEF base, end
<1> DEFINE P(k) == Good(f[k], Left(k), n) /\ Kept(t, f[k])
           N == {k \in Nat : k <= Len(q) => P(k)}
<1>4. ASSUME NEW k \in Nat, k < Len(q), P(k) PROVE P(k + 1)
  <2> DEFINE e == q[k + 1]
             l == SubSeq(q, k + 1, Len(q))
             m == SubSeq(q, k + 2, Len(q))
  <2>1. e \in Reqs /\ l \in Seq(Reqs) /\ m \in Seq(Reqs) /\ l = <<e>> \o m
    <3>1. k + 1 \in 1 .. Len(q)
      BY <1>1, <1>4
    <3>2. e \in Reqs /\ l \in Seq(Reqs) /\ m \in Seq(Reqs)
      BY <1>1, <3>1
    <3>3. Len(l) = Len(q) - k /\ Len(m) = Len(q) - k - 1
      BY <1>1, <1>4
    <3>4. \A j \in 1 .. Len(l) : l[j] = q[k + j]
      BY <1>1, <1>4, <3>3
    <3>5. \A j \in 1 .. Len(m) : m[j] = q[k + 1 + j]
      BY <1>1, <1>4, <3>3
    <3> HIDE DEF l, m, e
    <3>6. <<e>> \o m \in Seq(Reqs) /\ Len(<<e>> \o m) = Len(l)
      BY SMTT(40), <1>1, <3>2, <3>3
    <3>7. ASSUME NEW j \in 1 .. Len(l) PROVE l[j] = (<<e>> \o m)[j]
      <4>1. CASE j = 1
        BY <3>2, <3>4, <4>1 DEF e
      <4>2. CASE j # 1
        <5>1. j - 1 \in 1 .. Len(m)
          BY <1>1, <3>2, <3>3, <4>2
        <5>2. (<<e>> \o m)[j] = m[j - 1]
          BY <3>2, <3>6, <4>2, <5>1
        <5>3. m[j - 1] = q[k + 1 + (j - 1)]
          BY <3>5, <5>1
        <5>4. k + 1 + (j - 1) = k + j
          BY <3>2
        <5> QED BY <3>4, <5>2, <5>3, <5>4
      <4> QED BY <4>1, <4>2
    <3> DEFINE w == <<e>> \o m
    <3>8. w \in Seq(Reqs) /\ Len(w) = Len(l) /\ \A j \in 1 .. Len(l) : l[j] = w[j]
      BY <3>6, <3>7
    <3> HIDE DEF w
    <3>9. l = w
      BY <3>2, <3>8, SeqEqual
    <3> QED BY <3>2, <3>9 DEF w
  <2>2. \A r : Occurs(r, l) = Occurs(r, m) + (IF e = r THEN 1 ELSE 0) /\ Occurs(r, m) \in Nat
    <3> TAKE r
    <3>1. Occurs(r, <<e>> \o m) = Occurs(r, <<e>>) + Occurs(r, m)
      <4>1. <<e>> \in Seq(Reqs)
        BY <2>1
      <4> QED BY <2>1, <4>1, OccursCat
    <3>2. Occurs(r, <<e>>) = IF e = r THEN 1 ELSE 0
      BY OccursOne
    <3>3. Occurs(r, m) \in Nat
      BY <2>1, OccursType
    <3> HIDE DEF l, m, e
    <3> QED BY <2>1, <3>1, <3>2, <3>3
  <2>3. Left(k) = [r \in Reqs |-> h[r] + Occurs(r, l)] /\ Left(k + 1) = [r \in Reqs |-> h[r] + Occurs(r, m)]
    <3>1. k + 1 + 1 = k + 2
      OBVIOUS
    <3> QED BY <3>1, Zenon
  <2> DEFINE i == Left(k)
             j == Left(k + 1)
  <2> HIDE DEF Left, l, m, e
  <2>4. Counts(i) /\ i[e] > 0 /\ Minus(i, e) = j
    <3>1. \A r \in Reqs : i[r] = h[r] + Occurs(r, l) /\ j[r] = h[r] + Occurs(r, m) /\ h[r] \in Nat
      BY <1>1, <2>3 DEF Counts
    <3>2. \A r \in Reqs : i[r] = j[r] + (IF e = r THEN 1 ELSE 0) /\ j[r] \in Nat
      BY <2>2, <3>1
    <3>3. i = [r \in Reqs |-> i[r]] /\ j = [r \in Reqs |-> j[r]]
      BY <2>3
    <3> HIDE DEF i, j
    <3>4. Counts(i) /\ i[e] > 0
      BY <2>1, <3>2, <3>3 DEF Counts
    <3>5. \A r \in Reqs : Minus(i, e)[r] = j[r]
      BY <2>1, <3>2, <3>3 DEF Minus
    <3>6. Minus(i, e) = [r \in Reqs |-> Minus(i, e)[r]]
      BY <3>3 DEF Minus
    <3> QED BY <3>3, <3>4, <3>5, <3>6
  <2>5. n[e] = 0
    <3>1. Occurs(e, q) # 0
      <4>1. k + 1 \in 1 .. Len(q) /\ q[k + 1] = e
        BY <1>1, <1>4 DEF e
      <4> QED BY <1>1, <4>1, OccursSome
    <3>2. ReqOK(t, h, n, e) /\ h[e] \in Nat /\ n[e] \in Nat /\ Queued(t, e, p) # 0 /\ Queued(t, e, p) \in Nat
      BY <1>1, <2>1, <3>1, QueueType DEF Good, Counts, Queued
    <3> QED BY <3>2 DEF ReqOK
  <2>6. f[k + 1] = Fail(f[k], e)
    BY <1>2, <1>4 DEF e
  <2>7. Good(f[k], i, n) /\ Kept(t, f[k])
    BY <1>4
  <2> HIDE DEF i, j, P
  <2>8. Good(Fail(f[k], e), j, n) /\ Kept(f[k], Fail(f[k], e))
    BY <2>1, <2>4, <2>5, <2>7, FailGood
  <2>9. Kept(t, f[k + 1])
    BY <2>6, <2>7, <2>8, KeptTrans
  <2> QED BY <2>6, <2>8, <2>9 DEF P, j
<1>5. P(Len(q))
  <2>1. P(0)
    BY <1>2, <1>3
  <2> HIDE DEF P
  <2>2. 0 \in N
    BY <2>1
  <2>3. ASSUME NEW k \in Nat, k \in N PROVE k + 1 \in N
    <3>1. k + 1 <= Len(q) => k < Len(q) /\ k <= Len(q)
      BY <1>1
    <3> QED BY <1>4, <2>3, <3>1
  <2> HIDE DEF N
  <2>4. Len(q) \in N
    BY <1>1, <2>2, <2>3, Q!Induct
  <2> QED BY <1>1, <2>4 DEF N
<1>6. Left(Len(q)) = h
  <2>1. SubSeq(q, Len(q) + 1, Len(q)) = <<>>
    BY <1>1
  <2>2. \A r \in Reqs : Occurs(r, SubSeq(q, Len(q) + 1, Len(q))) = 0
    BY <2>1, OccursNone, Zenon
  <2>3. \A r \in Reqs : h[r] + 0 = h[r]
    BY <1>1 DEF Counts
  <2>4. h = [r \in Reqs |-> h[r]]
    BY <1>1 DEF Counts
  <2>5. \A r \in Reqs : h[r] + Occurs(r, SubSeq(q, Len(q) + 1, Len(q))) = h[r]
    BY <2>2, <2>3, Zenon
  <2> QED BY <2>4, <2>5, Zenon
<1>7. Good(f[Len(q)], h, n) /\ Kept(t, f[Len(q)])
  <2> HIDE DEF Left
  <2> QED BY <1>5, <1>6
<1> QED BY <1>2, <1>7 DEF end

--------------------------------------------------------------------------------
(* What leaves every request where it is. *)

Calm(t, u) ==
    /\ u.ack = t.ack /\ u.ackQueue = t.ackQueue /\ u.net = t.net
    /\ \A r \in Reqs : SameReq(t.req[r], u.req[r])
    /\ \A p \in Pubs : SamePub(t.pub[p], u.pub[p])
Fine(t, u, h, n) == Good(u, h, n) /\ Calm(t, u)

\* The parts of the state that nothing refers to change.
Plain(t, u) ==
    /\ u.ack = t.ack /\ u.ackQueue = t.ackQueue /\ u.net = t.net /\ u.req = t.req /\ u.pub = t.pub /\ u.fault = t.fault

LEMMA CalmSelf == \A t : Calm(t, t)
BY DEF Calm, SameReq, SamePub, SameQueues
LEMMA CalmTrans == ASSUME NEW t, NEW u, NEW v, Calm(t, u), Calm(u, v) PROVE Calm(t, v)
<1>1. ASSUME NEW r \in Reqs PROVE SameReq(t.req[r], v.req[r])
  BY DEF Calm, SameReq
<1>2. ASSUME NEW p \in Pubs PROVE SamePub(t.pub[p], v.pub[p])
  BY DEF Calm, SamePub, SameQueues
<1> QED BY <1>1, <1>2 DEF Calm
LEMMA KeptCalm == ASSUME NEW t, NEW u, Kept(t, u) PROVE Calm(t, u)
BY DEF Kept, Apart, Calm
LEMMA FineTrans == ASSUME NEW t, NEW u, NEW v, NEW h, NEW n, Fine(t, u, h, n), Fine(u, v, h, n) PROVE Fine(t, v, h, n)
BY CalmTrans DEF Fine
LEMMA FineSelf == ASSUME NEW t, NEW h, NEW n, Good(t, h, n) PROVE Fine(t, t, h, n)
BY CalmSelf DEF Fine
LEMMA FineDoes == ASSUME NEW t, NEW u, NEW h, NEW n, Good(t, h, n), Does(t, u) PROVE Fine(t, u, h, n)
BY DoesGood, KeptCalm DEF Fine
LEMMA AlikePlain == ASSUME NEW t, NEW u, Alike(t, u) PROVE Plain(t, u)
BY DEF Alike, Apart, Plain
LEMMA FinePlain ==
    ASSUME NEW t, NEW u \in StateType, NEW h, NEW n, Good(t, h, n), Plain(t, u) PROVE Fine(t, u, h, n)
<1>1. Neutral(t, u)
  BY DEF Neutral, Plain, SameQueues
<1>2. Calm(t, u)
  BY DEF Calm, Plain, SameReq, SamePub, SameQueues
<1> QED BY <1>1, <1>2, GoodNeutral DEF Fine

LEMMA PutHistory ==
    ASSUME NEW t \in StateType, NEW f \in HistoryType
    PROVE  [t EXCEPT !.history = f] \in StateType /\ Plain(t, [t EXCEPT !.history = f])
BY DEF StateType, Plain
LEMMA UpdatePubHistoryIs ==
    ASSUME NEW t \in StateType, NEW i \in PubIds, NEW sn \in Int, NEW ackReq \in BOOLEAN, NEW a \in Sources
    PROVE  LET u == UpdatePubHistory(t, i, sn, ackReq, a) IN u \in StateType /\ Plain(t, u)
<1> DEFINE o == t.history[i]
           w == [sn |-> Larger(o.sn, sn), ackReq |-> ackReq, from |-> [o.from EXCEPT ![a] = Larger(o.from[a], sn)]]
           f == [t.history EXCEPT ![i] = w]
<1>1. t.history \in HistoryType
  BY Parts
<1>2. o.sn \in Int /\ o.from \in [Sources -> Int]
  BY <1>1 DEF HistoryType
<1>3. w \in [sn : Int, ackReq : BOOLEAN, from : [Sources -> Int]]
  BY <1>2 DEF Larger
<1>4. f \in HistoryType
  BY <1>1, <1>3 DEF HistoryType
<1>5. UpdatePubHistory(t, i, sn, ackReq, a) = [t EXCEPT !.history = f]
  <2> DEFINE g == [o.from EXCEPT ![a] = Larger(o.from[a], sn)]
  <2>1. [o.from EXCEPT ![a] = Larger(@, sn)] = g
    BY <1>2
  <2>2. UpdatePubHistory(t, i, sn, ackReq, a) = [t EXCEPT !.history[i] = w]
    BY <2>1, Zenon DEF UpdatePubHistory
  <2> HIDE DEF w
  <2> QED BY <1>1, <2>2 DEF StateType
<1> HIDE DEF f
<1> QED BY <1>4, <1>5, PutHistory

SetSubs(t, a, b, f) == [t EXCEPT !.subscriptions = a, !.freeSubs = b, !.sub = f]
LEMMA PutSubs ==
    ASSUME NEW t \in StateType, NEW a \in Seq(Subs), NEW b \in Seq(Subs), NEW f \in [Subs -> SubType]
    PROVE  /\ SetSubs(t, a, b, f) \in StateType /\ Plain(t, SetSubs(t, a, b, f))
           /\ SetSubs(t, a, b, f).publications = t.publications
BY DEF SetSubs, StateType, Plain
LEMMA AsyncPlain == ASSUME NEW t \in StateType, NEW a \in Tasks PROVE Async(t, a) \in StateType /\ Plain(t, Async(t, a))
BY AsyncIs, AlikePlain
LEMMA PlainTrans == ASSUME NEW t, NEW u, NEW v, Plain(t, u), Plain(u, v) PROVE Plain(t, v)
BY DEF Plain

LEMMA FreeSubscriptionIs ==
    ASSUME NEW t \in StateType, NEW x \in Subs
    PROVE  LET u == FreeSubscription(t, x) IN u \in StateType /\ Plain(t, u) /\ u.publications = t.publications
<1> DEFINE a == Without(t.subscriptions, {x})
           b == <<x>> \o t.freeSubs
           f == [t.sub EXCEPT ![x].st = "freed"]
           v == IF t.sub[x].st = "freed" THEN t ELSE [t EXCEPT !.subscriptions = a, !.freeSubs = b, !.sub = f]
<1>1. t.subscriptions \in Seq(Subs) /\ t.freeSubs \in Seq(Subs) /\ t.sub \in [Subs -> SubType]
  BY Parts
<1>2. a \in Seq(Subs) /\ b \in Seq(Subs) /\ f \in [Subs -> SubType]
  BY <1>1, WithoutIs DEF SubType
<1>3. FreeSubscription(t, x) = IF v.sub[x].refs = 0 THEN Async(v, "free") ELSE v
  BY <1>1 DEF FreeSubscription, StateType
<1> HIDE DEF a, b, f
<1>4. v \in StateType /\ Plain(t, v) /\ v.publications = t.publications
  <2>1. CASE t.sub[x].st = "freed"
    BY <2>1 DEF Plain
  <2>2. CASE t.sub[x].st # "freed"
    <3>1. v = SetSubs(t, a, b, f)
      BY <2>2 DEF SetSubs
    <3> QED BY <1>2, <3>1, PutSubs
  <2> QED BY <2>1, <2>2
<1> HIDE DEF v
<1>5. Async(v, "free") \in StateType /\ Plain(v, Async(v, "free")) /\ Async(v, "free").publications = v.publications
  <2>1. "free" \in Tasks
    BY DEF Tasks
  <2>2. Async(v, "free").publications = v.publications
    BY <1>4 DEF Async, StateType
  <2> QED BY <1>4, <2>1, <2>2, AsyncPlain
<1> QED BY <1>3, <1>4, <1>5, PlainTrans
LEMMA SubRefs ==
    ASSUME NEW t \in StateType, NEW x \in Subs, NEW k \in Int
    PROVE  LET u == [t EXCEPT !.sub = [t.sub EXCEPT ![x] = [t.sub[x] EXCEPT !.refs = k]]]
           IN  u \in StateType /\ Plain(t, u) /\ u.subscriptions = t.subscriptions /\ u.history = t.history
<1> DEFINE f == [t.sub EXCEPT ![x] = [t.sub[x] EXCEPT !.refs = k]]
<1>1. t.sub \in [Subs -> SubType]
  BY Parts
<1>2. f \in [Subs -> SubType]
  BY <1>1 DEF SubType
<1> HIDE DEF f
<1>3. [t EXCEPT !.sub = f] \in StateType /\ Plain(t, [t EXCEPT !.sub = f]) /\ [t EXCEPT !.sub = f].subscriptions = t.subscriptions
      /\ [t EXCEPT !.sub = f].history = t.history
  BY <1>2 DEF StateType, Plain
<1> QED BY <1>3 DEF f
LEMMA SubscriptionDecRefIs ==
    ASSUME NEW t \in StateType, NEW x \in Subs
    PROVE  SubscriptionDecRef(t, x) \in StateType /\ Plain(t, SubscriptionDecRef(t, x))
<1> DEFINE k == t.sub[x].refs - 1
           u == [t EXCEPT !.sub = [t.sub EXCEPT ![x] = [t.sub[x] EXCEPT !.refs = k]]]
<1>1. t.sub \in [Subs -> SubType]
  BY Parts
<1>2. k \in Int
  BY <1>1 DEF SubType
<1>3. SubscriptionDecRef(t, x) = IF u.sub[x].refs = 0 /\ u.sub[x].st = "freed" THEN FreeSubscription(u, x) ELSE u
  BY <1>1 DEF SubscriptionDecRef, StateType, SubType
<1> HIDE DEF k
<1>4. u \in StateType /\ Plain(t, u)
  BY <1>2, SubRefs
<1> HIDE DEF u
<1>5. FreeSubscription(u, x) \in StateType /\ Plain(u, FreeSubscription(u, x))
  BY <1>4, FreeSubscriptionIs
<1> QED BY <1>3, <1>4, <1>5, PlainTrans

LEMMA FreePublicationGood ==
    ASSUME NEW t, NEW h, NEW n, Good(t, h, n), NEW p \in Pubs
    PROVE  Fine(t, FreePublication(t, p), h, n) /\ Kept(t, FreePublication(t, p))
<1>1. t \in StateType /\ t.pub \in [Pubs -> PubType] /\ t.pub[p].flags \in SUBSET Flags
  BY Parts, PubParts DEF Good
<1>2. "free" \in Tasks /\ {"WAS_FREED"} \in SUBSET Flags
  BY DEF Tasks, Flags
<1>3. t.pub[p].flags \cup {"WAS_FREED"} \in SUBSET Flags
  BY <1>1, <1>2
<1>4. CASE "IS_COPY" \in t.pub[p].flags
  <2> DEFINE u == MoveToFree(t, p, t.pub[p].flags \cup {"WAS_FREED"})
  <2>1. FreePublication(t, p) = IF u.pub[p].refs = 0 THEN Async(u, "free") ELSE u
    BY <1>4 DEF FreePublication, FreeCopy
  <2>2. Does(t, u)
    BY <1>1, <1>3, MoveToFreeIs
  <2> HIDE DEF u
  <2>3. Does(u, Async(u, "free"))
    BY <1>2, <2>2, AsyncIs, DoesAlike DEF Does
  <2>4. Does(t, FreePublication(t, p))
    BY <2>1, <2>2, <2>3, DoesTrans
  <2> QED BY <2>4, FineDoes DEF Does
<1>5. CASE "IS_COPY" \notin t.pub[p].flags
  <2> DEFINE u == MoveToFree(t, p, {"WAS_FREED"})
             v == FailQueues(u, p)
  <2>1. FreePublication(t, p) = IF u.pub[p].refs = 0 THEN Async(v, "free") ELSE u
    BY <1>5 DEF FreePublication
  <2>2. Does(t, u)
    BY <1>1, <1>2, MoveToFreeIs
  <2> HIDE DEF u
  <2>3. Good(u, h, n) /\ Kept(t, u)
    BY <2>2, DoesGood
  <2>4. Good(v, h, n) /\ Kept(u, v)
    BY <2>3, FailQueuesGood
  <2> HIDE DEF v
  <2>5. Does(v, Async(v, "free"))
    BY <1>2, <2>4, AsyncIs, DoesAlike DEF Good
  <2>6. Good(Async(v, "free"), h, n) /\ Kept(v, Async(v, "free"))
    BY <2>4, <2>5, DoesGood
  <2>7. Kept(t, Async(v, "free"))
    BY <2>3, <2>4, <2>6, KeptTrans
  <2>8. Good(FreePublication(t, p), h, n) /\ Kept(t, FreePublication(t, p))
    BY <2>1, <2>3, <2>6, <2>7
  <2> QED BY <2>8, KeptCalm DEF Fine
<1> QED BY <1>4, <1>5

LEMMA PutFault ==
    ASSUME NEW t \in StateType, NEW S \in SUBSET Faults
    PROVE  LET u == [t EXCEPT !.fault = S]
           IN  u \in StateType /\ Apart(t, u) /\ u.pub = t.pub /\ u.req = t.req /\ u.fault = S
BY DEF StateType, Apart
LEMMA CheckDoes ==
    ASSUME NEW t \in StateType, NEW cond PROVE Does(t, Check(t, cond, "publication_refCount"))
                                               /\ Check(t, cond, "publication_refCount").pub = t.pub
<1> DEFINE S == t.fault \cup {"publication_refCount"}
           u == [t EXCEPT !.fault = S]
<1>1. S \in SUBSET Faults
  BY Parts DEF Faults
<1>2. "request_refCount" \in S => "request_refCount" \in t.fault
  OBVIOUS
<1>3. Check(t, cond, "publication_refCount") = IF cond THEN t ELSE u
  BY DEF Check
<1> HIDE DEF S
<1>4. u \in StateType /\ Apart(t, u) /\ u.pub = t.pub /\ u.req = t.req /\ u.fault = S
  BY <1>1, PutFault
<1> HIDE DEF u
<1>5. Neutral(t, u) /\ Kept(t, u)
  BY <1>2, <1>4 DEF Neutral, Kept, Apart, SameQueues, SameReq, SamePub
<1> QED BY <1>3, <1>4, <1>5, DoesSelf DEF Does

LEMMA DecRefGood ==
    ASSUME NEW t, NEW h, NEW n, Good(t, h, n), NEW p \in Pubs
    PROVE  Fine(t, PublicationDecRef(t, p), h, n) /\ Kept(t, PublicationDecRef(t, p))
<1> DEFINE c == Check(t, t.pub[p].refs # 0, "publication_refCount")
           k == t.pub[p].refs - 1
           u == SetPub(c, p, [c.pub[p] EXCEPT !.refs = k])
<1>1. t \in StateType /\ t.pub \in [Pubs -> PubType] /\ t.pub[p] \in PubType
  BY Parts DEF Good
<1>2. k \in Int
  BY <1>1, PubParts
<1>3. Does(t, c) /\ c.pub = t.pub /\ c \in StateType
  BY <1>1, CheckDoes DEF Does
<1>4. PublicationDecRef(t, p) = IF u.pub[p].refs = 0 /\ "WAS_FREED" \in u.pub[p].flags THEN FreePublication(u, p) ELSE u
  <2>1. u = [c EXCEPT !.pub[p].refs = @ - 1]
    <3> HIDE DEF c
    <3> QED BY <1>1, <1>3 DEF SetPub, StateType
  <2> QED BY <2>1, Zenon DEF PublicationDecRef
<1> HIDE DEF c, k
<1>5. LET w == [c.pub[p] EXCEPT !.refs = k] IN w \in PubType /\ SameQueues(c.pub[p], w) /\ SamePub(c.pub[p], w)
  BY <1>1, <1>2, <1>3, PubRefs
<1>6. Does(c, u)
  BY <1>3, <1>5, SetPubDoes
<1> HIDE DEF u
<1>7. Good(u, h, n) /\ Kept(t, u) /\ Fine(t, u, h, n)
  <2>1. Does(t, u)
    BY <1>3, <1>6, DoesTrans
  <2> QED BY <2>1, DoesGood, FineDoes
<1>8. Fine(u, FreePublication(u, p), h, n) /\ Kept(u, FreePublication(u, p))
  BY <1>7, FreePublicationGood
<1> QED BY <1>4, <1>7, <1>8, FineTrans, KeptTrans

LEMMA ExpirePubGood ==
    ASSUME NEW t, NEW h, NEW n, Good(t, h, n), NEW p \in Pubs
    PROVE  Fine(t, ExpirePub(t, p), h, n) /\ Kept(t, ExpirePub(t, p))
<1>1. CASE "LOCAL" \in t.pub[p].flags
  <2> DEFINE S == t.pub[p].flags \cup {"EXPIRED"}
             o == [t.pub[p] EXCEPT !.flags = S]
  <2>1. t \in StateType /\ t.pub \in [Pubs -> PubType] /\ t.pub[p] \in PubType
    BY Parts DEF Good
  <2>2. S \in SUBSET Flags
    BY <2>1, PubParts DEF Flags
  <2>3. ExpirePub(t, p) = SetPub(t, p, o)
    BY <1>1, <2>1 DEF ExpirePub, SetPub, StateType
  <2> HIDE DEF S
  <2>4. o \in PubType /\ SameQueues(t.pub[p], o) /\ SamePub(t.pub[p], o)
    BY <2>1, <2>2, PubFlags
  <2>5. Does(t, ExpirePub(t, p))
    BY <2>1, <2>3, <2>4, SetPubDoes
  <2> QED BY <2>5, FineDoes DEF Does
<1>2. CASE "LOCAL" \notin t.pub[p].flags
  BY <1>2, FreePublicationGood DEF ExpirePub
<1> QED BY <1>1, <1>2

--------------------------------------------------------------------------------
(* A request moves from one place to another. *)

QueueOf(o) == o.sendQ \o o.retQ
LEMMA QueueOfIs ==
    ASSUME NEW o \in PubType, NEW x
    PROVE  /\ Occurs(x, QueueOf(o)) = Occurs(x, o.sendQ) + Occurs(x, o.retQ)
           /\ Occurs(x, o.sendQ) \in Nat /\ Occurs(x, o.retQ) \in Nat
BY PubParts, OccursCat, OccursType DEF QueueOf
LEMMA QueueOfPub == \A t, x, p : Queued(t, x, p) = Occurs(x, QueueOf(t.pub[p]))
BY DEF Queued, Queue, QueueOf

SetBoth(t, r, w, p, o) == [t EXCEPT !.req = [t.req EXCEPT ![r] = w], !.pub = [t.pub EXCEPT ![p] = o]]
LEMMA SetBothIs ==
    ASSUME NEW t \in StateType, NEW r \in Reqs, NEW w \in ReqType, NEW p \in Pubs, NEW o \in PubType
    PROVE  LET u == SetBoth(t, r, w, p, o)
           IN  /\ u \in StateType /\ Apart(t, u) /\ u.fault = t.fault /\ OnlyReq(t, u, r)
               /\ u.req[r] = w /\ \A x \in Reqs \ {r} : u.req[x] = t.req[x]
               /\ u.pub[p] = o /\ \A x \in Pubs \ {p} : u.pub[x] = t.pub[x]
<1> DEFINE f == [t.req EXCEPT ![r] = w]
           g == [t.pub EXCEPT ![p] = o]
<1>1. t.req \in [Reqs -> ReqType] /\ t.pub \in [Pubs -> PubType]
  BY Parts
<1>2. /\ f \in [Reqs -> ReqType] /\ f[r] = w /\ \A x \in Reqs \ {r} : f[x] = t.req[x]
      /\ g \in [Pubs -> PubType] /\ g[p] = o /\ \A x \in Pubs \ {p} : g[x] = t.pub[x]
  BY <1>1
<1>3. f = [t.req EXCEPT ![r] = f[r]]
  BY <1>2
<1> HIDE DEF f, g
<1>4. LET v == [t EXCEPT !.req = f]
      IN  /\ v \in StateType /\ Apart(t, v) /\ v.req = f /\ v.pub = t.pub /\ v.fault = t.fault
  BY <1>2, PutReq
<1> DEFINE v == [t EXCEPT !.req = f]
<1>5. SetBoth(t, r, w, p, o) = [v EXCEPT !.pub = g]
  BY DEF SetBoth, f, g
<1> HIDE DEF v
<1>6. LET u == [v EXCEPT !.pub = g]
      IN  /\ u \in StateType /\ Apart(v, u) /\ u.pub = g /\ u.req = v.req /\ u.fault = v.fault
  BY <1>2, <1>4, PutPub DEF v
<1> DEFINE u == [v EXCEPT !.pub = g]
<1> HIDE DEF u
<1>7. /\ u \in StateType /\ Apart(v, u) /\ u.pub = g /\ u.req = f /\ u.fault = t.fault /\ Apart(t, v)
  BY <1>4, <1>6 DEF u, v
<1>8. Apart(t, u)
  BY <1>7 DEF Apart
<1> QED BY <1>2, <1>3, <1>5, <1>7, <1>8 DEF OnlyReq, u

Else(h, i, r) == \A x \in Reqs \ {r} : i[x] = h[x]
\* w and o are what the request and its publication become.
Moved(t, r, w, p, o) ==
    /\ t.req[r].st = "live" /\ t.req[r].pub = p /\ w.st = "live" /\ w.pub = p
    /\ w.calls = t.req[r].calls /\ w.cb = t.req[r].cb
    /\ \A x \in Reqs \ {r} : Occurs(x, QueueOf(o)) = Queued(t, x, p)
Balance(t, r, w, p, o, h, i) ==
    w.refs - Occurs(r, QueueOf(o)) - i[r] = t.req[r].refs - Queued(t, r, p) - h[r]
OnePlace(t, r, p, o, h, i, n, l) ==
    Occurs(r, QueueOf(o)) + i[r] + l[r] = Queued(t, r, p) + h[r] + n[r]
LEMMA MovedGood ==
    ASSUME NEW t, NEW h, NEW n, Good(t, h, n), NEW r \in Reqs, NEW w \in ReqType, NEW p \in Pubs, NEW o \in PubType,
           Moved(t, r, w, p, o), NEW i, NEW l, Counts(i), Counts(l), Else(h, i, r), Else(n, l, r),
           Balance(t, r, w, p, o, h, i), OnePlace(t, r, p, o, h, i, n, l)
    PROVE  Good(SetBoth(t, r, w, p, o), i, l)
<1> DEFINE u == SetBoth(t, r, w, p, o)
           q == t.req[r]
<1>1. t \in StateType /\ Counts(h) /\ Counts(n) /\ ReqOK(t, h, n, r) /\ q \in ReqType
  BY Parts DEF Good
<1>2. /\ u \in StateType /\ Apart(t, u) /\ u.fault = t.fault /\ OnlyReq(t, u, r)
      /\ u.req[r] = w /\ u.pub[p] = o /\ \A x \in Pubs \ {p} : u.pub[x] = t.pub[x]
  BY <1>1, SetBothIs
<1> HIDE DEF u
<1>3. \A x : Flying(u, x) = Flying(t, x)
  BY <1>2 DEF Apart, Flying
<1>4. \A x : Queued(u, x, p) = Occurs(x, QueueOf(o)) /\ \A y \in Pubs \ {p} : Queued(u, x, y) = Queued(t, x, y)
  BY <1>2, QueueOfPub
<1>5. SameCounts(t, u, h, i, Reqs \ {r})
  BY <1>3, <1>4 DEF SameCounts, Moved, Else
<1>6. /\ q.st = "live" /\ q.pub = p /\ w.st = "live" /\ w.pub = p /\ w.calls = q.calls /\ w.cb = q.cb
      /\ w.refs - Queued(u, r, p) - i[r] = q.refs - Queued(t, r, p) - h[r]
      /\ Queued(u, r, p) + i[r] + l[r] = Queued(t, r, p) + h[r] + n[r]
  BY <1>4 DEF Moved, Balance, OnePlace
<1>7. /\ q.refs \in Int /\ w.refs \in Int /\ i[r] \in Nat /\ h[r] \in Nat /\ l[r] \in Nat /\ n[r] \in Nat
      /\ Queued(u, r, p) \in Nat /\ Queued(t, r, p) \in Nat /\ Flying(t, r) \in Nat
  BY <1>1, <1>2, ReqParts, QueueType, FlyingType DEF Counts
<1>8. q.refs = Queued(t, r, p) + Flying(t, r) + h[r] /\ Queued(t, r, p) + h[r] + n[r] <= 1
      /\ (\A y \in Pubs : Queued(t, r, y) # 0 => y = p) /\ q.calls = 0
  BY <1>1, <1>6 DEF ReqOK
<1> HIDE DEF q
<1>9. w.refs = Queued(u, r, p) + Flying(u, r) + i[r] /\ Queued(u, r, p) + i[r] + l[r] <= 1
  BY <1>3, <1>6, <1>7, <1>8
<1>10. ReqOK(u, i, l, r)
  <2>1. \A y \in Pubs : Queued(u, r, y) # 0 => y = p
    BY <1>4, <1>8
  <2> QED BY <1>2, <1>6, <1>8, <1>9, <2>1 DEF ReqOK
<1>11. Good(u, i, l)
  BY <1>2, <1>5, <1>10, OneReq DEF Else
<1> QED BY <1>11 DEF u

LEMMA CountsAre == ASSUME NEW h, Counts(h), NEW r \in Reqs PROVE h[r] \in Nat
BY DEF Counts
LEMMA ElsePlus == ASSUME NEW h, Counts(h), NEW r \in Reqs PROVE Counts(Plus(h, r)) /\ Else(h, Plus(h, r), r) /\ Plus(h, r)[r] = h[r] + 1
BY PlusIs DEF Else
LEMMA ElseMinus == ASSUME NEW h, Counts(h), NEW r \in Reqs, h[r] > 0
                   PROVE  Counts(Minus(h, r)) /\ Else(h, Minus(h, r), r) /\ Minus(h, r)[r] = h[r] - 1
BY MinusIs DEF Else
LEMMA ElseSelf == \A h, r : Else(h, h, r)
BY DEF Else

\* The first of the requests to be sent is taken from its queue.
LEMMA TakeSend ==
    ASSUME NEW t, NEW h, NEW n, Good(t, h, n), NEW p \in Pubs, t.pub[p].sendQ # <<>>
    PROVE  LET r == Head(t.pub[p].sendQ)
           IN  /\ r \in Reqs /\ t.req[r].st = "live" /\ t.req[r].pub = p /\ h[r] = 0 /\ n[r] = 0
               /\ t.req[r].refs > 0
               /\ \A w \in ReqType : w.st = "live" /\ w.pub = p /\ w.calls = t.req[r].calls /\ w.cb = t.req[r].cb
                                     /\ w.refs = t.req[r].refs - 1
                    => Good(SetBoth(t, r, w, p, [t.pub[p] EXCEPT !.sendQ = Tail(t.pub[p].sendQ)]), h, Plus(n, r))
<1> DEFINE o == t.pub[p]
           r == Head(o.sendQ)
           l == Tail(o.sendQ)
           v == [o EXCEPT !.sendQ = l]
<1>1. t \in StateType /\ o \in PubType /\ Counts(h) /\ Counts(n)
  BY Parts DEF Good
<1>2. o.sendQ \in Seq(Reqs) /\ o.retQ \in Seq(Reqs)
  BY <1>1, PubParts
<1>3. r \in Reqs /\ l \in Seq(Reqs) /\ \A x : Occurs(x, o.sendQ) = Occurs(x, l) + IF r = x THEN 1 ELSE 0
  BY <1>2, OccursTail
<1> HIDE DEF r, l
<1>4. v \in PubType /\ v.sendQ = l /\ v.retQ = o.retQ
  BY <1>1, <1>3 DEF PubType
<1> HIDE DEF v
<1>5. /\ \A x : Occurs(x, QueueOf(o)) = Occurs(x, o.sendQ) + Occurs(x, o.retQ)
      /\ \A x : Occurs(x, QueueOf(v)) = Occurs(x, l) + Occurs(x, o.retQ)
      /\ \A x : Occurs(x, l) \in Nat /\ Occurs(x, o.retQ) \in Nat
  BY <1>1, <1>4, QueueOfIs
<1>6. \A x : Occurs(x, QueueOf(o)) = Occurs(x, QueueOf(v)) + (IF r = x THEN 1 ELSE 0) /\ Occurs(x, QueueOf(v)) \in Nat
  <2> TAKE x
  <2>1. Occurs(x, o.sendQ) = Occurs(x, l) + IF r = x THEN 1 ELSE 0
    BY <1>3
  <2> QED BY <1>5, <2>1
<1>7. Queued(t, r, p) = Occurs(r, QueueOf(v)) + 1 /\ Occurs(r, QueueOf(v)) \in Nat
  BY <1>6, QueueOfPub
<1>8. ReqOK(t, h, n, r) /\ h[r] \in Nat /\ n[r] \in Nat /\ t.req[r] \in ReqType
  BY <1>1, <1>3, Parts DEF Good, Counts
<1>9. t.req[r].st # "unused" /\ t.req[r].pub = p
  BY <1>7, <1>8 DEF ReqOK
<1>10. t.req[r].refs = Queued(t, r, p) + Flying(t, r) + h[r] /\ Queued(t, r, p) + h[r] + n[r] <= 1
  BY <1>8, <1>9 DEF ReqOK
<1>11. Flying(t, r) \in Nat /\ t.req[r].refs \in Int
  BY <1>1, <1>8, FlyingType, ReqParts
<1>12. h[r] = 0 /\ n[r] = 0 /\ t.req[r].refs > 0 /\ Occurs(r, QueueOf(v)) = 0
  BY <1>7, <1>8, <1>10, <1>11
<1>13. t.req[r].st = "live"
  BY <1>8, <1>12 DEF ReqOK
<1>14. ASSUME NEW w \in ReqType, w.st = "live", w.pub = p, w.calls = t.req[r].calls, w.cb = t.req[r].cb,
              w.refs = t.req[r].refs - 1
       PROVE  Good(SetBoth(t, r, w, p, v), h, Plus(n, r))
  <2> DEFINE i == Plus(n, r)
  <2>1. Counts(i) /\ Else(n, i, r) /\ i[r] = n[r] + 1
    BY <1>1, <1>3, ElsePlus
  <2> HIDE DEF i
  <2>2. Moved(t, r, w, p, v)
    <3>1. \A x \in Reqs \ {r} : Occurs(x, QueueOf(v)) = Queued(t, x, p)
      <4> TAKE x \in Reqs \ {r}
      <4>1. Occurs(x, QueueOf(o)) = Occurs(x, QueueOf(v)) + 0 /\ Occurs(x, QueueOf(v)) \in Nat
        BY <1>6
      <4> QED BY <4>1, QueueOfPub
    <3> QED BY <1>9, <1>13, <1>14, <3>1 DEF Moved
  <2>3. Balance(t, r, w, p, v, h, h) /\ OnePlace(t, r, p, v, h, h, n, i)
    <3> DEFINE k == Occurs(r, QueueOf(v))
    <3>1. k \in Nat /\ Queued(t, r, p) = k + 1 /\ w.refs = t.req[r].refs - 1 /\ t.req[r].refs \in Int
      BY <1>7, <1>11, <1>14
    <3> HIDE DEF k
    <3>2. w.refs - k - h[r] = t.req[r].refs - Queued(t, r, p) - h[r] /\ k + h[r] + i[r] = Queued(t, r, p) + h[r] + n[r]
      <4>1. h[r] \in Nat /\ n[r] \in Nat /\ i[r] = n[r] + 1
        BY <1>8, <2>1
      <4> DEFINE a == w.refs  b == t.req[r].refs  c == Queued(t, r, p)  d == h[r]  e == n[r]  f == i[r]
      <4>2. a = b - 1 /\ c = k + 1 /\ f = e + 1 /\ b \in Int /\ d \in Nat /\ e \in Nat /\ k \in Nat
        BY <3>1, <4>1
      <4> HIDE DEF a, b, c, d, e, f
      <4>3. a - k - d = b - c - d /\ k + d + f = c + d + e
        BY <4>2
      <4> QED BY <4>3 DEF a, b, c, d, e, f
    <3> QED BY <3>2 DEF Balance, OnePlace, k
  <2>4. Else(h, h, r)
    BY ElseSelf
  <2>5. Good(SetBoth(t, r, w, p, v), h, i)
    BY <1>1, <1>3, <1>4, <2>1, <2>2, <2>3, <2>4, MovedGood
  <2> QED BY <2>5 DEF i
<1> QED BY <1>3, <1>9, <1>12, <1>13, <1>14 DEF v, l, r

\* What a request is after a move: its place, its references and its status are all that changed.
SameUse(q, w) == w.st = q.st /\ w.pub = q.pub /\ w.calls = q.calls /\ w.cb = q.cb
\* A publication with one more request in its queues, with one less.
Joined(o, v, r) == v \in PubType /\ \A x \in Reqs : Occurs(x, QueueOf(v)) = Occurs(x, QueueOf(o)) + IF x = r THEN 1 ELSE 0

LEMMA JoinedIs ==
    ASSUME NEW o \in PubType, NEW r \in Reqs
    PROVE  /\ Joined(o, [o EXCEPT !.sendQ = Append(o.sendQ, r)], r) /\ Joined(o, [o EXCEPT !.retQ = Append(o.retQ, r)], r)
           /\ o.retQ # <<>> => LET e == Head(o.retQ) IN e \in Reqs /\ Joined([o EXCEPT !.retQ = Tail(o.retQ)], o, e)
                               /\ [o EXCEPT !.retQ = Tail(o.retQ)] \in PubType
<1>1. o.sendQ \in Seq(Reqs) /\ o.retQ \in Seq(Reqs)
  BY PubParts
<1>2. \A x : Occurs(x, QueueOf(o)) = Occurs(x, o.sendQ) + Occurs(x, o.retQ) /\ Occurs(x, o.sendQ) \in Nat /\ Occurs(x, o.retQ) \in Nat
  BY QueueOfIs
<1>3. Joined(o, [o EXCEPT !.sendQ = Append(o.sendQ, r)], r)
  <2> DEFINE l == Append(o.sendQ, r)
             v == [o EXCEPT !.sendQ = l]
  <2>1. l \in Seq(Reqs) /\ \A x : Occurs(x, l) = Occurs(x, o.sendQ) + IF r = x THEN 1 ELSE 0
    BY <1>1, OccursAppend
  <2> HIDE DEF l
  <2>2. v \in PubType /\ v.sendQ = l /\ v.retQ = o.retQ
    BY <2>1 DEF PubType
  <2> HIDE DEF v
  <2>3. \A x : Occurs(x, QueueOf(v)) = Occurs(x, l) + Occurs(x, o.retQ)
    BY <2>2, QueueOfIs
  <2>4. ASSUME NEW x \in Reqs PROVE Occurs(x, QueueOf(v)) = Occurs(x, QueueOf(o)) + IF x = r THEN 1 ELSE 0
    <3> DEFINE a == Occurs(x, o.sendQ)  b == Occurs(x, o.retQ)  c == Occurs(x, l)
    <3>1. c = a + (IF r = x THEN 1 ELSE 0) /\ Occurs(x, QueueOf(v)) = c + b /\ Occurs(x, QueueOf(o)) = a + b /\ a \in Nat /\ b \in Nat
      BY <1>2, <2>1, <2>3
    <3> HIDE DEF a, b, c
    <3> QED BY <3>1
  <2> QED BY <2>2, <2>4 DEF Joined, v, l
<1>4. Joined(o, [o EXCEPT !.retQ = Append(o.retQ, r)], r)
  <2> DEFINE l == Append(o.retQ, r)
             v == [o EXCEPT !.retQ = l]
  <2>1. l \in Seq(Reqs) /\ \A x : Occurs(x, l) = Occurs(x, o.retQ) + IF r = x THEN 1 ELSE 0
    BY <1>1, OccursAppend
  <2> HIDE DEF l
  <2>2. v \in PubType /\ v.retQ = l /\ v.sendQ = o.sendQ
    BY <2>1 DEF PubType
  <2> HIDE DEF v
  <2>3. \A x : Occurs(x, QueueOf(v)) = Occurs(x, o.sendQ) + Occurs(x, l)
    BY <2>2, QueueOfIs
  <2>4. ASSUME NEW x \in Reqs PROVE Occurs(x, QueueOf(v)) = Occurs(x, QueueOf(o)) + IF x = r THEN 1 ELSE 0
    <3> DEFINE a == Occurs(x, o.sendQ)  b == Occurs(x, o.retQ)  c == Occurs(x, l)
    <3>1. c = b + (IF r = x THEN 1 ELSE 0) /\ Occurs(x, QueueOf(v)) = a + c /\ Occurs(x, QueueOf(o)) = a + b /\ a \in Nat /\ b \in Nat
      BY <1>2, <2>1, <2>3
    <3> HIDE DEF a, b, c
    <3> QED BY <3>1
  <2> QED BY <2>2, <2>4 DEF Joined, v, l
<1>5. ASSUME o.retQ # <<>>
      PROVE  LET e == Head(o.retQ) IN e \in Reqs /\ Joined([o EXCEPT !.retQ = Tail(o.retQ)], o, e)
                               /\ [o EXCEPT !.retQ = Tail(o.retQ)] \in PubType
  <2> DEFINE l == Tail(o.retQ)
             e == Head(o.retQ)
             v == [o EXCEPT !.retQ = l]
  <2>1. e \in Reqs /\ l \in Seq(Reqs) /\ \A x : Occurs(x, o.retQ) = Occurs(x, l) + IF e = x THEN 1 ELSE 0
    BY <1>1, <1>5, OccursTail
  <2> HIDE DEF l, e
  <2>2. v \in PubType /\ v.retQ = l /\ v.sendQ = o.sendQ
    BY <2>1 DEF PubType
  <2> HIDE DEF v
  <2>3. \A x : Occurs(x, QueueOf(v)) = Occurs(x, o.sendQ) + Occurs(x, l) /\ Occurs(x, l) \in Nat
    BY <2>2, QueueOfIs
  <2>4. ASSUME NEW x \in Reqs PROVE Occurs(x, QueueOf(o)) = Occurs(x, QueueOf(v)) + IF x = e THEN 1 ELSE 0
    <3> DEFINE a == Occurs(x, o.sendQ)  b == Occurs(x, o.retQ)  c == Occurs(x, l)
    <3>1. b = c + (IF e = x THEN 1 ELSE 0) /\ Occurs(x, QueueOf(v)) = a + c /\ Occurs(x, QueueOf(o)) = a + b /\ a \in Nat /\ c \in Nat
      BY <1>2, <2>1, <2>3
    <3> HIDE DEF a, b, c
    <3> QED BY <3>1
  <2> QED BY <2>1, <2>2, <2>4 DEF Joined, v, l, e
<1> QED BY <1>3, <1>4, <1>5

\* A request used by one task alone is put in a queue with a reference.
LEMMA Enqueue ==
    ASSUME NEW t, NEW h, NEW n, Good(t, h, n), NEW r \in Reqs, n[r] > 0, NEW w \in ReqType, SameUse(t.req[r], w),
           w.refs = t.req[r].refs + 1, NEW p \in Pubs, p = t.req[r].pub, NEW o, Joined(t.pub[p], o, r)
    PROVE  Good(SetBoth(t, r, w, p, o), h, Minus(n, r))
<1> DEFINE l == Minus(n, r)
<1>1. t \in StateType /\ Counts(h) /\ Counts(n) /\ ReqOK(t, h, n, r) /\ t.req[r] \in ReqType
  BY Parts DEF Good
<1>2. Counts(l) /\ Else(n, l, r) /\ l[r] = n[r] - 1
  BY <1>1, ElseMinus
<1> HIDE DEF l
<1>3. t.req[r].st = "live" /\ o \in PubType
  BY <1>1 DEF ReqOK, Joined
<1>4. \A x \in Reqs : Occurs(x, QueueOf(o)) = Queued(t, x, p) + (IF x = r THEN 1 ELSE 0) /\ Queued(t, x, p) \in Nat
  BY <1>1, QueueType, QueueOfPub DEF Joined
<1>5. Moved(t, r, w, p, o)
  <2>1. ASSUME NEW x \in Reqs \ {r} PROVE Occurs(x, QueueOf(o)) = Queued(t, x, p)
    <3>1. Occurs(x, QueueOf(o)) = Queued(t, x, p) + 0 /\ Queued(t, x, p) \in Nat
      BY <1>4
    <3> QED BY <3>1
  <2> QED BY <1>3, <2>1 DEF Moved, SameUse
<1>6. Balance(t, r, w, p, o, h, h) /\ OnePlace(t, r, p, o, h, h, n, l)
  <2> DEFINE a == w.refs  b == t.req[r].refs  c == Queued(t, r, p)  d == h[r]  e == n[r]  f == l[r]  k == Occurs(r, QueueOf(o))
  <2>1. a = b + 1 /\ k = c + 1 /\ f = e - 1 /\ b \in Int /\ d \in Nat /\ e \in Nat /\ c \in Nat
    BY <1>1, <1>2, <1>4, CountsAre, ReqParts
  <2> HIDE DEF a, b, c, d, e, f, k
  <2>2. a - k - d = b - c - d /\ k + d + f = c + d + e
    BY <2>1
  <2> QED BY <2>2 DEF Balance, OnePlace, a, b, c, d, e, f, k
<1>7. Else(h, h, r)
  BY ElseSelf
<1>8. Good(SetBoth(t, r, w, p, o), h, l)
  BY <1>1, <1>2, <1>3, <1>5, <1>6, <1>7, MovedGood
<1> QED BY <1>8 DEF l

\* A retained request is taken from its queue, with its reference.
LEMMA TakeRet ==
    ASSUME NEW t, NEW h, NEW n, Good(t, h, n), NEW p \in Pubs, NEW r \in Reqs, NEW o \in PubType, Joined(o, t.pub[p], r)
    PROVE  /\ Good(SetPub(t, p, o), Plus(h, r), n) /\ t.req[r].st = "live" /\ t.req[r].pub = p /\ h[r] = 0 /\ n[r] = 0
<1> DEFINE i == Plus(h, r)
           w == t.req[r]
<1>1. t \in StateType /\ Counts(h) /\ Counts(n) /\ ReqOK(t, h, n, r) /\ w \in ReqType
      /\ t.req \in [Reqs -> ReqType] /\ h[r] \in Nat /\ n[r] \in Nat
  BY Parts DEF Good, Counts
<1>2. Counts(i) /\ Else(h, i, r) /\ i[r] = h[r] + 1
  BY <1>1, ElsePlus
<1> HIDE DEF i
<1>3. \A x \in Reqs : Queued(t, x, p) = Occurs(x, QueueOf(o)) + (IF x = r THEN 1 ELSE 0) /\ Occurs(x, QueueOf(o)) \in Nat
  <2>1. \A x \in Reqs : Occurs(x, QueueOf(o)) = Occurs(x, o.sendQ) + Occurs(x, o.retQ)
                        /\ Occurs(x, o.sendQ) \in Nat /\ Occurs(x, o.retQ) \in Nat
    BY QueueOfIs
  <2>2. \A x \in Reqs : Occurs(x, QueueOf(o)) \in Nat
    BY <2>1
  <2> QED BY <2>2, QueueOfPub DEF Joined
<1>4. Queued(t, r, p) = Occurs(r, QueueOf(o)) + 1 /\ Queued(t, r, p) # 0
  BY <1>3
<1>5. w.st # "unused" /\ w.pub = p
  BY <1>1, <1>4 DEF ReqOK
<1>6. w.refs = Queued(t, r, p) + Flying(t, r) + h[r] /\ Queued(t, r, p) + h[r] + n[r] <= 1
  BY <1>1, <1>5 DEF ReqOK
<1>7. Flying(t, r) \in Nat /\ w.refs \in Int /\ Queued(t, r, p) \in Nat
  BY <1>1, <1>3, FlyingType, ReqParts, QueueType
<1>8. w.refs > 0 /\ h[r] = 0 /\ n[r] = 0
  <2> DEFINE a == w.refs  b == Queued(t, r, p)  c == Flying(t, r)  d == h[r]  e == n[r]
  <2>1. a = b + c + d /\ b + d + e <= 1 /\ b \in Nat /\ c \in Nat /\ d \in Nat /\ e \in Nat /\ b # 0
    BY <1>1, <1>4, <1>6, <1>7
  <2> HIDE DEF a, b, c, d, e
  <2>2. a > 0 /\ d = 0 /\ e = 0
    BY <2>1
  <2> QED BY <2>2 DEF a, d, e
<1>9. w.st = "live"
  BY <1>1, <1>8 DEF ReqOK
<1>10. Moved(t, r, w, p, o)
  <2>1. ASSUME NEW x \in Reqs \ {r} PROVE Occurs(x, QueueOf(o)) = Queued(t, x, p)
    <3>1. Queued(t, x, p) = Occurs(x, QueueOf(o)) + 0 /\ Occurs(x, QueueOf(o)) \in Nat
      BY <1>3
    <3> QED BY <3>1
  <2> QED BY <1>5, <1>9, <2>1 DEF Moved
<1>11. Balance(t, r, w, p, o, h, i) /\ OnePlace(t, r, p, o, h, i, n, n)
  <2> DEFINE a == w.refs  c == Queued(t, r, p)  d == h[r]  e == n[r]  f == i[r]  k == Occurs(r, QueueOf(o))
  <2>1. c = k + 1 /\ f = d + 1 /\ a \in Int /\ d \in Nat /\ e \in Nat /\ k \in Nat
    BY <1>1, <1>2, <1>3, <1>4, <1>7
  <2> HIDE DEF a, c, d, e, f, k
  <2>2. a - k - f = a - c - d /\ k + f + e = c + d + e
    BY <2>1
  <2> QED BY <2>2 DEF Balance, OnePlace, a, c, d, e, f, k
<1>12. Else(n, n, r)
  BY ElseSelf
<1>13. Good(SetBoth(t, r, w, p, o), i, n)
  <2> HIDE DEF w
  <2> QED BY <1>1, <1>2, <1>10, <1>11, <1>12, MovedGood
<1>14. SetBoth(t, r, w, p, o) = SetPub(t, p, o)
  <2>1. [t.req EXCEPT ![r] = w] = t.req
    BY <1>1
  <2> HIDE DEF w
  <2>2. [t EXCEPT !.req = t.req, !.pub = [t.pub EXCEPT ![p] = o]] = [t EXCEPT !.pub = [t.pub EXCEPT ![p] = o]]
    BY <1>1 DEF StateType
  <2> QED BY <2>1, <2>2 DEF SetBoth, SetPub
<1> QED BY <1>5, <1>8, <1>9, <1>13, <1>14 DEF i

SetReq(t, r, w) == [t EXCEPT !.req = [t.req EXCEPT ![r] = w]]
LEMMA SetReqIs ==
    ASSUME NEW t \in StateType, NEW r \in Reqs, NEW w \in ReqType
    PROVE  LET u == SetReq(t, r, w)
           IN  /\ u \in StateType /\ Apart(t, u) /\ u.fault = t.fault /\ OnlyReq(t, u, r) /\ u.pub = t.pub
               /\ u.req[r] = w /\ \A x \in Reqs \ {r} : u.req[x] = t.req[x]
               /\ \A p \in Pubs : u = SetBoth(t, r, w, p, t.pub[p])
<1> DEFINE f == [t.req EXCEPT ![r] = w]
<1>1. t.req \in [Reqs -> ReqType] /\ t.pub \in [Pubs -> PubType]
  BY Parts
<1>2. f \in [Reqs -> ReqType] /\ f[r] = w /\ (\A x \in Reqs \ {r} : f[x] = t.req[x]) /\ f = [t.req EXCEPT ![r] = f[r]]
  BY <1>1
<1>3. ASSUME NEW p \in Pubs PROVE SetReq(t, r, w) = SetBoth(t, r, w, p, t.pub[p])
  <2>1. [t.pub EXCEPT ![p] = t.pub[p]] = t.pub
    BY <1>1
  <2> HIDE DEF f
  <2>2. [t EXCEPT !.req = f, !.pub = t.pub] = [t EXCEPT !.req = f]
    BY <1>1 DEF StateType
  <2> QED BY <2>1, <2>2 DEF SetBoth, SetReq, f
<1> HIDE DEF f
<1>4. LET u == [t EXCEPT !.req = f]
      IN  /\ u \in StateType /\ Apart(t, u) /\ u.req = f /\ u.pub = t.pub /\ u.fault = t.fault
  BY <1>2, PutReq
<1> QED BY <1>2, <1>3, <1>4 DEF SetReq, OnlyReq, f

\* A request used by one task is held with a reference; a reference is given up for such a use.
LEMMA Hold ==
    ASSUME NEW t, NEW h, NEW n, Good(t, h, n), NEW r \in Reqs, n[r] > 0, NEW w \in ReqType, SameUse(t.req[r], w),
           w.refs = t.req[r].refs + 1
    PROVE  Good(SetReq(t, r, w), Plus(h, r), Minus(n, r))
<1> DEFINE l == Minus(n, r)
           i == Plus(h, r)
           p == t.req[r].pub
           o == t.pub[p]
<1>1. t \in StateType /\ Counts(h) /\ Counts(n) /\ ReqOK(t, h, n, r) /\ t.req[r] \in ReqType /\ t.pub \in [Pubs -> PubType]
      /\ h[r] \in Nat /\ n[r] \in Nat
  BY Parts DEF Good, Counts
<1>2. Counts(l) /\ Else(n, l, r) /\ l[r] = n[r] - 1 /\ Counts(i) /\ Else(h, i, r) /\ i[r] = h[r] + 1
  BY <1>1, ElseMinus, ElsePlus
<1> HIDE DEF l, i
<1>3. t.req[r].st = "live" /\ p \in Pubs
  BY <1>1 DEF ReqOK
<1>4. o \in PubType /\ \A x \in Reqs : Occurs(x, QueueOf(o)) = Queued(t, x, p)
  BY <1>1, <1>3, QueueOfPub
<1>5. Moved(t, r, w, p, o)
  BY <1>3, <1>4 DEF Moved, SameUse
<1>6. Balance(t, r, w, p, o, h, i) /\ OnePlace(t, r, p, o, h, i, n, l)
  <2> DEFINE a == w.refs  b == t.req[r].refs  c == Queued(t, r, p)  d == h[r]  e == n[r]  f == l[r]  g == i[r]
             k == Occurs(r, QueueOf(o))
  <2>1. a = b + 1 /\ k = c /\ f = e - 1 /\ g = d + 1 /\ b \in Int /\ d \in Nat /\ e \in Nat /\ c \in Nat
    BY <1>1, <1>2, <1>3, <1>4, QueueType, ReqParts
  <2> HIDE DEF a, b, c, d, e, f, g, k
  <2>2. a - k - g = b - c - d /\ k + g + f = c + d + e
    BY <2>1
  <2> QED BY <2>2 DEF Balance, OnePlace, a, b, c, d, e, f, g, k
<1>7. SetReq(t, r, w) = SetBoth(t, r, w, p, o)
  BY <1>1, <1>3, SetReqIs
<1> HIDE DEF o, p
<1>8. Good(SetBoth(t, r, w, p, o), i, l)
  BY <1>1, <1>2, <1>3, <1>4, <1>5, <1>6, MovedGood
<1> QED BY <1>7, <1>8 DEF l, i
LEMMA LetGo ==
    ASSUME NEW t, NEW h, NEW n, Good(t, h, n), NEW r \in Reqs, h[r] > 0, NEW w \in ReqType, SameUse(t.req[r], w),
           w.refs = t.req[r].refs - 1
    PROVE  Good(SetReq(t, r, w), Minus(h, r), Plus(n, r))
<1> DEFINE l == Plus(n, r)
           i == Minus(h, r)
           p == t.req[r].pub
           o == t.pub[p]
<1>1. t \in StateType /\ Counts(h) /\ Counts(n) /\ ReqOK(t, h, n, r) /\ t.req[r] \in ReqType /\ t.pub \in [Pubs -> PubType]
      /\ h[r] \in Nat /\ n[r] \in Nat
  BY Parts DEF Good, Counts
<1>2. Counts(l) /\ Else(n, l, r) /\ l[r] = n[r] + 1 /\ Counts(i) /\ Else(h, i, r) /\ i[r] = h[r] - 1
  BY <1>1, ElseMinus, ElsePlus
<1> HIDE DEF l, i
<1>3. t.req[r].st = "live" /\ p \in Pubs
  <2>1. t.req[r].st # "unused" /\ p \in Pubs
    BY <1>1 DEF ReqOK
  <2>2. t.req[r].refs = Queued(t, r, p) + Flying(t, r) + h[r] /\ Queued(t, r, p) \in Nat /\ Flying(t, r) \in Nat
    BY <1>1, <2>1, QueueType, FlyingType DEF ReqOK
  <2>3. t.req[r].refs > 0
    <3> DEFINE a == t.req[r].refs  b == Queued(t, r, p)  c == Flying(t, r)  d == h[r]
    <3>1. a = b + c + d /\ b \in Nat /\ c \in Nat /\ d \in Nat /\ d > 0
      BY <1>1, <2>2
    <3> HIDE DEF a, b, c, d
    <3>2. a > 0
      BY <3>1
    <3> QED BY <3>2 DEF a
  <2> QED BY <1>1, <2>1, <2>3 DEF ReqOK
<1>4. o \in PubType /\ \A x \in Reqs : Occurs(x, QueueOf(o)) = Queued(t, x, p)
  BY <1>1, <1>3, QueueOfPub
<1>5. Moved(t, r, w, p, o)
  BY <1>3, <1>4 DEF Moved, SameUse
<1>6. Balance(t, r, w, p, o, h, i) /\ OnePlace(t, r, p, o, h, i, n, l)
  <2> DEFINE a == w.refs  b == t.req[r].refs  c == Queued(t, r, p)  d == h[r]  e == n[r]  f == l[r]  g == i[r]
             k == Occurs(r, QueueOf(o))
  <2>1. a = b - 1 /\ k = c /\ f = e + 1 /\ g = d - 1 /\ b \in Int /\ d \in Nat /\ e \in Nat /\ c \in Nat
    BY <1>1, <1>2, <1>3, <1>4, QueueType, ReqParts
  <2> HIDE DEF a, b, c, d, e, f, g, k
  <2>2. a - k - g = b - c - d /\ k + g + f = c + d + e
    BY <2>1
  <2> QED BY <2>2 DEF Balance, OnePlace, a, b, c, d, e, f, g, k
<1>7. SetReq(t, r, w) = SetBoth(t, r, w, p, o)
  BY <1>1, <1>3, SetReqIs
<1> HIDE DEF o, p
<1>8. Good(SetBoth(t, r, w, p, o), i, l)
  BY <1>1, <1>2, <1>3, <1>4, <1>5, <1>6, MovedGood
<1> QED BY <1>7, <1>8 DEF l, i

--------------------------------------------------------------------------------
(* Requests begin and end. *)

LEMMA NewGood ==
    ASSUME NEW t, NEW h, NEW n, Good(t, h, n), NEW r \in Reqs, t.req[r].st = "unused", NEW u \in StateType,
           OnlyReq(t, u, r), u.net = t.net, u.fault = t.fault, \A p \in Pubs : SameQueues(t.pub[p], u.pub[p]),
           u.req[r].st = "live", u.req[r].pub \in Pubs, u.req[r].refs = 0, u.req[r].calls = 0
    PROVE  Good(u, h, Plus(n, r)) /\ h[r] = 0 /\ n[r] = 0
<1> DEFINE l == Plus(n, r)
<1>1. t \in StateType /\ Counts(h) /\ Counts(n) /\ ReqOK(t, h, n, r)
  BY DEF Good
<1>2. Counts(l) /\ l[r] = n[r] + 1 /\ \A x \in Reqs \ {r} : l[x] = n[x]
  BY <1>1, PlusIs
<1> HIDE DEF l
<1>3. (\A x : Flying(u, x) = Flying(t, x)) /\ \A x : \A p \in Pubs : Queued(u, x, p) = Queued(t, x, p)
  BY DEF Flying, Queued, Queue, SameQueues
<1>4. h[r] = 0 /\ n[r] = 0 /\ Flying(t, r) = 0 /\ \A p \in Pubs : Queued(t, r, p) = 0
  BY <1>1 DEF ReqOK
<1>5. l[r] = 1
  BY <1>2, <1>4
<1>6. ReqOK(u, h, l, r)
  <2>1. \A p \in Pubs : Queued(u, r, p) = 0
    BY <1>3, <1>4
  <2> QED BY <1>3, <1>4, <1>5, <2>1 DEF ReqOK
<1>7. SameCounts(t, u, h, h, Reqs \ {r})
  BY <1>3 DEF SameCounts
<1>8. Good(u, h, l)
  BY <1>1, <1>2, <1>6, <1>7, OneReq
<1> QED BY <1>4, <1>8 DEF l

LEMMA EndGood ==
    ASSUME NEW t, NEW h, NEW n, Good(t, h, n), NEW r \in Reqs, n[r] > 0, t.req[r].refs = 0, NEW u \in StateType,
           OnlyReq(t, u, r), u.net = t.net, u.fault = t.fault, u.pub = t.pub, NEW st, st \in {"gone", "rejected"},
           u.req[r] = [t.req[r] EXCEPT !.st = st], st = "gone" => ~t.req[r].cb
    PROVE  Good(u, h, Minus(n, r))
<1> DEFINE l == Minus(n, r)
           q == t.req[r]
<1>1. t \in StateType /\ Counts(h) /\ Counts(n) /\ ReqOK(t, h, n, r) /\ q \in ReqType /\ h[r] \in Nat /\ n[r] \in Nat
  BY Parts DEF Good, Counts
<1>2. Counts(l) /\ l[r] = n[r] - 1 /\ \A x \in Reqs \ {r} : l[x] = n[x]
  BY <1>1, MinusIs
<1> HIDE DEF l
<1>3. (\A x : Flying(u, x) = Flying(t, x)) /\ \A x : \A p \in Pubs : Queued(u, x, p) = Queued(t, x, p)
  BY DEF Flying, Queued, Queue
<1>4. q.st = "live" /\ q.pub \in Pubs
  BY <1>1 DEF ReqOK
<1>5. q.refs = Queued(t, r, q.pub) + Flying(t, r) + h[r] /\ Queued(t, r, q.pub) + h[r] + n[r] <= 1
      /\ Queued(t, r, q.pub) \in Nat /\ Flying(t, r) \in Nat
  BY <1>1, <1>4, QueueType, FlyingType DEF ReqOK
<1>6. l[r] = 0
  <2> DEFINE a == Queued(t, r, q.pub)  b == h[r]  c == n[r]
  <2>1. a + b + c <= 1 /\ a \in Nat /\ b \in Nat /\ c \in Nat /\ c > 0
    BY <1>1, <1>5
  <2> HIDE DEF a, b, c
  <2>2. c - 1 = 0
    BY <2>1
  <2> QED BY <1>2, <2>2 DEF c
<1>7. u.req[r].st = st /\ u.req[r].pub = q.pub /\ u.req[r].refs = 0 /\ u.req[r].cb = q.cb /\ u.req[r].calls = q.calls
  BY <1>1 DEF ReqType
<1>8. q.calls = 0
  BY <1>1, <1>4 DEF ReqOK
<1>9. ReqOK(u, h, l, r)
  <2>1. Queued(u, r, q.pub) + h[r] + l[r] <= 1
    <3> DEFINE a == Queued(t, r, q.pub)  b == h[r]  c == n[r]
    <3>1. a + b + c <= 1 /\ a \in Nat /\ b \in Nat /\ c \in Nat /\ c > 0
      BY <1>1, <1>5
    <3> HIDE DEF a, b, c
    <3>2. a + b + 0 <= 1
      BY <3>1
    <3>3. Queued(u, r, q.pub) = a
      BY <1>3, <1>4 DEF a
    <3> QED BY <1>6, <3>2, <3>3 DEF b
  <2>2. u.req[r].st # "unused" /\ u.req[r].st # "live" /\ u.req[r].calls = IF u.req[r].cb /\ u.req[r].st = "gone" THEN 1 ELSE 0
    BY <1>7, <1>8
  <2>3. \A p \in Pubs : Queued(u, r, p) # 0 => p = q.pub
    BY <1>1, <1>3, <1>4 DEF ReqOK
  <2>4. q.refs = Queued(u, r, q.pub) + Flying(u, r) + h[r]
    BY <1>3, <1>4, <1>5
  <2> HIDE DEF q
  <2> QED BY <1>4, <1>6, <1>7, <2>1, <2>2, <2>3, <2>4 DEF ReqOK, q
<1>10. SameCounts(t, u, h, h, Reqs \ {r})
  BY <1>3 DEF SameCounts
<1>11. Good(u, h, l)
  BY <1>1, <1>2, <1>9, <1>10, OneReq
<1> QED BY <1>11 DEF l

\* The last request that was retained, or the one that is expired, is given up.
LEMMA CompleteExpiredIs ==
    ASSUME NEW t, NEW h, NEW n, Good(t, h, n), NEW r \in Reqs, h[r] > 0, n[r] = 0, r # NULL
    PROVE  Good(CompleteExpired(t, r), Minus(h, r), n) /\ Calm(t, CompleteExpired(t, r)) /\ CompleteExpired(t, r).pub = t.pub
<1> DEFINE q == t.req[r]
           v == Lower(t, r, q.status)
           u == CompleteExpired(t, r)
<1>1. t \in StateType /\ t.req \in [Reqs -> ReqType] /\ q \in ReqType
  BY Parts DEF Good
<1>2. q.status \in {"NO_ROUTE", "OK", "FAILED"}
  BY <1>1, ReqParts
<1>3. Good(v, Minus(h, r), n) /\ q.refs > 0 /\ q.st = "live" /\ v.req[r].st = "live" /\ v.req[r].refs = q.refs - 1
      /\ OnlyReq(t, v, r) /\ Kept(t, v) /\ v.pub = t.pub
  <2>1. v = Lower(t, r, q.status)
    OBVIOUS
  <2> HIDE DEF v, q
  <2> USE DEF q
  <2> QED BY <1>2, <2>1, CountDown
<1>4. v = [t EXCEPT !.req[r].refs = @ - 1]
  <2>1. Lowered(q, q.status) = [q EXCEPT !.refs = q.refs - 1]
    BY <1>1 DEF Lowered, ReqType
  <2> QED BY <1>1, <2>1 DEF Lower, StateType
<1>5. u = PublishCompletion(v, r)
  BY <1>3, <1>4 DEF CompleteExpired, Check
<1>6. \A x \in Reqs \ {r} : v.req[x] = t.req[x]
  BY <1>1, <1>3 DEF OnlyReq
<1> HIDE DEF v, u
<1>7. Good(u, Minus(h, r), n)
  BY <1>3, <1>5, CompletionGood
<1>8. Calm(t, u) /\ u.pub = t.pub
  <2>1. v \in StateType
    BY <1>3 DEF Good
  <2>2. /\ Apart(v, u) /\ u.pub = v.pub
        /\ \A x \in Reqs : v.req[x].refs # 0 \/ x # r => u.req[x] = v.req[x]
        /\ u.req[r].pub = v.req[r].pub /\ u.req[r].seq = v.req[r].seq /\ u.req[r].body = v.req[r].body
        /\ u.req[r].cb = v.req[r].cb /\ u.req[r].st # "unused"
    BY <1>3, <1>5, <2>1, CompletionKept
  <2>3. Apart(t, u)
    BY <1>3, <2>2 DEF Kept, Apart
  <2>4. SameReq(t.req[r], u.req[r])
    BY <1>3, <2>2 DEF Kept, SameReq
  <2>5. \A x \in Reqs \ {r} : u.req[x] = t.req[x]
    BY <1>6, <2>2
  <2>6. \A x \in Reqs : SameReq(t.req[x], u.req[x])
    BY <2>4, <2>5 DEF SameReq
  <2>7. \A p \in Pubs : SamePub(t.pub[p], u.pub[p])
    BY <1>3, <2>2 DEF SamePub, SameQueues
  <2> QED BY <1>3, <2>2, <2>3, <2>6, <2>7 DEF Calm, Apart
<1> QED BY <1>7, <1>8 DEF u

--------------------------------------------------------------------------------
(* Sends. *)

LEMMA PutNet ==
    ASSUME NEW t \in StateType, NEW b, IsNet(b)
    PROVE  LET u == [t EXCEPT !.net = b]
           IN  u \in StateType /\ u.net = b /\ u.req = t.req /\ u.pub = t.pub /\ u.fault = t.fault /\ u.ack = t.ack
               /\ u.ackQueue = t.ackQueue /\ u.remotes = t.remotes /\ u.mcast = t.mcast /\ u.history = t.history
<1>1. b \in {a \in UNION {[D -> Nat \ {0}] : D \in SUBSET Message} : IsNet(a)}
  BY NetIs
<1> QED BY <1>1 DEF StateType

PubMessage(r, dest) == [kind |-> "pub", of |-> r, dest |-> dest]
\* r is on its way once more.
LEMMA PostGood ==
    ASSUME NEW t, NEW h, NEW n, Good(t, h, n), NEW r \in Reqs, t.req[r].st = "live", NEW w \in ReqType,
           SameUse(t.req[r], w), w.refs = t.req[r].refs + 1, NEW u \in StateType, OnlyReq(t, u, r), u.req[r] = w,
           u.fault = t.fault, \A p \in Pubs : SameQueues(t.pub[p], u.pub[p]),
           NEW dest \in Remotes \cup {"multicast"}, u.net = t.net (+) SetToBag({PubMessage(r, dest)})
    PROVE  Good(u, h, n)
<1> DEFINE m == PubMessage(r, dest)
           q == t.req[r]
<1>1. t \in StateType /\ Counts(h) /\ Counts(n) /\ ReqOK(t, h, n, r) /\ q \in ReqType /\ IsNet(t.net)
  BY Parts DEF Good
<1>2. m \in Message /\ \A x \in Reqs : m \in OfReq(x) <=> x = r
  BY DEF Message, OfReq, PubMessage
<1>0. u.net = t.net (+) SetToBag({m})
  OBVIOUS
<1> HIDE DEF m
<1>3. \A S : Weigh(u.net, S) = Weigh(t.net, S) + IF m \in S THEN 1 ELSE 0
  <2>1. \A S : Weigh(t.net (+) SetToBag({m}), S) = Weigh(t.net, S) + IF m \in S THEN 1 ELSE 0
    BY <1>1, <1>2, NetAdd
  <2> QED BY <1>0, <2>1
<1>4. Flying(u, r) = Flying(t, r) + 1 /\ \A x \in Reqs \ {r} : Flying(u, x) = Flying(t, x)
  <2>1. m \in OfReq(r) /\ \A x \in Reqs \ {r} : m \notin OfReq(x)
    BY <1>2
  <2>2. Flying(u, r) = Flying(t, r) + 1
    BY <1>3, <2>1 DEF Flying
  <2>3. ASSUME NEW x \in Reqs \ {r} PROVE Flying(u, x) = Flying(t, x)
    <3>1. Flying(u, x) = Flying(t, x) + 0
      BY <1>3, <2>1 DEF Flying
    <3>2. Flying(t, x) \in Nat
      BY <1>1, FlyingType
    <3> QED BY <3>1, <3>2
  <2> QED BY <2>2, <2>3
<1>5. \A x : \A p \in Pubs : Queued(u, x, p) = Queued(t, x, p)
  BY DEF Queued, Queue, SameQueues
<1>6. q.pub \in Pubs /\ q.refs = Queued(t, r, q.pub) + Flying(t, r) + h[r] /\ Queued(t, r, q.pub) \in Nat /\ Flying(t, r) \in Nat
      /\ h[r] \in Nat
  BY <1>1, QueueType, FlyingType DEF ReqOK, Counts
<1>7. w.refs = Queued(u, r, w.pub) + Flying(u, r) + h[r]
  <2> DEFINE a == w.refs  b == q.refs  c == Queued(t, r, q.pub)  d == Flying(t, r)  e == h[r]  f == Flying(u, r)
  <2>1. a = b + 1 /\ b = c + d + e /\ f = d + 1 /\ c \in Nat /\ d \in Nat /\ e \in Nat
    BY <1>4, <1>6
  <2>2. Queued(u, r, w.pub) = c
    BY <1>5, <1>6 DEF SameUse
  <2> HIDE DEF a, b, c, d, e, f
  <2>3. a = c + f + e
    BY <2>1
  <2> QED BY <2>2, <2>3 DEF a, f, e
<1>8. ReqOK(u, h, n, r)
  <2>1. /\ q.st = "live" /\ Queued(t, r, q.pub) + h[r] + n[r] <= 1 /\ (\A p \in Pubs : Queued(t, r, p) # 0 => q.pub = p)
        /\ q.calls = IF q.cb /\ q.st = "gone" THEN 1 ELSE 0
    BY <1>1 DEF ReqOK
  <2>2. w.st = "live" /\ w.pub = q.pub /\ w.calls = q.calls /\ w.cb = q.cb
    BY DEF SameUse
  <2> HIDE DEF q
  <2> QED BY <1>5, <1>6, <1>7, <2>1, <2>2 DEF ReqOK
<1>9. SameCounts(t, u, h, h, Reqs \ {r})
  BY <1>4, <1>5 DEF SameCounts
<1> QED BY <1>1, <1>8, <1>9, OneReq
\* A send of r has ended.
LEMMA LandGood ==
    ASSUME NEW t, NEW h, NEW n, Good(t, h, n), NEW r \in Reqs, NEW w \in ReqType,
           SameUse(t.req[r], w), w.refs = t.req[r].refs - 1, NEW u \in StateType, OnlyReq(t, u, r), u.req[r] = w,
           u.fault = t.fault, u.pub = t.pub,
           NEW m \in DOMAIN t.net, m \in OfReq(r), u.net = t.net (-) SetToBag({m})
    PROVE  Good(u, h, n) /\ t.req[r].refs > 0 /\ t.req[r].st = "live"
<1> DEFINE q == t.req[r]
<1>1. t \in StateType /\ Counts(h) /\ Counts(n) /\ ReqOK(t, h, n, r) /\ q \in ReqType /\ IsNet(t.net)
  BY Parts DEF Good
<1>2. \A x \in Reqs : m \in OfReq(x) <=> x = r
  BY DEF OfReq
<1>3. \A S : Weigh(t.net, S) = Weigh(u.net, S) + IF m \in S THEN 1 ELSE 0
  BY <1>1, NetDrop
<1>0. \A x : Flying(u, x) \in Nat
  BY FlyingType
<1>4. Flying(t, r) = Flying(u, r) + 1 /\ \A x \in Reqs \ {r} : Flying(u, x) = Flying(t, x)
  <2>1. m \in OfReq(r) /\ \A x \in Reqs \ {r} : m \notin OfReq(x)
    BY <1>2
  <2>2. Flying(t, r) = Flying(u, r) + 1
    BY <1>3, <2>1 DEF Flying
  <2>3. ASSUME NEW x \in Reqs \ {r} PROVE Flying(u, x) = Flying(t, x)
    <3>1. Flying(t, x) = Flying(u, x) + 0
      BY <1>3, <2>1 DEF Flying
    <3> QED BY <1>0, <3>1
  <2> QED BY <2>2, <2>3
<1>5. \A x : \A p \in Pubs : Queued(u, x, p) = Queued(t, x, p)
  BY DEF Queued, Queue
<1>6. q.st # "unused" /\ q.pub \in Pubs
  <2>1. Flying(t, r) # 0
    BY <1>0, <1>4
  <2> QED BY <1>1, <2>1 DEF ReqOK
<1>7. q.refs = Queued(t, r, q.pub) + Flying(t, r) + h[r] /\ Queued(t, r, q.pub) \in Nat /\ Flying(u, r) \in Nat /\ h[r] \in Nat
  BY <1>0, <1>1, <1>6, QueueType DEF ReqOK, Counts
<1>8. q.refs > 0 /\ w.refs = Queued(u, r, w.pub) + Flying(u, r) + h[r]
  <2> DEFINE a == w.refs  b == q.refs  c == Queued(t, r, q.pub)  d == Flying(t, r)  e == h[r]  f == Flying(u, r)
  <2>1. a = b - 1 /\ b = c + d + e /\ d = f + 1 /\ c \in Nat /\ f \in Nat /\ e \in Nat
    BY <1>4, <1>7
  <2>2. Queued(u, r, w.pub) = c
    BY <1>5, <1>6 DEF SameUse
  <2> HIDE DEF a, b, c, d, e, f
  <2>3. a = c + f + e /\ b > 0
    BY <2>1
  <2> QED BY <2>2, <2>3 DEF a, f, e, b
<1>9. q.st = "live"
  BY <1>1, <1>8 DEF ReqOK
<1>10. ReqOK(u, h, n, r)
  <2>1. /\ q.st = "live" /\ Queued(t, r, q.pub) + h[r] + n[r] <= 1 /\ (\A p \in Pubs : Queued(t, r, p) # 0 => q.pub = p)
        /\ q.calls = IF q.cb /\ q.st = "gone" THEN 1 ELSE 0
    BY <1>1, <1>6, <1>9 DEF ReqOK
  <2>2. w.st = "live" /\ w.pub = q.pub /\ w.calls = q.calls /\ w.cb = q.cb
    BY <1>9 DEF SameUse
  <2> HIDE DEF q
  <2> QED BY <1>5, <1>6, <1>8, <2>1, <2>2 DEF ReqOK
<1>11. SameCounts(t, u, h, h, Reqs \ {r})
  BY <1>4, <1>5 DEF SameCounts
<1>12. Good(u, h, n)
  BY <1>1, <1>10, <1>11, OneReq
<1> QED BY <1>8, <1>9, <1>12

--------------------------------------------------------------------------------
(* The loop's stack. *)

IsPubs(f) ==
    /\ f \in [k : {"pubs"}, at : {"next", "queue", "remotes", "done", "looping_back", "expiring", "ended"},
              pub : Pubs \cup {NULL}, next : Pubs \cup {NULL}, req : Reqs \cup {NULL}, expired : Reqs \cup {NULL},
              reschedule : Int \cup {NULL}, ret : {"OK", "FAILED"}]
    /\ f.at # "next" => f.pub \in Pubs
    /\ f.at = "next" => f.expired = NULL
    /\ f.at \in {"remotes", "looping_back"} => f.req \in Reqs
    /\ f.at = "expiring" => f.expired \in Reqs
IsDecode(f) == f \in [k : {"decode"}, at : {"handling"}, m : PubMsg, pub : Pubs, req : Reqs, ret : {"OK", "FAILED"}]
IsHandlers(f) ==
    /\ f \in [k : {"handlers"}, at : {"walking", "decrypting", "calling"}, req : Reqs, sub : Subs \cup {NULL},
              next : Subs \cup {NULL}, parsed : BOOLEAN, copy : Pubs \cup {NULL}]
    /\ f.at # "walking" => f.sub \in Subs
IsAck(f) == f \in [k : {"ack"}, at : {"in_ack_handler"}, pub : Pubs]
IsAcks(f) ==
    /\ f \in [k : {"acks"}, at : {"next", "looping_back"}, ack : Acks \cup {NULL}]
    /\ f.at = "looping_back" => f.ack \in Acks

\* What is called from what.
Single(f) == IsPubs(f) \/ IsDecode(f) \/ IsAck(f) \/ IsAcks(f)
Double(f, g) ==
    \/ IsPubs(f) /\ f.at = "looping_back" /\ IsDecode(g)
    \/ IsPubs(f) /\ f.at = "expiring" /\ IsHandlers(g)
    \/ IsDecode(f) /\ IsHandlers(g)
    \/ IsAcks(f) /\ f.at = "looping_back" /\ IsAck(g)
Triple(f, g, e) == IsPubs(f) /\ f.at = "looping_back" /\ IsDecode(g) /\ IsHandlers(e)
Shape(l) ==
    \/ l = <<>>
    \/ \E f : Single(f) /\ l = <<f>>
    \/ \E f, g : Double(f, g) /\ l = <<f, g>>
    \/ \E f, g, e : Triple(f, g, e) /\ l = <<f, g, e>>

\* The references a frame has counted, and the request it alone uses.
Holds(f, r) == (IF f.k = "pubs" /\ f.expired = r THEN 1 ELSE 0)
               + (IF f.k = "pubs" /\ f.at = "looping_back" /\ f.req = r THEN 1 ELSE 0)
Uses(f, r) == IF ((f.k = "pubs" /\ f.at = "remotes") \/ f.k = "decode") /\ f.req = r THEN 1 ELSE 0
Mine(a, r) == IF a = r THEN 1 ELSE 0
HeldBy(l) == [r \in Reqs |-> IF l # <<>> THEN Holds(l[1], r) ELSE 0]
UsedBy(l, a) == [r \in Reqs |-> (IF l # <<>> THEN Uses(l[1], r) ELSE 0)
                                + (IF Len(l) > 1 THEN Uses(l[2], r) ELSE 0) + Mine(a, r)]

\* What a frame relies on.
FrameOK(t, f) ==
    /\ f.k = "pubs" /\ f.at \in {"remotes", "looping_back"} => t.req[f.req].pub = f.pub
    /\ f.k = "decode" => t.req[f.req].pub = f.pub /\ t.req[f.req].refs = 0 /\ ~t.req[f.req].cb
    /\ f.k = "handlers" => t.req[f.req].st # "unused"
    /\ f.k = "acks" /\ f.at = "looping_back" => t.ack[f.ack].st # "unused"
Framed(t, l) == \A i \in DOMAIN l : FrameOK(t, l[i])
AppOK(t, a) == a # NULL => a \in Reqs /\ t.req[a].refs = 0
\* Acknowledgements and requests that are used belong to a publication, to one that is used.
AcksTied(t) ==
    /\ \A a \in Acks : t.ack[a].st # "unused" => t.ack[a].pub \in Pubs
    /\ \A a \in ToSet(t.ackQueue) : t.ack[a].st # "unused"
    /\ \A m \in DOMAIN t.net : m.kind = "ack" => t.ack[m.of].st # "unused"
ReqsTied(t) == \A r \in Reqs : t.req[r].st # "unused" => t.pub[t.req[r].pub].st # "unused"

Inv(t, l, a) ==
    /\ Good(t, HeldBy(l), UsedBy(l, a))
    /\ AcksTied(t) /\ ReqsTied(t) /\ Shape(l) /\ Framed(t, l) /\ AppOK(t, a)

LEMMA HoldsType == \A f, r : Holds(f, r) \in Nat
BY DEF Holds
LEMMA UsesType == \A f, r : Uses(f, r) \in Nat /\ Mine(f, r) \in Nat
BY DEF Uses, Mine
LEMMA CountsBy == \A l, a : Counts(HeldBy(l)) /\ Counts(UsedBy(l, a))
<1> TAKE l, a
<1>1. \A r \in Reqs : (IF l # <<>> THEN Holds(l[1], r) ELSE 0) \in Nat
  BY HoldsType
<1>2. \A r \in Reqs : (IF l # <<>> THEN Uses(l[1], r) ELSE 0) + (IF Len(l) > 1 THEN Uses(l[2], r) ELSE 0) + Mine(a, r) \in Nat
  <2> TAKE r \in Reqs
  <2>1. (IF l # <<>> THEN Uses(l[1], r) ELSE 0) \in Nat /\ (IF Len(l) > 1 THEN Uses(l[2], r) ELSE 0) \in Nat /\ Mine(a, r) \in Nat
    BY UsesType
  <2> QED BY <2>1
<1> QED BY <1>1, <1>2 DEF Counts, HeldBy, UsedBy

LEMMA HeldOne == \A f : \A r \in Reqs : HeldBy(<<f>>)[r] = Holds(f, r)
BY DEF HeldBy
LEMMA HeldTwo == \A f, g : \A r \in Reqs : HeldBy(<<f, g>>)[r] = Holds(f, r)
BY DEF HeldBy
LEMMA HeldThree == \A f, g, e : \A r \in Reqs : HeldBy(<<f, g, e>>)[r] = Holds(f, r)
BY DEF HeldBy
LEMMA HeldNone == \A r \in Reqs : HeldBy(<<>>)[r] = 0
BY DEF HeldBy
LEMMA UsedNone == \A a : \A r \in Reqs : UsedBy(<<>>, a)[r] = Mine(a, r)
<1> TAKE a
<1> TAKE r \in Reqs
<1>1. UsedBy(<<>>, a)[r] = 0 + 0 + Mine(a, r)
  BY DEF UsedBy
<1> QED BY <1>1, UsesType
LEMMA UsedOne == \A f, a : \A r \in Reqs : UsedBy(<<f>>, a)[r] = Uses(f, r) + Mine(a, r)
<1> TAKE f, a
<1> TAKE r \in Reqs
<1>1. UsedBy(<<f>>, a)[r] = Uses(f, r) + 0 + Mine(a, r)
  BY DEF UsedBy
<1>2. Uses(f, r) \in Nat /\ Mine(a, r) \in Nat
  BY UsesType
<1> QED BY <1>1, <1>2
LEMMA UsedTwo == \A f, g, a : \A r \in Reqs : UsedBy(<<f, g>>, a)[r] = Uses(f, r) + Uses(g, r) + Mine(a, r)
BY DEF UsedBy
LEMMA UsedThree == \A f, g, e, a : \A r \in Reqs : UsedBy(<<f, g, e>>, a)[r] = Uses(f, r) + Uses(g, r) + Mine(a, r)
BY DEF UsedBy

\* Counts are compared request by request.
LEMMA GoodPoint ==
    ASSUME NEW t, NEW h, NEW n, Good(t, h, n), NEW i, NEW l, Counts(i), Counts(l), \A r \in Reqs : i[r] = h[r],
           \A r \in Reqs : l[r] = n[r]
    PROVE  Good(t, i, l)
<1>1. h = i /\ n = l
  BY DEF Good, Counts
<1> QED BY <1>1

LEMMA FramedTuples ==
    /\ \A t : Framed(t, <<>>)
    /\ \A t, f : Framed(t, <<f>>) <=> FrameOK(t, f)
    /\ \A t, f, g : Framed(t, <<f, g>>) <=> FrameOK(t, f) /\ FrameOK(t, g)
    /\ \A t, f, g, e : Framed(t, <<f, g, e>>) <=> FrameOK(t, f) /\ FrameOK(t, g) /\ FrameOK(t, e)
<1>1. \A t : Framed(t, <<>>)
  BY DEF Framed
<1>2. \A t, f : Framed(t, <<f>>) <=> FrameOK(t, f)
  BY DEF Framed
<1>3. \A t, f, g : Framed(t, <<f, g>>) <=> FrameOK(t, f) /\ FrameOK(t, g)
  BY DEF Framed
<1>4. \A t, f, g, e : Framed(t, <<f, g, e>>) <=> FrameOK(t, f) /\ FrameOK(t, g) /\ FrameOK(t, e)
  <2> TAKE t, f, g, e
  <2>1. DOMAIN <<f, g, e>> = {1, 2, 3}
    OBVIOUS
  <2> QED BY <2>1 DEF Framed
<1> QED BY <1>1, <1>2, <1>3, <1>4

\* The tops of stacks.
LEMMA FrontOfAppend == ASSUME NEW T, NEW l \in Seq(T), NEW e \in T PROVE Front(Append(l, e)) = l
<1> DEFINE w == Append(l, e)
<1>1. w \in Seq(T) /\ Len(w) = Len(l) + 1 /\ Len(l) \in Nat /\ \A i \in 1 .. Len(l) : w[i] = l[i]
  OBVIOUS
<1> HIDE DEF w
<1>2. SubSeq(w, 1, Len(l)) \in Seq(T) /\ Len(SubSeq(w, 1, Len(l))) = Len(l)
      /\ \A i \in 1 .. Len(l) : SubSeq(w, 1, Len(l))[i] = w[i]
  BY <1>1
<1>3. SubSeq(w, 1, Len(l)) = l
  BY <1>1, <1>2, SeqEqual
<1>4. Len(w) - 1 = Len(l)
  BY <1>1
<1>5. Front(w) = l
  BY <1>3, <1>4 DEF Front
<1> QED BY <1>5 DEF w
LEMMA Appends ==
    /\ \A f : Append(<<>>, f) = <<f>> /\ <<>> \o <<f>> = <<f>>
    /\ \A f, g : Append(<<f>>, g) = <<f, g>> /\ <<f>> \o <<g>> = <<f, g>> /\ <<>> \o <<f, g>> = <<f, g>>
    /\ \A f, g, e : Append(<<f, g>>, e) = <<f, g, e>> /\ <<f>> \o <<g, e>> = <<f, g, e>>
<1>1. ASSUME NEW f PROVE Append(<<>>, f) = <<f>> /\ <<>> \o <<f>> = <<f>>
  OBVIOUS
<1>2. ASSUME NEW f, NEW g PROVE Append(<<f>>, g) = <<f, g>> /\ <<f>> \o <<g>> = <<f, g>> /\ <<>> \o <<f, g>> = <<f, g>>
  <2> DEFINE T == {f, g}
             w == <<f, g>>
  <2>1. <<f>> \in Seq(T) /\ <<g>> \in Seq(T) /\ w \in Seq(T) /\ Len(w) = 2 /\ w[1] = f /\ w[2] = g
    OBVIOUS
  <2>2. Append(<<f>>, g) = w
    <3> DEFINE v == Append(<<f>>, g)
    <3>1. v \in Seq(T) /\ Len(v) = 2 /\ v[1] = f /\ v[2] = g
      OBVIOUS
    <3> HIDE DEF v, w, T
    <3>2. \A i \in 1 .. Len(v) : v[i] = w[i]
      BY <2>1, <3>1
    <3>3. v = w
      BY <2>1, <3>1, <3>2, SeqEqual
    <3> QED BY <3>3 DEF v
  <2>3. <<f>> \o <<g>> = w
    <3> DEFINE v == <<f>> \o <<g>>
    <3>1. v \in Seq(T) /\ Len(v) = 2 /\ v[1] = f /\ v[2] = g
      OBVIOUS
    <3> HIDE DEF v, w, T
    <3>2. \A i \in 1 .. Len(v) : v[i] = w[i]
      BY <2>1, <3>1
    <3>3. v = w
      BY <2>1, <3>1, <3>2, SeqEqual
    <3> QED BY <3>3 DEF v
  <2>4. <<>> \o w = w
    <3> HIDE DEF w, T
    <3> QED BY <2>1, ConcatEmptySeq
  <2> QED BY <2>2, <2>3, <2>4, Zenon DEF w
<1>3. ASSUME NEW f, NEW g, NEW e PROVE Append(<<f, g>>, e) = <<f, g, e>> /\ <<f>> \o <<g, e>> = <<f, g, e>>
  <2> DEFINE T == {f, g, e}
             w == <<f, g, e>>
  <2>1. <<f>> \in Seq(T) /\ <<g, e>> \in Seq(T) /\ <<f, g>> \in Seq(T) /\ w \in Seq(T) /\ Len(w) = 3 /\ w[1] = f /\ w[2] = g /\ w[3] = e
    OBVIOUS
  <2>2. Append(<<f, g>>, e) = w
    <3> DEFINE v == Append(<<f, g>>, e)
    <3>1. v \in Seq(T) /\ Len(v) = 3 /\ v[1] = f /\ v[2] = g /\ v[3] = e
      OBVIOUS
    <3> HIDE DEF v, w, T
    <3>2. \A i \in 1 .. Len(v) : v[i] = w[i]
      BY <2>1, <3>1
    <3>3. v = w
      BY <2>1, <3>1, <3>2, SeqEqual
    <3> QED BY <3>3 DEF v
  <2>3. <<f>> \o <<g, e>> = w
    <3> DEFINE v == <<f>> \o <<g, e>>
    <3>1. v \in Seq(T) /\ Len(v) = 3 /\ v[1] = f /\ v[2] = g /\ v[3] = e
      OBVIOUS
    <3> HIDE DEF v, w, T
    <3>2. \A i \in 1 .. Len(v) : v[i] = w[i]
      BY <2>1, <3>1
    <3>3. v = w
      BY <2>1, <3>1, <3>2, SeqEqual
    <3> QED BY <3>3 DEF v
  <2> QED BY <2>2, <2>3, Zenon DEF w
<1> QED BY <1>1, <1>2, <1>3, Zenon
LEMMA Fronts ==
    /\ \A f : Front(<<f>>) = <<>>
    /\ \A f, g : Front(<<f, g>>) = <<f>>
    /\ \A f, g, e : Front(<<f, g, e>>) = <<f, g>>
<1>1. ASSUME NEW f PROVE Front(<<f>>) = <<>>
  BY DEF Front
<1>2. ASSUME NEW f, NEW g PROVE Front(<<f, g>>) = <<f>>
  <2>1. <<f>> \in Seq({f, g}) /\ g \in {f, g}
    OBVIOUS
  <2>2. Front(Append(<<f>>, g)) = <<f>>
    BY <2>1, FrontOfAppend
  <2> QED BY <2>2, Appends, Zenon
<1>3. ASSUME NEW f, NEW g, NEW e PROVE Front(<<f, g, e>>) = <<f, g>>
  <2>1. <<f, g>> \in Seq({f, g, e}) /\ e \in {f, g, e}
    OBVIOUS
  <2>2. Front(Append(<<f, g>>, e)) = <<f, g>>
    BY <2>1, FrontOfAppend
  <2>3. Append(<<f, g>>, e) = <<f, g, e>>
    BY Appends
  <2> QED BY <2>2, <2>3
<1> QED BY <1>1, <1>2, <1>3, Zenon
LEMMA Stacks ==
    /\ \A f : Len(<<f>>) = 1 /\ <<f>>[1] = f /\ <<f>> # <<>>
    /\ \A f, g : Len(<<f, g>>) = 2 /\ <<f, g>>[2] = g /\ <<f, g>>[1] = f /\ <<f, g>> # <<>>
    /\ \A f, g, e : Len(<<f, g, e>>) = 3 /\ <<f, g, e>>[3] = e /\ <<f, g, e>>[2] = g /\ <<f, g, e>>[1] = f /\ <<f, g, e>> # <<>>
OBVIOUS

--------------------------------------------------------------------------------
(* What keeps the invariant. *)

IsFrame(f) == IsPubs(f) \/ IsDecode(f) \/ IsHandlers(f) \/ IsAck(f) \/ IsAcks(f)
LEMMA ShapeFrames == ASSUME NEW l, Shape(l) PROVE \A i \in DOMAIN l : IsFrame(l[i])
<1>1. CASE l = <<>>
  BY <1>1
<1>2. ASSUME NEW f, Single(f), l = <<f>> PROVE \A i \in DOMAIN l : IsFrame(l[i])
  <2>1. DOMAIN l = {1} /\ l[1] = f
    BY <1>2
  <2> QED BY <1>2, <2>1 DEF Single, IsFrame
<1>3. ASSUME NEW f, NEW g, Double(f, g), l = <<f, g>> PROVE \A i \in DOMAIN l : IsFrame(l[i])
  <2>1. DOMAIN l = {1, 2} /\ l[1] = f /\ l[2] = g
    BY <1>3
  <2> QED BY <1>3, <2>1 DEF Double, IsFrame
<1>4. ASSUME NEW f, NEW g, NEW e, Triple(f, g, e), l = <<f, g, e>> PROVE \A i \in DOMAIN l : IsFrame(l[i])
  <2>1. DOMAIN l = {1, 2, 3} /\ l[1] = f /\ l[2] = g /\ l[3] = e
    BY <1>4
  <2> QED BY <1>4, <2>1 DEF Triple, IsFrame
<1> QED BY <1>1, <1>2, <1>3, <1>4 DEF Shape

\* Frames go on relying on what they rely on.
Stable(t, u) ==
    /\ \A r \in Reqs : SameReq(t.req[r], u.req[r])
    /\ \A a \in Acks : u.ack[a].st = "unused" => t.ack[a].st = "unused"
LEMMA FrameStable == ASSUME NEW t, NEW u, NEW f, IsFrame(f), FrameOK(t, f), Stable(t, u) PROVE FrameOK(u, f)
<1>1. CASE IsPubs(f)
  BY <1>1 DEF IsPubs, FrameOK, Stable, SameReq
<1>2. CASE IsDecode(f)
  BY <1>2 DEF IsDecode, FrameOK, Stable, SameReq
<1>3. CASE IsHandlers(f)
  BY <1>3 DEF IsHandlers, FrameOK, Stable, SameReq
<1>4. CASE IsAck(f)
  BY <1>4 DEF IsAck, FrameOK
<1>5. CASE IsAcks(f)
  BY <1>5 DEF IsAcks, FrameOK, Stable
<1> QED BY <1>1, <1>2, <1>3, <1>4, <1>5 DEF IsFrame
LEMMA FramedStable == ASSUME NEW t, NEW u, NEW l, Shape(l), Framed(t, l), Stable(t, u) PROVE Framed(u, l)
BY ShapeFrames, FrameStable DEF Framed

\* A publication does not become unused.
PubsStay(t, u) == \A p \in Pubs : u.pub[p].st = "unused" => t.pub[p].st = "unused"
LEMMA TiedStable ==
    ASSUME NEW t, NEW u, NEW h, NEW n, Good(t, h, n), ReqsTied(t), Stable(t, u), PubsStay(t, u) PROVE ReqsTied(u)
<1>1. ASSUME NEW r \in Reqs, u.req[r].st # "unused" PROVE u.pub[u.req[r].pub].st # "unused"
  <2>1. t.req[r].st # "unused" /\ u.req[r].pub = t.req[r].pub
    BY <1>1 DEF Stable, SameReq
  <2>2. t.req[r].pub \in Pubs
    BY <2>1 DEF Good, ReqOK
  <2> QED BY <2>1, <2>2 DEF ReqsTied, PubsStay
<1> QED BY <1>1 DEF ReqsTied

LEMMA InvStable ==
    ASSUME NEW t, NEW u, NEW l, NEW a, Inv(t, l, a), Good(u, HeldBy(l), UsedBy(l, a)), Stable(t, u), PubsStay(t, u), AcksTied(u)
    PROVE  Inv(u, l, a)
<1>1. Framed(u, l)
  BY FramedStable DEF Inv
<1>2. ReqsTied(u)
  BY TiedStable DEF Inv
<1>3. AppOK(u, a)
  BY DEF Inv, AppOK, Stable, SameReq
<1> QED BY <1>1, <1>2, <1>3 DEF Inv
LEMMA CalmStable ==
    ASSUME NEW t, NEW u, Calm(t, u) PROVE Stable(t, u) /\ PubsStay(t, u) /\ (AcksTied(t) => AcksTied(u))
BY DEF Calm, Stable, PubsStay, AcksTied, SamePub
LEMMA InvFine ==
    ASSUME NEW t, NEW u, NEW l, NEW a, Inv(t, l, a), Fine(t, u, HeldBy(l), UsedBy(l, a)) PROVE Inv(u, l, a)
<1>1. Stable(t, u) /\ PubsStay(t, u) /\ AcksTied(u)
  BY CalmStable DEF Fine, Inv
<1> QED BY <1>1, InvStable DEF Fine
LEMMA InvPlain == ASSUME NEW t, NEW u \in StateType, NEW l, NEW a, Inv(t, l, a), Plain(t, u) PROVE Inv(u, l, a)
BY FinePlain, InvFine DEF Inv

\* The requests stay as they are, and as often in the queues.
Still(t, u) ==
    /\ u.req = t.req /\ u.net = t.net /\ u.fault = t.fault
    /\ \A p \in Pubs, r \in Reqs : Queued(u, r, p) = Queued(t, r, p)
LEMMA GoodStill == ASSUME NEW t, NEW u \in StateType, NEW h, NEW n, Good(t, h, n), Still(t, u) PROVE Good(u, h, n)
<1>1. ASSUME NEW r \in Reqs PROVE ReqOK(u, h, n, r)
  <2>1. ReqOK(t, h, n, r)
    BY DEF Good
  <2> QED BY <2>1, ReqSame DEF Still, Flying
<1> QED BY <1>1 DEF Good, Still
LEMMA InvStill ==
    ASSUME NEW t, NEW u \in StateType, NEW l, NEW a, Inv(t, l, a), Still(t, u), PubsStay(t, u), AcksTied(u),
           \A x \in Acks : u.ack[x].st = "unused" => t.ack[x].st = "unused"
    PROVE  Inv(u, l, a)
<1>1. Good(u, HeldBy(l), UsedBy(l, a))
  BY GoodStill DEF Inv
<1>2. Stable(t, u)
  BY DEF Stable, Still, SameReq
<1> QED BY <1>1, <1>2, InvStable
\* Nothing is in the queues of a publication that is not used.
LEMMA UnusedQueues ==
    ASSUME NEW t, NEW l, NEW a, Inv(t, l, a), NEW p \in Pubs, t.pub[p].st = "unused", NEW r \in Reqs PROVE Queued(t, r, p) = 0
<1>1. ReqOK(t, HeldBy(l), UsedBy(l, a), r)
  BY DEF Inv, Good
<1> QED BY <1>1 DEF Inv, ReqOK, ReqsTied

\* Another stack that counts the same.
SameStack(t, l, a, m) ==
    /\ Shape(m) /\ Framed(t, m)
    /\ \A r \in Reqs : HeldBy(m)[r] = HeldBy(l)[r] /\ UsedBy(m, a)[r] = UsedBy(l, a)[r]
LEMMA InvStack == ASSUME NEW t, NEW l, NEW a, NEW m, Inv(t, l, a), SameStack(t, l, a, m) PROVE Inv(t, m, a)
<1>1. Good(t, HeldBy(m), UsedBy(m, a))
  BY GoodPoint, CountsBy DEF Inv, SameStack
<1> QED BY <1>1 DEF Inv, SameStack

--------------------------------------------------------------------------------
(* The stack of DPS_CallPubHandlers. *)

LEMMA TopHandlers ==
    ASSUME NEW l, Shape(l), l # <<>>, l[Len(l)].k = "handlers"
    PROVE  \E g, e : IsHandlers(e) /\ \/ l = <<g, e>> /\ Double(g, e)
                                      \/ \E f : l = <<f, g, e>> /\ Triple(f, g, e)
<1>1. ASSUME NEW f, Single(f), l = <<f>> PROVE FALSE
  <2>1. l[Len(l)] = f
    BY <1>1, Stacks
  <2> QED BY <1>1, <2>1 DEF Single, IsPubs, IsDecode, IsAck, IsAcks
<1>2. ASSUME NEW f, NEW g, Double(f, g), l = <<f, g>> PROVE IsHandlers(g)
  <2>1. l[Len(l)] = g
    BY <1>2, Stacks
  <2> QED BY <1>2, <2>1 DEF Double, IsDecode, IsAck
<1>3. ASSUME NEW f, NEW g, NEW e, Triple(f, g, e), l = <<f, g, e>> PROVE IsHandlers(e)
  BY <1>3 DEF Triple
<1> QED BY <1>1, <1>2, <1>3 DEF Shape

LEMMA HandlersCount == ASSUME NEW f, IsHandlers(f) PROVE \A r : Holds(f, r) = 0 /\ Uses(f, r) = 0
BY DEF Holds, Uses, IsHandlers

LEMMA HandlersResume ==
    ASSUME NEW t, NEW l, NEW a, Inv(t, l, a), l # <<>>, l[Len(l)].k = "handlers", NEW w, IsHandlers(w), t.req[w.req].st # "unused"
    PROVE  Inv(t, Append(Front(l), w), a)
<1> DEFINE m == Append(Front(l), w)
<1>1. PICK g, e : IsHandlers(e) /\ \/ l = <<g, e>> /\ Double(g, e)
                                   \/ \E f : l = <<f, g, e>> /\ Triple(f, g, e)
  BY TopHandlers DEF Inv
<1>2. FrameOK(t, w)
  BY DEF FrameOK, IsHandlers
<1>3. CASE l = <<g, e>> /\ Double(g, e)
  <2>1. m = <<g, w>>
    <3>1. Front(l) = <<g>>
      BY <1>3, Fronts
    <3> QED BY <3>1, Appends
  <2> HIDE DEF m
  <2>2. Double(g, w)
    BY <1>1, <1>3 DEF Double, IsHandlers, IsDecode, IsAck
  <2>3. Shape(m)
    BY <2>1, <2>2 DEF Shape
  <2>4. Framed(t, m)
    BY <1>2, <1>3, <2>1, FramedTuples DEF Inv
  <2>5. \A r \in Reqs : HeldBy(m)[r] = HeldBy(l)[r]
    BY <1>3, <2>1, HeldTwo
  <2>6. \A r \in Reqs : UsedBy(m, a)[r] = UsedBy(l, a)[r]
    BY <1>1, <1>3, <2>1, UsedTwo, HandlersCount
  <2> QED BY <2>3, <2>4, <2>5, <2>6, InvStack DEF SameStack, m
<1>4. ASSUME NEW f, l = <<f, g, e>>, Triple(f, g, e) PROVE Inv(t, m, a)
  <2>1. m = <<f, g, w>>
    <3>1. Front(l) = <<f, g>>
      BY <1>4, Fronts
    <3> QED BY <3>1, Appends
  <2> HIDE DEF m
  <2>2. Triple(f, g, w)
    BY <1>4 DEF Triple
  <2>3. Shape(m)
    BY <2>1, <2>2 DEF Shape
  <2>4. Framed(t, m)
    <3>1. Framed(t, <<f, g, e>>)
      BY <1>4 DEF Inv
    <3> QED BY <1>2, <2>1, <3>1, FramedTuples
  <2>5. \A r \in Reqs : HeldBy(m)[r] = HeldBy(l)[r]
    BY <1>4, <2>1, HeldThree
  <2>6. \A r \in Reqs : UsedBy(m, a)[r] = UsedBy(l, a)[r]
    <3>1. \A r \in Reqs : Uses(w, r) = Uses(e, r)
      BY <1>1, HandlersCount
    <3> QED BY <1>4, <2>1, <3>1, UsedThree
  <2> QED BY <2>3, <2>4, <2>5, <2>6, InvStack DEF SameStack, m
<1> QED BY <1>1, <1>3, <1>4

LEMMA RetIs ==
    ASSUME NEW g, NEW ret \in {"OK", "FAILED"}, NEW w, w = [g EXCEPT !.ret = ret]
    PROVE  /\ IsPubs(g) => IsPubs(w) /\ w.at = g.at
           /\ IsDecode(g) => IsDecode(w)
           /\ IsPubs(g) \/ IsDecode(g) => (\A r : Holds(w, r) = Holds(g, r) /\ Uses(w, r) = Uses(g, r))
                                          /\ \A t : FrameOK(t, g) => FrameOK(t, w)
<1>1. ASSUME IsPubs(g) PROVE IsPubs(w) /\ w.at = g.at /\ w.k = g.k /\ w.req = g.req /\ w.expired = g.expired /\ w.pub = g.pub /\ g.k = "pubs"
  BY <1>1 DEF IsPubs
<1>2. ASSUME IsDecode(g) PROVE IsDecode(w) /\ w.at = g.at /\ w.k = g.k /\ w.req = g.req /\ w.pub = g.pub /\ g.k = "decode"
  BY <1>2 DEF IsDecode
<1>3. ASSUME IsPubs(g) PROVE (\A r : Holds(w, r) = Holds(g, r) /\ Uses(w, r) = Uses(g, r)) /\ \A t : FrameOK(t, g) => FrameOK(t, w)
  BY <1>1, <1>3 DEF Holds, Uses, FrameOK
<1>4. ASSUME IsDecode(g) PROVE (\A r : Holds(w, r) = Holds(g, r) /\ Uses(w, r) = Uses(g, r)) /\ \A t : FrameOK(t, g) => FrameOK(t, w)
  BY <1>2, <1>4 DEF Holds, Uses, FrameOK
<1> QED BY <1>1, <1>2, <1>3, <1>4

LEMMA HandlersPop ==
    ASSUME NEW t, NEW l, NEW a, Inv(t, l, a), l # <<>>, l[Len(l)].k = "handlers", NEW ret \in {"OK", "FAILED"}
    PROVE  Inv(t, Append(SubSeq(l, 1, Len(l) - 2), [l[Len(l) - 1] EXCEPT !.ret = ret]), a)
<1> DEFINE m == Append(SubSeq(l, 1, Len(l) - 2), [l[Len(l) - 1] EXCEPT !.ret = ret])
<1>1. PICK g, e : IsHandlers(e) /\ \/ l = <<g, e>> /\ Double(g, e)
                                   \/ \E f : l = <<f, g, e>> /\ Triple(f, g, e)
  BY TopHandlers DEF Inv
<1> DEFINE w == [g EXCEPT !.ret = ret]
<1>2. /\ IsPubs(g) => IsPubs(w) /\ w.at = g.at
      /\ IsDecode(g) => IsDecode(w)
      /\ IsPubs(g) \/ IsDecode(g) => (\A r : Holds(w, r) = Holds(g, r) /\ Uses(w, r) = Uses(g, r))
                                     /\ \A x : FrameOK(x, g) => FrameOK(x, w)
  BY RetIs
<1>3. CASE l = <<g, e>> /\ Double(g, e)
  <2>1. m = <<w>>
    <3>1. Len(l) = 2 /\ l[1] = g
      BY <1>3, Stacks
    <3>2. SubSeq(l, 1, 0) = <<>>
      BY SubSeqEmpty
    <3>3. Len(l) - 2 = 0 /\ Len(l) - 1 = 1
      BY <3>1
    <3> QED BY <3>1, <3>2, <3>3, Appends
  <2> HIDE DEF m, w
  <2>2. IsPubs(g) \/ IsDecode(g)
    BY <1>1, <1>3 DEF Double, IsHandlers, IsAck
  <2>3. Shape(m)
    BY <1>2, <2>1, <2>2 DEF Shape, Single
  <2>4. Framed(t, m)
    <3>1. FrameOK(t, g)
      BY <1>3, FramedTuples DEF Inv
    <3> QED BY <1>2, <2>1, <2>2, <3>1, FramedTuples
  <2>5. \A r \in Reqs : HeldBy(m)[r] = HeldBy(l)[r]
    BY <1>2, <1>3, <2>1, <2>2, HeldTwo, HeldOne
  <2>6. \A r \in Reqs : UsedBy(m, a)[r] = UsedBy(l, a)[r]
    <3> TAKE r \in Reqs
    <3>1. UsedBy(m, a)[r] = Uses(w, r) + Mine(a, r)
      BY <2>1, UsedOne
    <3>2. UsedBy(l, a)[r] = Uses(g, r) + Uses(e, r) + Mine(a, r)
      BY <1>3, UsedTwo
    <3>3. Uses(e, r) = 0 /\ Uses(w, r) = Uses(g, r) /\ Uses(g, r) \in Nat
      BY <1>1, <1>2, <2>2, HandlersCount, UsesType
    <3>4. UsedBy(l, a)[r] = Uses(g, r) + Mine(a, r)
      BY <3>2, <3>3
    <3> QED BY <3>1, <3>3, <3>4
  <2> QED BY <2>3, <2>4, <2>5, <2>6, InvStack DEF SameStack, m
<1>4. ASSUME NEW f, l = <<f, g, e>>, Triple(f, g, e) PROVE Inv(t, m, a)
  <2>1. m = <<f, w>>
    <3>1. Len(l) = 3 /\ l[2] = g /\ l[1] = f
      BY <1>4, Stacks
    <3>2. SubSeq(l, 1, 1) = <<f>>
      <4>1. l \in Seq({f, g, e})
        BY <1>4
      <4>2. SubSeq(l, 1, 1) = SubSeq(l, 1, 0) \o <<l[1]>>
        BY <3>1, <4>1, SubSeqRecursiveSecond
      <4>3. SubSeq(l, 1, 0) = <<>>
        BY SubSeqEmpty
      <4> QED BY <3>1, <4>2, <4>3, Appends
    <3>3. Len(l) - 2 = 1 /\ Len(l) - 1 = 2
      BY <3>1
    <3>4. m = Append(<<f>>, w)
      BY <3>1, <3>2, <3>3
    <3> QED BY <3>4, Appends, Zenon
  <2> HIDE DEF m, w
  <2>2. IsDecode(g) /\ IsPubs(f) /\ f.at = "looping_back"
    BY <1>4 DEF Triple
  <2>3. Shape(m)
    BY <1>2, <2>1, <2>2 DEF Shape, Double
  <2>4. Framed(t, m)
    <3>1. Framed(t, <<f, g, e>>)
      BY <1>4 DEF Inv
    <3>2. FrameOK(t, f) /\ FrameOK(t, g)
      BY <3>1, FramedTuples
    <3> QED BY <1>2, <2>1, <2>2, <3>2, FramedTuples
  <2>5. \A r \in Reqs : HeldBy(m)[r] = HeldBy(l)[r]
    BY <1>4, <2>1, HeldTwo, HeldThree
  <2>6. \A r \in Reqs : UsedBy(m, a)[r] = UsedBy(l, a)[r]
    <3> TAKE r \in Reqs
    <3>1. UsedBy(m, a)[r] = Uses(f, r) + Uses(w, r) + Mine(a, r)
      BY <2>1, UsedTwo
    <3>2. UsedBy(l, a)[r] = Uses(f, r) + Uses(g, r) + Mine(a, r)
      BY <1>4, UsedThree
    <3> QED BY <1>2, <2>2, <3>1, <3>2
  <2> QED BY <2>3, <2>4, <2>5, <2>6, InvStack DEF SameStack, m
<1> QED BY <1>1, <1>3, <1>4

--------------------------------------------------------------------------------
(* DPS_CallPubHandlers. *)

\* An id that is none changes no entry.
LEMMA HistoryPlain ==
    ASSUME NEW t \in StateType, NEW i, NEW sn \in Int, NEW ackReq \in BOOLEAN, NEW a \in Sources
    PROVE  LET u == UpdatePubHistory(t, i, sn, ackReq, a) IN u \in StateType /\ Plain(t, u)
<1>1. CASE i \in PubIds
  BY <1>1, UpdatePubHistoryIs
<1>2. CASE i \notin PubIds
  <2>1. t.history \in HistoryType
    BY Parts
  <2>2. \A e : [t.history EXCEPT ![i] = e] = t.history
    BY <1>2, <2>1 DEF HistoryType
  <2>3. UpdatePubHistory(t, i, sn, ackReq, a) = [t EXCEPT !.history = t.history]
    <3> DEFINE e == [sn |-> Larger(t.history[i].sn, sn), ackReq |-> ackReq,
                     from |-> [t.history[i].from EXCEPT ![a] = Larger(t.history[i].from[a], sn)]]
    <3>1. UpdatePubHistory(t, i, sn, ackReq, a) = [t EXCEPT !.history[i] = e]
      BY DEF UpdatePubHistory
    <3> HIDE DEF e
    <3>2. [t EXCEPT !.history[i] = e] = [t EXCEPT !.history = [t.history EXCEPT ![i] = e]]
      OBVIOUS
    <3> QED BY <2>2, <3>1, <3>2
  <2> QED BY <2>1, <2>3, PutHistory
<1> QED BY <1>1, <1>2

\* A publication that was not used has nothing in its queues, before and after.
LEMMA FreshPub ==
    ASSUME NEW t, NEW l, NEW a, Inv(t, l, a), NEW p \in Pubs, t.pub[p].st = "unused", NEW o \in PubType, o.st # "unused",
           o.sendQ = <<>>, o.retQ = <<>>
    PROVE  Inv(SetPub(t, p, o), l, a)
<1> DEFINE u == SetPub(t, p, o)
<1>1. t \in StateType
  BY DEF Inv, Good
<1>2. /\ u \in StateType /\ Apart(t, u) /\ u.req = t.req /\ u.fault = t.fault
      /\ u.pub[p] = o /\ \A x \in Pubs \ {p} : u.pub[x] = t.pub[x]
  BY <1>1, SetPubIs
<1> HIDE DEF u
<1>3. ASSUME NEW r \in Reqs PROVE Queued(u, r, p) = Queued(t, r, p)
  <2>1. <<>> \o <<>> = <<>>
    OBVIOUS
  <2>2. Queued(u, r, p) = 0
    BY <1>2, <2>1, OccursNone DEF Queued, Queue
  <2> QED BY <2>2, UnusedQueues
<1>4. \A x \in Pubs \ {p} : \A r \in Reqs : Queued(u, r, x) = Queued(t, r, x)
  BY <1>2 DEF Queued, Queue
<1>5. \A x \in Pubs, r \in Reqs : Queued(u, r, x) = Queued(t, r, x)
  BY <1>3, <1>4
<1>6. Still(t, u)
  BY <1>2, <1>5 DEF Still, Apart
<1>7. PubsStay(t, u)
  BY <1>2 DEF PubsStay
<1>8. AcksTied(u)
  BY <1>2 DEF Inv, AcksTied, Apart
<1>9. Inv(u, l, a)
  BY <1>2, <1>6, <1>7, <1>8, InvStill DEF Apart
<1> QED BY <1>9 DEF u

LEMMA HandlersAre ==
    ASSUME NEW f, IsHandlers(f), NEW x \in Subs, NEW y \in Subs \cup {NULL}
    PROVE  LET g == [f EXCEPT !.sub = x, !.next = y]
           IN  IsHandlers(g) /\ g.req = f.req /\ g.copy = f.copy /\ g.sub = x /\ g.at = f.at
BY DEF IsHandlers
LEMMA HandlersAt ==
    ASSUME NEW f, IsHandlers(f), f.sub \in Subs, NEW at \in {"decrypting", "calling"}
    PROVE  LET g == [f EXCEPT !.at = at] IN IsHandlers(g) /\ g.req = f.req /\ g.copy = f.copy /\ g.sub = f.sub
BY DEF IsHandlers
LEMMA HandlersCopy ==
    ASSUME NEW f, IsHandlers(f), f.sub \in Subs, NEW c \in Pubs
    PROVE  LET g == [f EXCEPT !.at = "calling", !.copy = c] IN IsHandlers(g) /\ g.req = f.req
BY DEF IsHandlers

LEMMA CopyOfIs ==
    ASSUME NEW o \in PubType, NEW seq \in Int
    PROVE  CopyOf(o, seq) \in PubType /\ CopyOf(o, seq).st # "unused" /\ CopyOf(o, seq).sendQ = <<>> /\ CopyOf(o, seq).retQ = <<>>
<1> DEFINE e == <<>>
<1>1. e \in Seq(Reqs)
  OBVIOUS
<1>2. NewPub = [st |-> "unused", id |-> NULL, flags |-> {}, refs |-> 0, seq |-> 0, ttl |-> 0,
                ackReq |-> FALSE, from |-> NULL, sendQ |-> e, retQ |-> e]
  BY DEF NewPub
<1> DEFINE k == {"IS_COPY"}
<1>0. k \in SUBSET Flags /\ CopyOf(o, seq) = [NewPub EXCEPT !.st = "held", !.id = o.id, !.flags = k, !.seq = seq, !.ttl = o.ttl,
                                 !.ackReq = o.ackReq]
  BY DEF CopyOf, Flags
<1> DEFINE i == o.id  d == o.ttl  c == o.ackReq
<1>4. i \in PubIds \cup {NULL} /\ d \in Int /\ c \in BOOLEAN
  BY PubParts
<1>5. CopyOf(o, seq) = [NewPub EXCEPT !.st = "held", !.id = i, !.flags = k, !.seq = seq, !.ttl = d, !.ackReq = c]
  BY <1>0
<1> HIDE DEF e, k, i, d, c
<1>6. CopyOf(o, seq) = [st |-> "held", id |-> i, flags |-> k, refs |-> 0, seq |-> seq, ttl |-> d,
                        ackReq |-> c, from |-> NULL, sendQ |-> e, retQ |-> e]
  BY <1>2, <1>5
<1>3. CopyOf(o, seq) \in PubType /\ CopyOf(o, seq).st = "held" /\ CopyOf(o, seq).sendQ = e /\ CopyOf(o, seq).retQ = e
  <2>1. k \in SUBSET Flags
    BY <1>0
  <2> DEFINE w == CopyOf(o, seq)
  <2>2. w = [st |-> "held", id |-> i, flags |-> k, refs |-> 0, seq |-> seq, ttl |-> d,
             ackReq |-> c, from |-> NULL, sendQ |-> e, retQ |-> e]
    BY <1>6
  <2> HIDE DEF w
  <2>3. w \in PubType
    BY <1>1, <1>4, <2>1, <2>2 DEF PubType
  <2> QED BY <2>2, <2>3 DEF w
<1> QED BY <1>3 DEF e

LEMMA AfterIs == ASSUME NEW T, NEW q \in Seq(T), NEW x PROVE After(q, x) \in T \cup {NULL}
<1> DEFINE i == SelectInSeq(q, LAMBDA y : y = x)
<1>1. After(q, x) = IF i \in 1 .. Len(q) - 1 THEN q[i + 1] ELSE NULL
  BY DEF After
<1> HIDE DEF i
<1>2. i \in 1 .. Len(q) - 1 => q[i + 1] \in T
  OBVIOUS
<1> QED BY <1>1, <1>2
LEMMA FirstIs == ASSUME NEW T, NEW q \in Seq(T) PROVE First(q) \in T \cup {NULL}
BY DEF First

LEMMA HandlersReturnStep ==
    ASSUME NEW t, Inv(t, loop, app), loop # <<>>, Top.k = "handlers", NEW ret \in {"OK", "FAILED"}, HandlersReturn(t, ret), app' = app
    PROVE  Inv(s', loop', app')
<1>1. IsHandlers(Top)
  <2>1. loop[Len(loop)].k = "handlers"
    BY DEF Top
  <2>2. PICK g, e : IsHandlers(e) /\ \/ loop = <<g, e>> /\ Double(g, e)
                                     \/ \E f : loop = <<f, g, e>> /\ Triple(f, g, e)
    BY <2>1, TopHandlers DEF Inv
  <2>3. loop[Len(loop)] = e
    BY <2>2, Stacks
  <2> QED BY <2>2, <2>3 DEF Top
<1>2. Inv(s', loop, app)
  <2>1. CASE Top.copy = NULL
    BY <2>1 DEF HandlersReturn
  <2>2. CASE Top.copy # NULL
    <3>1. Top.copy \in Pubs
      BY <1>1, <2>2 DEF IsHandlers
    <3>2. s' = FreePublication(t, Top.copy)
      BY <2>2 DEF HandlersReturn
    <3>3. Good(t, HeldBy(loop), UsedBy(loop, app))
      BY DEF Inv
    <3>4. Fine(t, FreePublication(t, Top.copy), HeldBy(loop), UsedBy(loop, app))
      BY <3>1, <3>3, FreePublicationGood
    <3> QED BY <3>2, <3>4, InvFine
  <2> QED BY <2>1, <2>2
<1>3. Inv(s', Append(SubSeq(loop, 1, Len(loop) - 2), [loop[Len(loop) - 1] EXCEPT !.ret = ret]), app)
  BY <1>2, HandlersPop DEF Top
<1> QED BY <1>3 DEF HandlersReturn

LEMMA CallHandlerStep ==
    ASSUME NEW t, Inv(t, loop, app), loop # <<>>, Top.k = "handlers", NEW f, IsHandlers(f), f.sub \in Subs,
           t.req[f.req].st # "unused", CallHandler(t, f), app' = app
    PROVE  Inv(s', loop', app')
<1> DEFINE r == f.req
           p == t.req[r].pub
           o == t.pub[p]
           a == IF o.from = NULL THEN Loopback ELSE o.from
           u == UpdatePubHistory(t, o.id, t.req[r].seq, o.ackReq, a)
           g == [f EXCEPT !.at = "calling"]
           Copied == \E c \in Fresh(Unused(t.pub) \cap Others) :
                         /\ s' = [u EXCEPT !.pub[c] = CopyOf(o, t.req[r].seq)]
                         /\ Resume([f EXCEPT !.at = "calling", !.copy = c])
<1>0. IF "LOCAL" \in o.flags /\ f.copy = NULL THEN Copied ELSE s' = u /\ Resume(g)
  BY Zenon DEF CallHandler
<1>1. t \in StateType /\ r \in Reqs /\ t.req[r] \in ReqType /\ ReqOK(t, HeldBy(loop), UsedBy(loop, app), r)
  BY Parts DEF Inv, Good, IsHandlers
<1>2. p \in Pubs
  BY <1>1 DEF ReqOK
<1>3. o \in PubType /\ t.req[r].seq \in Int
  BY <1>1, <1>2, Parts, ReqParts
<1>4. o.ackReq \in BOOLEAN /\ a \in Sources
  BY <1>3, PubParts DEF Sources
<1>5. u \in StateType /\ Plain(t, u)
  <2> HIDE DEF o, a, r
  <2> QED BY <1>1, <1>3, <1>4, HistoryPlain
<1> HIDE DEF u
<1>6. Inv(u, loop, app) /\ u.req = t.req /\ u.pub = t.pub
  BY <1>5, InvPlain DEF Plain
<1>7. CASE "LOCAL" \in o.flags /\ f.copy = NULL
  <2>1. PICK c \in Fresh(Unused(t.pub) \cap Others) : /\ s' = [u EXCEPT !.pub[c] = CopyOf(o, t.req[r].seq)]
                                                      /\ Resume([f EXCEPT !.at = "calling", !.copy = c])
    BY <1>0, <1>7
  <2>2. c \in Pubs /\ u.pub[c].st = "unused"
    BY <1>6 DEF Fresh, Unused, Pubs
  <2> DEFINE w == CopyOf(o, t.req[r].seq)
             e == [f EXCEPT !.at = "calling", !.copy = c]
  <2>3. w \in PubType /\ w.st # "unused" /\ w.sendQ = <<>> /\ w.retQ = <<>>
    BY <1>3, CopyOfIs
  <2>4. IsHandlers(e) /\ e.req = r
    BY <2>2, HandlersCopy
  <2>5. loop' = Append(Front(loop), e)
    BY <2>1 DEF Resume
  <2>6. s' = SetPub(u, c, w)
    BY <2>1 DEF SetPub
  <2> HIDE DEF w, e
  <2>7. Inv(s', loop, app)
    BY <1>6, <2>2, <2>3, <2>6, FreshPub
  <2>8. s'.req = t.req
    BY <1>5, <1>6, <2>2, <2>3, <2>6, SetPubIs
  <2> QED BY <2>4, <2>5, <2>7, <2>8, HandlersResume DEF Top
<1>8. CASE ~("LOCAL" \in o.flags /\ f.copy = NULL)
  <2>1. s' = u /\ loop' = Append(Front(loop), g)
    BY <1>0, <1>8 DEF Resume
  <2>2. IsHandlers(g) /\ g.req = r
    BY HandlersAt
  <2> HIDE DEF g
  <2> QED BY <1>6, <2>1, <2>2, HandlersResume DEF Top
<1> QED BY <1>7, <1>8

LEMMA TopIs == ASSUME NEW t, Inv(t, loop, app), loop # <<>>, Top.k = "handlers"
               PROVE  IsHandlers(Top) /\ t.req[Top.req].st # "unused" /\ Top.req \in Reqs
<1>1. loop[Len(loop)].k = "handlers"
  BY DEF Top
<1>2. PICK g, e : IsHandlers(e) /\ \/ loop = <<g, e>> /\ Double(g, e)
                                   \/ \E f : loop = <<f, g, e>> /\ Triple(f, g, e)
  BY <1>1, TopHandlers DEF Inv
<1>3. loop[Len(loop)] = e
  BY <1>2, Stacks
<1>4. FrameOK(t, e)
  <2>1. CASE loop = <<g, e>>
    BY <2>1, FramedTuples DEF Inv
  <2>2. ASSUME NEW f, loop = <<f, g, e>> PROVE FrameOK(t, e)
    <3>1. Framed(t, <<f, g, e>>)
      BY <2>2 DEF Inv
    <3> QED BY <3>1, FramedTuples
  <2> QED BY <1>2, <2>1, <2>2
<1> QED BY <1>2, <1>3, <1>4 DEF Top, FrameOK, IsHandlers

LEMMA WalkHandlersStep == ASSUME Inv(s, loop, app), WalkHandlers PROVE Inv(s', loop', app')
<1> DEFINE x == Top.next
           k == s.sub[x].refs + 1
           t == [s EXCEPT !.sub[x].refs = @ + 1]
           f == [Top EXCEPT !.sub = x, !.next = NextSub(s, x)]
<1>1. loop # <<>> /\ Top.k = "handlers" /\ app' = app
  BY DEF WalkHandlers, At
<1>2. IsHandlers(Top) /\ s.req[Top.req].st # "unused"
  BY <1>1, TopIs
<1>3. s \in StateType
  BY DEF Inv, Good
<1>4. CASE x = NULL
  BY <1>1, <1>4, HandlersReturnStep DEF WalkHandlers
<1>5. CASE x # NULL
  <2>1. x \in Subs
    BY <1>2, <1>5 DEF IsHandlers
  <2>2. NextSub(s, x) \in Subs \cup {NULL}
    BY <1>3, Parts, AfterIs DEF NextSub
  <2>3. IsHandlers(f) /\ f.req = Top.req /\ f.sub = x
    <3> DEFINE g == Top  y == NextSub(s, x)
    <3>1. IsHandlers(g) /\ x \in Subs /\ y \in Subs \cup {NULL} /\ f = [g EXCEPT !.sub = x, !.next = y]
      BY <1>2, <2>1, <2>2
    <3> HIDE DEF g, y, x, f
    <3>2. IsHandlers(f) /\ f.req = g.req /\ f.sub = x
      BY <3>1 DEF IsHandlers
    <3> QED BY <3>2 DEF g
  <2>4. t \in StateType /\ Plain(s, t)
    <3>1. s.sub \in [Subs -> SubType]
      BY <1>3, Parts
    <3>2. k \in Int
      BY <2>1, <3>1 DEF SubType
    <3>3. t = [s EXCEPT !.sub = [s.sub EXCEPT ![x] = [s.sub[x] EXCEPT !.refs = k]]]
      BY <2>1, <3>1 DEF StateType, SubType
    <3> HIDE DEF k, t
    <3> QED BY <1>3, <2>1, <3>2, <3>3, SubRefs
  <2>5. \/ s' = s /\ Resume(f)
        \/ CallHandler(t, f)
        \/ s' = t /\ Resume([f EXCEPT !.at = "decrypting"])
    BY <1>5, Zenon DEF WalkHandlers
  <2> HIDE DEF t, f
  <2>6. Inv(t, loop, app) /\ t.req = s.req
    BY <2>4, InvPlain DEF Plain
  <2>7. CASE s' = s /\ Resume(f)
    BY <1>1, <1>2, <2>3, <2>7, HandlersResume DEF Resume, Top
  <2>8. CASE CallHandler(t, f)
    BY <1>1, <1>2, <2>1, <2>3, <2>6, <2>8, CallHandlerStep
  <2>9. CASE s' = t /\ Resume([f EXCEPT !.at = "decrypting"])
    <3> DEFINE e == [f EXCEPT !.at = "decrypting"]
    <3>1. IsHandlers(e) /\ e.req = f.req
      BY <2>1, <2>3, HandlersAt
    <3>2. loop' = Append(Front(loop), e)
      BY <2>9 DEF Resume
    <3> HIDE DEF e
    <3> QED BY <1>1, <1>2, <2>3, <2>6, <2>9, <3>1, <3>2, HandlersResume DEF Top
  <2> QED BY <2>5, <2>7, <2>8, <2>9
<1> QED BY <1>4, <1>5

LEMMA DecryptedStep == ASSUME Inv(s, loop, app), Decrypted PROVE Inv(s', loop', app')
<1> DEFINE f == [Top EXCEPT !.parsed = TRUE]
           t == SubscriptionDecRef(s, Top.sub)
<1>1. loop # <<>> /\ Top.k = "handlers" /\ Top.at = "decrypting" /\ app' = app
  BY DEF Decrypted, At
<1>2. IsHandlers(Top) /\ s.req[Top.req].st # "unused" /\ s \in StateType
  BY <1>1, TopIs DEF Inv, Good
<1>3. Top.sub \in Subs
  BY <1>1, <1>2 DEF IsHandlers
<1>4. IsHandlers(f) /\ f.req = Top.req /\ f.sub = Top.sub
  BY <1>2 DEF IsHandlers
<1>5. t \in StateType /\ Plain(s, t)
  BY <1>2, <1>3, SubscriptionDecRefIs
<1>6. CallHandler(s, f) \/ HandlersReturn(t, "OK") \/ HandlersReturn(t, "FAILED")
  BY Zenon DEF Decrypted
<1> HIDE DEF f, t
<1>7. Inv(t, loop, app)
  BY <1>5, InvPlain
<1>8. CASE CallHandler(s, f)
  BY <1>1, <1>2, <1>3, <1>4, <1>8, CallHandlerStep
<1>9. CASE HandlersReturn(t, "OK")
  BY <1>1, <1>7, <1>9, HandlersReturnStep
<1>10. CASE HandlersReturn(t, "FAILED")
  BY <1>1, <1>7, <1>10, HandlersReturnStep
<1> QED BY <1>6, <1>8, <1>9, <1>10

LEMMA HandlerReturnsStep == ASSUME Inv(s, loop, app), HandlerReturns PROVE Inv(s', loop', app')
<1> DEFINE f == [Top EXCEPT !.at = "walking", !.sub = NULL]
           t == SubscriptionDecRef(s, Top.sub)
<1>1. loop # <<>> /\ Top.k = "handlers" /\ Top.at = "calling" /\ app' = app
  BY DEF HandlerReturns, At
<1>2. IsHandlers(Top) /\ s.req[Top.req].st # "unused" /\ s \in StateType
  BY <1>1, TopIs DEF Inv, Good
<1>3. Top.sub \in Subs
  BY <1>1, <1>2 DEF IsHandlers
<1>4. IsHandlers(f) /\ f.req = Top.req
  BY <1>2 DEF IsHandlers
<1>5. t \in StateType /\ Plain(s, t)
  BY <1>2, <1>3, SubscriptionDecRefIs
<1>6. s' = t /\ loop' = Append(Front(loop), f)
  BY DEF HandlerReturns, Resume
<1> HIDE DEF f, t
<1>7. Inv(t, loop, app) /\ t.req = s.req
  BY <1>5, InvPlain DEF Plain
<1> QED BY <1>1, <1>2, <1>4, <1>6, <1>7, HandlersResume DEF Top

--------------------------------------------------------------------------------
(* SendPubs. *)

LEMMA TopPubs ==
    ASSUME Shape(loop), loop # <<>>
    PROVE  /\ Top.k = "pubs" => loop = <<Top>> /\ IsPubs(Top)
           /\ Top.k = "acks" => loop = <<Top>> /\ IsAcks(Top)
<1>1. ASSUME NEW f, Single(f), loop = <<f>>
      PROVE  /\ Top.k = "pubs" => loop = <<Top>> /\ IsPubs(Top)
             /\ Top.k = "acks" => loop = <<Top>> /\ IsAcks(Top)
  <2>1. Top = f
    BY <1>1, Stacks DEF Top
  <2> QED BY <1>1, <2>1 DEF Single, IsPubs, IsDecode, IsAck, IsAcks
<1>2. ASSUME NEW f, NEW g, Double(f, g), loop = <<f, g>> PROVE Top.k \notin {"pubs", "acks"}
  <2>1. Top = g
    BY <1>2, Stacks DEF Top
  <2> QED BY <1>2, <2>1 DEF Double, IsDecode, IsHandlers, IsAck
<1>3. ASSUME NEW f, NEW g, NEW e, Triple(f, g, e), loop = <<f, g, e>> PROVE Top.k \notin {"pubs", "acks"}
  <2>1. Top = e
    BY <1>3, Stacks DEF Top
  <2> QED BY <1>3, <2>1 DEF Triple, IsHandlers
<1> QED BY <1>1, <1>2, <1>3 DEF Shape

\* The stack with nothing on it, with one frame.
LEMMA InvNone ==
    ASSUME NEW u, NEW h, NEW n, NEW a, Good(u, h, n), \A r \in Reqs : h[r] = 0 /\ n[r] = Mine(a, r), AcksTied(u), ReqsTied(u),
           AppOK(u, a)
    PROVE  Inv(u, <<>>, a)
<1>1. Good(u, HeldBy(<<>>), UsedBy(<<>>, a))
  BY GoodPoint, CountsBy, HeldNone, UsedNone
<1>2. Shape(<<>>)
  BY DEF Shape
<1> QED BY <1>1, <1>2, FramedTuples DEF Inv
LEMMA InvSingle ==
    ASSUME NEW u, NEW h, NEW n, NEW a, NEW g, Good(u, h, n), Single(g), FrameOK(u, g),
           \A r \in Reqs : h[r] = Holds(g, r) /\ n[r] = Uses(g, r) + Mine(a, r), AcksTied(u), ReqsTied(u), AppOK(u, a)
    PROVE  Inv(u, <<g>>, a)
<1>1. Good(u, HeldBy(<<g>>), UsedBy(<<g>>, a))
  <2>1. \A r \in Reqs : HeldBy(<<g>>)[r] = h[r] /\ UsedBy(<<g>>, a)[r] = n[r]
    BY HeldOne, UsedOne
  <2> QED BY <2>1, GoodPoint, CountsBy
<1>2. Shape(<<g>>)
  BY DEF Shape
<1> QED BY <1>1, <1>2, FramedTuples DEF Inv
LEMMA SingleIs ==
    ASSUME NEW t, NEW f, NEW a, Inv(t, <<f>>, a)
    PROVE  /\ t \in StateType /\ Good(t, HeldBy(<<f>>), UsedBy(<<f>>, a)) /\ FrameOK(t, f) /\ AcksTied(t) /\ ReqsTied(t)
           /\ AppOK(t, a) /\ \A r \in Reqs : HeldBy(<<f>>)[r] = Holds(f, r) /\ UsedBy(<<f>>, a)[r] = Uses(f, r) + Mine(a, r)
BY HeldOne, UsedOne, FramedTuples DEF Inv, Good

\* One frame for another that counts the same.
LEMMA Swap ==
    ASSUME NEW t, NEW f, NEW g, NEW a, Inv(t, <<f>>, a), Single(g), FrameOK(t, g),
           \A r \in Reqs : Holds(g, r) = Holds(f, r) /\ Uses(g, r) = Uses(f, r)
    PROVE  Inv(t, <<g>>, a)
<1>1. /\ t \in StateType /\ Good(t, HeldBy(<<f>>), UsedBy(<<f>>, a)) /\ FrameOK(t, f) /\ AcksTied(t) /\ ReqsTied(t)
      /\ AppOK(t, a) /\ \A r \in Reqs : HeldBy(<<f>>)[r] = Holds(f, r) /\ UsedBy(<<f>>, a)[r] = Uses(f, r) + Mine(a, r)
  BY HeldOne, UsedOne, FramedTuples DEF Inv, Good
<1>2. \A r \in Reqs : HeldBy(<<f>>)[r] = Holds(g, r) /\ UsedBy(<<f>>, a)[r] = Uses(g, r) + Mine(a, r)
  BY <1>1
<1> QED BY <1>1, <1>2, InvSingle
\* A frame that counts nothing comes and goes.
Free(f) == \A r \in Reqs : Holds(f, r) = 0 /\ Uses(f, r) = 0
LEMMA Push == ASSUME NEW t, NEW f, NEW a, Inv(t, <<>>, a), Single(f), FrameOK(t, f), Free(f) PROVE Inv(t, <<f>>, a)
<1>1. Shape(<<f>>) /\ Framed(t, <<f>>)
  BY FramedTuples DEF Shape
<1>2. ASSUME NEW r \in Reqs PROVE HeldBy(<<f>>)[r] = HeldBy(<<>>)[r] /\ UsedBy(<<f>>, a)[r] = UsedBy(<<>>, a)[r]
  <2>1. HeldBy(<<f>>)[r] = Holds(f, r) /\ HeldBy(<<>>)[r] = 0 /\ UsedBy(<<f>>, a)[r] = Uses(f, r) + Mine(a, r)
        /\ UsedBy(<<>>, a)[r] = Mine(a, r) /\ Holds(f, r) = 0 /\ Uses(f, r) = 0 /\ Mine(a, r) \in Nat
    BY HeldOne, HeldNone, UsedOne, UsedNone, UsesType DEF Free
  <2> QED BY <2>1
<1> QED BY <1>1, <1>2, InvStack DEF SameStack
LEMMA Pop == ASSUME NEW t, NEW f, NEW a, Inv(t, <<f>>, a), Free(f) PROVE Inv(t, <<>>, a)
<1>1. Shape(<<>>) /\ Framed(t, <<>>)
  BY FramedTuples DEF Shape
<1>2. ASSUME NEW r \in Reqs PROVE HeldBy(<<>>)[r] = HeldBy(<<f>>)[r] /\ UsedBy(<<>>, a)[r] = UsedBy(<<f>>, a)[r]
  <2>1. HeldBy(<<f>>)[r] = Holds(f, r) /\ HeldBy(<<>>)[r] = 0 /\ UsedBy(<<f>>, a)[r] = Uses(f, r) + Mine(a, r)
        /\ UsedBy(<<>>, a)[r] = Mine(a, r) /\ Holds(f, r) = 0 /\ Uses(f, r) = 0 /\ Mine(a, r) \in Nat
    BY HeldOne, HeldNone, UsedOne, UsedNone, UsesType DEF Free
  <2> QED BY <2>1
<1> QED BY <1>1, <1>2, InvStack DEF SameStack

LEMMA NotReq == NULL \notin Reqs /\ NULL \notin Pubs /\ NULL \notin Acks /\ NULL \notin Subs
BY NullAssumption

LEMMA SendPubsStep == ASSUME Inv(s, loop, app), SendPubs PROVE Inv(s', loop', app')
<1> DEFINE f == [k |-> "pubs", at |-> "next", pub |-> NULL, next |-> First(s.publications), req |-> NULL,
                 expired |-> NULL, reschedule |-> NULL, ret |-> "OK"]
<1>1. loop = <<>> /\ app' = app /\ loop' = <<f>>
  BY Appends DEF SendPubs, Call
<1>2. s \in StateType
  BY DEF Inv, Good
<1>3. s' \in StateType /\ Plain(s, s')
  <2>1. CASE s' = [s EXCEPT !.async = @ \ {"pubs"}]
    <3>1. s.async \ {"pubs"} \in SUBSET Tasks
      BY <1>2, Parts
    <3> QED BY <1>2, <2>1, <3>1, PutAsync, AlikePlain
  <2>2. CASE s' = [s EXCEPT !.timer = NULL]
    BY <1>2, <2>2, PutTimer, AlikePlain
  <2> QED BY <2>1, <2>2 DEF SendPubs
<1>4. Inv(s', <<>>, app)
  BY <1>1, <1>3, InvPlain
<1>5. IsPubs(f)
  <2>1. First(s.publications) \in Pubs \cup {NULL}
    BY <1>2, Parts, FirstIs
  <2> DEFINE x == First(s.publications)
  <2> HIDE DEF x
  <2>2. IsPubs([k |-> "pubs", at |-> "next", pub |-> NULL, next |-> x, req |-> NULL,
                 expired |-> NULL, reschedule |-> NULL, ret |-> "OK"])
    BY <2>1 DEF IsPubs, x
  <2> QED BY <2>2 DEF x
<1>6. Free(f)
  BY NotReq DEF Free, Holds, Uses
<1>7. FrameOK(s', f)
  BY DEF FrameOK
<1> HIDE DEF f
<1> QED BY <1>1, <1>4, <1>5, <1>6, <1>7, Push DEF Single

LEMMA SendNextStep == ASSUME Inv(s, loop, app), SendNext PROVE Inv(s', loop', app')
<1> DEFINE f == Top
<1>1. loop # <<>> /\ f.k = "pubs" /\ f.at = "next" /\ app' = app
  BY DEF SendNext, At
<1>2. loop = <<f>> /\ IsPubs(f)
  BY <1>1, TopPubs DEF Inv
<1>3. s \in StateType
  BY DEF Inv, Good
<1>4. Front(loop) = <<>>
  BY <1>2, Fronts
<1>5. Free(f)
  BY <1>1, <1>2, NotReq DEF Free, Holds, Uses, IsPubs
<1>6. CASE f.next = NULL
  <2>1. s' = [s EXCEPT !.timer = IF f.reschedule = NULL THEN @ ELSE f.reschedule] /\ loop' = <<>>
    BY <1>4, <1>6 DEF SendNext, Return
  <2> DEFINE i == IF f.reschedule = NULL THEN s.timer ELSE f.reschedule
  <2>2. i \in Int \cup {NULL} /\ s' = [s EXCEPT !.timer = i]
    BY <1>2, <1>3, <2>1, Parts DEF IsPubs
  <2> HIDE DEF i
  <2>3. s' \in StateType /\ Plain(s, s')
    BY <1>3, <2>2, PutTimer, AlikePlain
  <2>4. Inv(s', <<f>>, app)
    BY <1>2, <2>3, InvPlain
  <2> HIDE DEF f
  <2> QED BY <1>1, <1>5, <2>1, <2>4, Pop
<1>7. CASE f.next # NULL
  <2> DEFINE p == f.next
             g == [f EXCEPT !.at = "queue", !.pub = p, !.next = NextPub(s, p), !.req = NULL, !.expired = NULL]
  <2>1. p \in Pubs
    BY <1>2, <1>7 DEF IsPubs
  <2>2. s' = PublicationIncRef(s, p) /\ loop' = <<g>>
    <3>1. s' = PublicationIncRef(s, p) /\ loop' = Append(Front(loop), g)
      BY <1>7 DEF SendNext, Resume
    <3> QED BY <1>4, <3>1, Appends
  <2>3. NextPub(s, p) \in Pubs \cup {NULL}
    BY <1>3, Parts, AfterIs DEF NextPub
  <2>4. IsPubs(g) /\ g.at = "queue" /\ g.expired = NULL /\ g.req = NULL /\ g.k = "pubs"
    <3> DEFINE x == NextPub(s, p)
    <3> HIDE DEF x
    <3>1. LET e == [f EXCEPT !.at = "queue", !.pub = p, !.next = x, !.req = NULL, !.expired = NULL]
          IN  IsPubs(e) /\ e.at = "queue" /\ e.expired = NULL /\ e.req = NULL /\ e.k = "pubs"
      BY <1>2, <2>1, <2>3 DEF IsPubs, x
    <3> QED BY <3>1 DEF x
  <2>5. Does(s, s')
    BY <1>3, <2>1, <2>2, IncRefIs
  <2>6. Inv(s', <<f>>, app)
    BY <1>2, <2>5, FineDoes, InvFine DEF Inv
  <2> HIDE DEF g, f
  <2>7. FrameOK(s', g)
    BY <2>4 DEF FrameOK
  <2>8. \A r \in Reqs : Holds(g, r) = Holds(f, r) /\ Uses(g, r) = Uses(f, r)
    BY <1>5, <2>4, NotReq DEF Free, Holds, Uses
  <2> QED BY <1>1, <2>2, <2>4, <2>6, <2>7, <2>8, Swap DEF Single
<1> QED BY <1>6, <1>7

--------------------------------------------------------------------------------
(* What an operation that moves the requests of a set leaves alone. *)

SamePlace(q, w) == w.pub = q.pub /\ (w.st = "unused" <=> q.st = "unused")
Around(t, u, S) ==
    /\ \A r \in Reqs \ S : SameReq(t.req[r], u.req[r])
    /\ \A r \in S : SamePlace(t.req[r], u.req[r])
    /\ \A a \in Acks : u.ack[a].st = "unused" => t.ack[a].st = "unused"
    /\ PubsStay(t, u) /\ (AcksTied(t) => AcksTied(u))

LEMMA AroundTrans ==
    ASSUME NEW t, NEW u, NEW v, NEW S, NEW T, S \subseteq Reqs, T \subseteq Reqs, Around(t, u, S), Around(u, v, T)
    PROVE  Around(t, v, S \cup T)
<1>1. \A r \in Reqs : SamePlace(t.req[r], u.req[r]) /\ SamePlace(u.req[r], v.req[r])
  BY DEF Around, SameReq, SamePlace
<1>2. \A r \in S \cup T : SamePlace(t.req[r], v.req[r])
  BY <1>1 DEF SamePlace
<1>3. ASSUME NEW r \in Reqs \ (S \cup T) PROVE SameReq(t.req[r], v.req[r])
  <2>1. SameReq(t.req[r], u.req[r]) /\ SameReq(u.req[r], v.req[r])
    BY DEF Around
  <2> QED BY <2>1 DEF SameReq
<1> QED BY <1>2, <1>3 DEF Around, PubsStay
LEMMA CalmAround == ASSUME NEW t, NEW u, Calm(t, u) PROVE Around(t, u, {})
BY CalmStable DEF Around, Stable
LEMMA AroundCalm == ASSUME NEW t, NEW u, NEW v, NEW S, S \subseteq Reqs, Around(t, u, S), Calm(u, v) PROVE Around(t, v, S)
<1>1. Around(t, v, S \cup {})
  BY CalmAround, AroundTrans
<1> QED BY <1>1
LEMMA AroundTied ==
    ASSUME NEW t, NEW u, NEW h, NEW n, NEW S, S \subseteq Reqs, Good(t, h, n), ReqsTied(t), Around(t, u, S) PROVE ReqsTied(u)
<1>1. ASSUME NEW r \in Reqs, u.req[r].st # "unused" PROVE u.pub[u.req[r].pub].st # "unused"
  <2>1. t.req[r].st # "unused" /\ u.req[r].pub = t.req[r].pub
    BY <1>1 DEF Around, SameReq, SamePlace
  <2>2. t.req[r].pub \in Pubs
    BY <2>1 DEF Good, ReqOK
  <2> QED BY <2>1, <2>2 DEF ReqsTied, Around, PubsStay
<1> QED BY <1>1 DEF ReqsTied
LEMMA AroundFrame ==
    ASSUME NEW t, NEW u, NEW S, S \subseteq Reqs, Around(t, u, S), NEW f, IsFrame(f), FrameOK(t, f), f.k = "decode" => f.req \notin S
    PROVE  FrameOK(u, f)
<1>0. \A r \in Reqs : SamePlace(t.req[r], u.req[r])
  BY DEF Around, SameReq, SamePlace
<1>1. CASE IsPubs(f)
  BY <1>0, <1>1 DEF IsPubs, FrameOK, SamePlace
<1>2. CASE IsDecode(f)
  BY <1>2 DEF IsDecode, FrameOK, Around, SameReq
<1>3. CASE IsHandlers(f)
  BY <1>0, <1>3 DEF IsHandlers, FrameOK, SamePlace
<1>4. CASE IsAck(f)
  BY <1>4 DEF IsAck, FrameOK
<1>5. CASE IsAcks(f)
  BY <1>5 DEF IsAcks, FrameOK, Around
<1> QED BY <1>1, <1>2, <1>3, <1>4, <1>5 DEF IsFrame
LEMMA AroundApp == ASSUME NEW t, NEW u, NEW S, Around(t, u, S), NEW a, AppOK(t, a), a \notin S PROVE AppOK(u, a)
BY DEF AppOK, Around, SameReq
\* Nothing but one request changed, or one request and a publication's queues.
LEMMA OnlyAround ==
    ASSUME NEW t, NEW u, NEW r \in Reqs, \A x \in Reqs \ {r} : u.req[x] = t.req[x], SamePlace(t.req[r], u.req[r]),
           u.ack = t.ack, u.ackQueue = t.ackQueue, u.net = t.net, PubsStay(t, u)
    PROVE  Around(t, u, {r})
BY DEF Around, SameReq, AcksTied

\* A request is in one place.
LEMMA Placed ==
    ASSUME NEW t, NEW h, NEW n, Good(t, h, n), NEW r \in Reqs
    PROVE  /\ h[r] \in Nat /\ n[r] \in Nat /\ t.req[r] \in ReqType
           /\ h[r] > 0 => n[r] = 0 /\ h[r] = 1 /\ t.req[r].refs > 0 /\ t.req[r].st = "live" /\ t.req[r].pub \in Pubs
           /\ n[r] > 0 => n[r] = 1 /\ h[r] = 0 /\ t.req[r].st = "live" /\ t.req[r].pub \in Pubs
<1>1. t \in StateType /\ ReqOK(t, h, n, r) /\ h[r] \in Nat /\ n[r] \in Nat /\ t.req[r] \in ReqType
  BY Parts DEF Good, Counts
<1>2. CASE t.req[r].st = "unused"
  BY <1>1, <1>2 DEF ReqOK
<1>3. CASE t.req[r].st # "unused"
  <2> DEFINE a == t.req[r].refs  b == Queued(t, r, t.req[r].pub)  c == Flying(t, r)  d == h[r]  e == n[r]
  <2>1. t.req[r].pub \in Pubs
    BY <1>1, <1>3 DEF ReqOK
  <2>2. b \in Nat /\ c \in Nat /\ d \in Nat /\ e \in Nat
    BY <1>1, <2>1, QueueType, FlyingType
  <2>3. a = b + c + d /\ b + d + e <= 1 /\ (a > 0 \/ e > 0 => t.req[r].st = "live")
    BY <1>1, <1>3 DEF ReqOK
  <2> HIDE DEF a, b, c, d, e
  <2>4. (d > 0 => e = 0 /\ d = 1 /\ a > 0) /\ (e > 0 => e = 1 /\ d = 0)
    BY <2>2, <2>3
  <2> QED BY <1>1, <2>1, <2>3, <2>4 DEF a, d, e
<1> QED BY <1>2, <1>3

--------------------------------------------------------------------------------
(* DPS_DecodePublication. *)

LEMMA UnusedReq == ASSUME NEW t, NEW h, NEW n, Good(t, h, n), NEW r \in Reqs, t.req[r].st = "unused"
                   PROVE  t.req[r] = NewReq /\ h[r] = 0 /\ n[r] = 0
BY DEF Good, ReqOK

SetAll(t, l, g, f, k) == [t EXCEPT !.publications = l, !.pub = g, !.req = f, !.rxRefs = k]
LEMMA SetAllIs ==
    ASSUME NEW t \in StateType, NEW l \in Seq(Pubs), NEW g \in [Pubs -> PubType], NEW f \in [Reqs -> ReqType], NEW k \in Int
    PROVE  LET u == SetAll(t, l, g, f, k)
           IN  /\ u \in StateType /\ u.pub = g /\ u.req = f /\ u.net = t.net /\ u.fault = t.fault /\ u.ack = t.ack
               /\ u.ackQueue = t.ackQueue
BY DEF StateType, SetAll

LEMMA AcceptIs ==
    ASSUME NEW t \in StateType, NEW m \in PubMsg, NEW p \in Pubs, NEW r \in Reqs, t.req[r] = NewReq
    PROVE  LET u == Accept(t, m, p, r)
           IN  /\ u \in StateType /\ u.net = t.net /\ u.fault = t.fault /\ u.ack = t.ack /\ u.ackQueue = t.ackQueue
               /\ OnlyReq(t, u, r) /\ (\A x \in Reqs \ {r} : u.req[x] = t.req[x])
               /\ u.req[r].st = "live" /\ u.req[r].pub = p /\ u.req[r].refs = 0 /\ u.req[r].calls = 0 /\ ~u.req[r].cb
               /\ (\A x \in Pubs : SameQueues(t.pub[x], u.pub[x])) /\ u.pub[p].st # "unused" /\ PubsStay(t, u)
<1> DEFINE o == t.pub[p]
           q == t.req[r]
           flags == CASE m.ttl < 0 -> o.flags \cup {"EXPIRED"}
                      [] m.ttl = 0 -> o.flags \ {"RETAINED"}
                      [] OTHER     -> o.flags \cup {"RETAINED"}
           a == o.refs + 1
           v == [o EXCEPT !.st = "listed", !.id = m.id, !.refs = a, !.seq = m.seq, !.ackReq = m.ackReq, !.from = m.from,
                          !.flags = flags, !.ttl = m.ttl]
           w == [q EXCEPT !.st = "live", !.pub = p, !.seq = m.seq, !.rx = TRUE, !.body = m.body]
           l == IF o.st = "unused" THEN <<p>> \o t.publications ELSE t.publications
           k == t.rxRefs + 1
           g == [t.pub EXCEPT ![p] = v]
           f == [t.req EXCEPT ![r] = w]
<1>1. t.pub \in [Pubs -> PubType] /\ t.req \in [Reqs -> ReqType] /\ t.publications \in Seq(Pubs) /\ t.rxRefs \in Int /\ o \in PubType
  BY Parts
<1>2. m.id \in PubIds \cup {NULL} /\ m.seq \in Int /\ m.ackReq \in BOOLEAN /\ m.from \in Sources /\ m.ttl \in Int /\ m.body \in Bodies
  BY DEF PubMsg
<1>3. o.flags \in SUBSET Flags /\ o.refs \in Int
  BY <1>1, PubParts
<1>4. flags \in SUBSET Flags /\ a \in Int
  BY <1>2, <1>3 DEF Flags
<1>5. Accept(t, m, p, r) = SetAll(t, l, g, f, k)
  <2>1. Accept(t, m, p, r) = [t EXCEPT !.publications = l, !.pub[p] = v, !.req[r] = w, !.rxRefs = k]
    BY Zenon DEF Accept
  <2> HIDE DEF l, v, w, k
  <2> QED BY <2>1 DEF SetAll
<1>6. l \in Seq(Pubs) /\ k \in Int
  BY <1>1
<1> HIDE DEF flags, a, l, k
<1>7. v \in PubType /\ v.st = "listed" /\ v.sendQ = o.sendQ /\ v.retQ = o.retQ
  BY <1>1, <1>2, <1>4 DEF PubType
<1>8. w \in ReqType /\ w.st = "live" /\ w.pub = p /\ w.refs = 0 /\ w.calls = 0 /\ ~w.cb
  <2>1. q \in ReqType /\ q.refs = 0 /\ q.calls = 0 /\ q.cb = FALSE
    BY <1>1 DEF NewReq
  <2> HIDE DEF q
  <2> QED BY <1>2, <2>1 DEF ReqType
<1> HIDE DEF v, w
<1>9. g \in [Pubs -> PubType] /\ g[p] = v /\ \A x \in Pubs \ {p} : g[x] = t.pub[x]
  BY <1>1, <1>7
<1>10. f \in [Reqs -> ReqType] /\ f[r] = w /\ (\A x \in Reqs \ {r} : f[x] = t.req[x]) /\ f = [t.req EXCEPT ![r] = f[r]]
  BY <1>1, <1>8
<1> HIDE DEF g, f
<1> DEFINE u == SetAll(t, l, g, f, k)
<1>11. /\ u \in StateType /\ u.pub = g /\ u.req = f /\ u.net = t.net /\ u.fault = t.fault /\ u.ack = t.ack /\ u.ackQueue = t.ackQueue
  BY <1>6, <1>9, <1>10, SetAllIs
<1> HIDE DEF u
<1>12. \A x \in Pubs : SameQueues(t.pub[x], u.pub[x])
  BY <1>7, <1>9, <1>11 DEF SameQueues
<1>13. u.pub[p].st # "unused" /\ PubsStay(t, u)
  BY <1>7, <1>9, <1>11 DEF PubsStay
<1>14. OnlyReq(t, u, r) /\ (\A x \in Reqs \ {r} : u.req[x] = t.req[x]) /\ u.req[r] = w
  BY <1>10, <1>11 DEF OnlyReq
<1> QED BY <1>5, <1>8, <1>11, <1>12, <1>13, <1>14 DEF u

LEMMA DestroyGood ==
    ASSUME NEW t, NEW h, NEW n, Good(t, h, n), NEW r \in Reqs, n[r] > 0, t.req[r].refs = 0, ~t.req[r].cb
    PROVE  LET u == DestroyPublishRequest(t, r)
           IN  Good(u, h, Minus(n, r)) /\ Around(t, u, {r})
<1> DEFINE u == DestroyPublishRequest(t, r)
<1>1. t \in StateType /\ t.req \in [Reqs -> ReqType] /\ t.req[r] \in ReqType /\ t.req[r].st = "live"
  BY Parts, Placed DEF Good
<1>2. /\ u \in StateType /\ Apart(t, u) /\ u.pub = t.pub /\ u.fault = t.fault
      /\ u.req = [t.req EXCEPT ![r] = [t.req[r] EXCEPT !.st = "gone"]]
  BY <1>1, DestroyIs
<1> HIDE DEF u
<1> DEFINE w == [t.req[r] EXCEPT !.st = "gone"]
<1>3. w.st = "gone" /\ w.pub = t.req[r].pub
  BY <1>1 DEF ReqType
<1>4. u.req[r] = w /\ (\A x \in Reqs \ {r} : u.req[x] = t.req[x]) /\ OnlyReq(t, u, r)
  BY <1>1, <1>2 DEF OnlyReq
<1>5. Good(u, h, Minus(n, r))
  <2>1. u.net = t.net
    BY <1>2 DEF Apart
  <2> QED BY <1>2, <1>4, <2>1, EndGood
<1> HIDE DEF w
<1>6. Around(t, u, {r})
  <2>1. SamePlace(t.req[r], u.req[r])
    BY <1>1, <1>3, <1>4 DEF SamePlace
  <2>2. u.ack = t.ack /\ u.ackQueue = t.ackQueue /\ u.net = t.net /\ PubsStay(t, u)
    BY <1>2 DEF Apart, PubsStay
  <2> QED BY <1>4, <2>1, <2>2, OnlyAround
<1> QED BY <1>5, <1>6 DEF u

LEMMA HistoryFine ==
    ASSUME NEW t, NEW h, NEW n, Good(t, h, n), NEW i, NEW sn \in Int, NEW ackReq \in BOOLEAN, NEW a \in Sources
    PROVE  Fine(t, UpdatePubHistory(t, i, sn, ackReq, a), h, n)
<1>1. t \in StateType
  BY DEF Good
<1> DEFINE u == UpdatePubHistory(t, i, sn, ackReq, a)
<1>2. u \in StateType /\ Plain(t, u)
  BY <1>1, HistoryPlain
<1> HIDE DEF u
<1>3. Fine(t, u, h, n)
  BY <1>2, FinePlain
<1> QED BY <1>3 DEF u
LEMMA DropFine == ASSUME NEW t, NEW h, NEW n, Good(t, h, n), NEW m \in PubMsg PROVE Fine(t, Drop(t, m), h, n)
BY HistoryFine DEF Drop, PubMsg

LEMMA DecodeFailsGood ==
    ASSUME NEW t, NEW h, NEW n, Good(t, h, n), NEW r \in Reqs, n[r] > 0, t.req[r].refs = 0, ~t.req[r].cb, NEW p \in Pubs,
           NEW m \in PubMsg
    PROVE  LET u == DecodeFails(t, m, p, r)
           IN  Good(u, h, Minus(n, r)) /\ Around(t, u, {r})
<1> DEFINE l == Minus(n, r)
           u == DestroyPublishRequest(t, r)
           v == FreePublication(u, p)
           w == UpdatePubHistory(v, m.id, m.seq, m.ackReq, m.from)
<1>1. DecodeFails(t, m, p, r) = w
  BY DEF DecodeFails
<1>2. Good(u, h, l) /\ Around(t, u, {r})
  BY DestroyGood
<1> HIDE DEF l, u
<1>3. Fine(u, v, h, l)
  BY <1>2, FreePublicationGood
<1> HIDE DEF v
<1>4. Fine(v, w, h, l)
  BY <1>3, HistoryFine DEF Fine, PubMsg
<1> HIDE DEF w
<1>5. Good(w, h, l) /\ Around(t, w, {r})
  <2>1. Around(t, v, {r})
    BY <1>2, <1>3, AroundCalm DEF Fine
  <2>2. Around(t, w, {r})
    BY <1>4, <2>1, AroundCalm DEF Fine
  <2> QED BY <1>4, <2>2 DEF Fine
<1> QED BY <1>1, <1>5 DEF l

LEMMA DecodesIntoPubs == ASSUME NEW t \in StateType, NEW m PROVE DecodesInto(t, m) \subseteq Pubs
<1>1. ToSet(t.publications) \subseteq Pubs
  BY Parts DEF ToSet
<1> QED BY <1>1 DEF DecodesInto, LookupRetained, LookupPublication, Listed, Fresh, Pubs

\* A request that is new belongs to a publication that is listed, and to nobody's frame.
LEMMA AcceptGood ==
    ASSUME NEW t, NEW l, NEW a, Inv(t, l, a), NEW m \in PubMsg, NEW p \in Pubs, NEW r \in Reqs, t.req[r].st = "unused"
    PROVE  LET u == Accept(t, m, p, r)
           IN  /\ Good(u, HeldBy(l), Plus(UsedBy(l, a), r)) /\ HeldBy(l)[r] = 0 /\ UsedBy(l, a)[r] = 0
               /\ u.req[r].refs = 0 /\ ~u.req[r].cb /\ u.req[r].pub = p /\ u.req[r].st = "live"
               /\ AcksTied(u) /\ ReqsTied(u) /\ Framed(u, l) /\ AppOK(u, a)
<1> DEFINE u == Accept(t, m, p, r)
           h == HeldBy(l)
           n == UsedBy(l, a)
<1>1. Good(t, h, n) /\ t \in StateType /\ AcksTied(t) /\ ReqsTied(t) /\ Shape(l) /\ Framed(t, l) /\ AppOK(t, a)
  BY DEF Inv, Good
<1>2. t.req[r] = NewReq /\ h[r] = 0 /\ n[r] = 0
  BY <1>1, UnusedReq
<1>3. /\ u \in StateType /\ u.net = t.net /\ u.fault = t.fault /\ u.ack = t.ack /\ u.ackQueue = t.ackQueue
      /\ OnlyReq(t, u, r) /\ (\A x \in Reqs \ {r} : u.req[x] = t.req[x])
      /\ u.req[r].st = "live" /\ u.req[r].pub = p /\ u.req[r].refs = 0 /\ u.req[r].calls = 0 /\ ~u.req[r].cb
      /\ (\A x \in Pubs : SameQueues(t.pub[x], u.pub[x])) /\ u.pub[p].st # "unused" /\ PubsStay(t, u)
  BY <1>1, <1>2, AcceptIs
<1> HIDE DEF u
<1>4. Good(u, h, Plus(n, r))
  BY <1>1, <1>3, NewGood
<1>5. AcksTied(u)
  BY <1>1, <1>3 DEF AcksTied
<1>6. ReqsTied(u)
  <2>1. \A x \in Reqs : t.req[x].st # "unused" => t.req[x].pub \in Pubs
    BY <1>1 DEF Good, ReqOK
  <2> QED BY <1>1, <1>3, <2>1 DEF ReqsTied, PubsStay
<1>7. ASSUME NEW x \in Reqs PROVE x = r \/ SameReq(t.req[x], u.req[x])
  BY <1>3 DEF SameReq
<1>8. AppOK(u, a)
  BY <1>1, <1>3 DEF AppOK
<1>9. Framed(u, l)
  <2>1. ASSUME NEW f, IsFrame(f), FrameOK(t, f) PROVE FrameOK(u, f)
    <3>1. NULL \notin Pubs /\ t.req[r].pub = NULL /\ t.req[r].st = "unused"
      BY <1>2, NotReq DEF NewReq
    <3>2. CASE IsPubs(f)
      BY <1>3, <2>1, <3>1, <3>2 DEF IsPubs, FrameOK
    <3>3. CASE IsDecode(f)
      BY <1>3, <2>1, <3>1, <3>3 DEF IsDecode, FrameOK
    <3>4. CASE IsHandlers(f)
      BY <1>3, <2>1, <3>1, <3>4 DEF IsHandlers, FrameOK
    <3>5. CASE IsAck(f)
      BY <3>5 DEF IsAck, FrameOK
    <3>6. CASE IsAcks(f)
      BY <1>3, <2>1, <3>6 DEF IsAcks, FrameOK
    <3> QED BY <2>1, <3>2, <3>3, <3>4, <3>5, <3>6 DEF IsFrame
  <2>2. \A i \in DOMAIN l : IsFrame(l[i])
    BY <1>1, ShapeFrames
  <2> QED BY <1>1, <2>1, <2>2 DEF Framed
<1> QED BY <1>2, <1>3, <1>4, <1>5, <1>6, <1>8, <1>9 DEF u

LEMMA NotApp == ASSUME NEW l, NEW a, NEW r \in Reqs PROVE UsedBy(l, a)[r] = 0 => a # r
<1> DEFINE b == IF l # <<>> THEN Uses(l[1], r) ELSE 0
           c == IF Len(l) > 1 THEN Uses(l[2], r) ELSE 0
<1>1. b \in Nat /\ c \in Nat
  BY UsesType
<1>2. UsedBy(l, a)[r] = b + c + Mine(a, r)
  BY DEF UsedBy
<1> HIDE DEF b, c
<1>3. a = r => Mine(a, r) = 1
  BY DEF Mine
<1> QED BY <1>1, <1>2, <1>3

LEMMA PlusMinus == ASSUME NEW n, Counts(n), NEW r \in Reqs PROVE \A x \in Reqs : Minus(Plus(n, r), r)[x] = n[x]
<1>1. Counts(Plus(n, r)) /\ Plus(n, r)[r] = n[r] + 1 /\ (\A x \in Reqs \ {r} : Plus(n, r)[x] = n[x]) /\ n[r] \in Nat
  BY PlusIs, CountsAre
<1> DEFINE l == Plus(n, r)
<1> HIDE DEF l
<1>2. Counts(l) /\ l[r] = n[r] + 1 /\ \A x \in Reqs \ {r} : l[x] = n[x]
  BY <1>1 DEF l
<1>3. Minus(l, r)[r] = l[r] - 1 /\ \A x \in Reqs \ {r} : Minus(l, r)[x] = l[x]
  <2>1. l[r] > 0
    BY <1>1, <1>2
  <2> QED BY <1>2, <2>1, MinusIs
<1>4. Minus(l, r)[r] = n[r]
  BY <1>1, <1>2, <1>3
<1>5. \A x \in Reqs : Minus(l, r)[x] = n[x]
  BY <1>2, <1>3, <1>4
<1> QED BY <1>5 DEF l

\* Where DPS_DecodePublication is called from.
Caller(under) == under = <<>> \/ \E f : IsPubs(f) /\ f.at = "looping_back" /\ under = <<f>>
LEMMA DecodeCounts ==
    ASSUME NEW l, Caller(l), NEW d, NEW e, IsDecode(d), IsHandlers(e), NEW a
    PROVE  LET m == l \o <<d, e>>
           IN  /\ Shape(m) /\ \A t : Framed(t, m) <=> Framed(t, l) /\ FrameOK(t, d) /\ FrameOK(t, e)
               /\ \A r \in Reqs : HeldBy(m)[r] = HeldBy(l)[r] /\ UsedBy(m, a)[r] = UsedBy(l, a)[r] + (IF r = d.req THEN 1 ELSE 0)
<1> DEFINE m == l \o <<d, e>>
<1>0. \A r \in Reqs : Holds(d, r) = 0 /\ Uses(d, r) = (IF r = d.req THEN 1 ELSE 0) /\ Uses(e, r) = 0
  <2>1. d.k = "decode" /\ e.k = "handlers"
    BY DEF IsDecode, IsHandlers
  <2> QED BY <2>1 DEF Holds, Uses
<1>1. CASE l = <<>>
  <2>1. m = <<d, e>>
    BY <1>1, Appends
  <2> HIDE DEF m
  <2>2. Shape(m)
    BY <2>1 DEF Shape, Double
  <2>3. ASSUME NEW t PROVE Framed(t, m) <=> Framed(t, l) /\ FrameOK(t, d) /\ FrameOK(t, e)
    BY <1>1, <2>1, FramedTuples
  <2>4. ASSUME NEW r \in Reqs
        PROVE  HeldBy(m)[r] = HeldBy(l)[r] /\ UsedBy(m, a)[r] = UsedBy(l, a)[r] + (IF r = d.req THEN 1 ELSE 0)
    <3>1. HeldBy(m)[r] = Holds(d, r) /\ UsedBy(m, a)[r] = Uses(d, r) + Uses(e, r) + Mine(a, r)
      BY <2>1, HeldTwo, UsedTwo
    <3>2. HeldBy(l)[r] = 0 /\ UsedBy(l, a)[r] = Mine(a, r) /\ Mine(a, r) \in Nat
      BY <1>1, HeldNone, UsedNone, UsesType
    <3>3. Uses(d, r) + Uses(e, r) + Mine(a, r) = Mine(a, r) + (IF r = d.req THEN 1 ELSE 0)
      <4> DEFINE b == Mine(a, r)  c == IF r = d.req THEN 1 ELSE 0
      <4>1. Uses(d, r) = c /\ Uses(e, r) = 0 /\ c \in Nat /\ b \in Nat
        BY <1>0, <3>2
      <4> HIDE DEF b, c
      <4>2. Uses(d, r) + Uses(e, r) + b = b + c
        BY <4>1
      <4> QED BY <4>2 DEF b, c
    <3> QED BY <1>0, <3>1, <3>2, <3>3
  <2> QED BY <2>2, <2>3, <2>4 DEF m
<1>2. ASSUME NEW f, IsPubs(f), f.at = "looping_back", l = <<f>>
      PROVE  /\ Shape(m) /\ \A t : Framed(t, m) <=> Framed(t, l) /\ FrameOK(t, d) /\ FrameOK(t, e)
             /\ \A r \in Reqs : HeldBy(m)[r] = HeldBy(l)[r] /\ UsedBy(m, a)[r] = UsedBy(l, a)[r] + (IF r = d.req THEN 1 ELSE 0)
  <2>1. m = <<f, d, e>>
    BY <1>2, Appends
  <2> HIDE DEF m
  <2>2. Shape(m)
    BY <1>2, <2>1 DEF Shape, Triple
  <2>3. ASSUME NEW t PROVE Framed(t, m) <=> Framed(t, l) /\ FrameOK(t, d) /\ FrameOK(t, e)
    <3>1. Framed(t, m) <=> FrameOK(t, f) /\ FrameOK(t, d) /\ FrameOK(t, e)
      BY <2>1, FramedTuples
    <3>2. Framed(t, l) <=> FrameOK(t, f)
      BY <1>2, FramedTuples
    <3> QED BY <3>1, <3>2
  <2>4. ASSUME NEW r \in Reqs
        PROVE  HeldBy(m)[r] = HeldBy(l)[r] /\ UsedBy(m, a)[r] = UsedBy(l, a)[r] + (IF r = d.req THEN 1 ELSE 0)
    <3>1. HeldBy(m)[r] = Holds(f, r) /\ UsedBy(m, a)[r] = Uses(f, r) + Uses(d, r) + Mine(a, r)
      BY <2>1, HeldThree, UsedThree
    <3>2. HeldBy(l)[r] = Holds(f, r) /\ UsedBy(l, a)[r] = Uses(f, r) + Mine(a, r) /\ Mine(a, r) \in Nat /\ Uses(f, r) \in Nat
      BY <1>2, HeldOne, UsedOne, UsesType
    <3>3. Uses(f, r) + Uses(d, r) + Mine(a, r) = Uses(f, r) + Mine(a, r) + (IF r = d.req THEN 1 ELSE 0)
      <4> DEFINE b == Mine(a, r)  c == IF r = d.req THEN 1 ELSE 0  g == Uses(f, r)
      <4>1. Uses(d, r) = c /\ c \in Nat /\ b \in Nat /\ g \in Nat
        BY <1>0, <3>2
      <4> HIDE DEF b, c, g
      <4>2. g + Uses(d, r) + b = g + b + c
        BY <4>1
      <4> QED BY <4>2 DEF b, c, g
    <3> QED BY <3>1, <3>2, <3>3
  <2> QED BY <2>2, <2>3, <2>4
<1> QED BY <1>1, <1>2 DEF Caller

LEMMA CallerFrames == ASSUME NEW l, Caller(l) PROVE \A i \in DOMAIN l : IsFrame(l[i]) /\ l[i].k # "decode"
<1>1. CASE l = <<>>
  BY <1>1
<1>2. ASSUME NEW f, IsPubs(f), l = <<f>> PROVE \A i \in DOMAIN l : IsFrame(l[i]) /\ l[i].k # "decode"
  <2>1. DOMAIN l = {1} /\ l[1] = f /\ f.k # "decode"
    BY <1>2 DEF IsPubs
  <2> QED BY <1>2, <2>1 DEF IsFrame
<1> QED BY <1>1, <1>2 DEF Caller

LEMMA DecodeStep ==
    ASSUME NEW t, NEW l, Inv(t, l, app), Caller(l), NEW m \in PubMsg, DecodePublication(t, m, l), app' = app
    PROVE  Inv(s', loop', app')
<1> DEFINE h == HeldBy(l)
           n == UsedBy(l, app)
<1>1. PICK p \in DecodesInto(t, m), r \in Fresh(Unused(t.req)) :
         LET u == Accept(t, m, p, r)
         IN  IF m.body = "bad_filter"
             THEN s' = DecodeFails(u, m, p, r) /\ loop' = l
             ELSE s' = u /\ loop' = l \o <<DecodeFrame(m, p, r), HandlersFrame(u, r)>>
  BY Zenon DEF DecodePublication
<1>2. t \in StateType /\ Counts(h) /\ Counts(n) /\ t.req \in [Reqs -> ReqType] /\ Shape(l)
  BY Parts DEF Inv, Good
<1>3. p \in Pubs /\ r \in Reqs /\ t.req[r].st = "unused"
  BY <1>2, DecodesIntoPubs DEF Fresh, Unused
<1> DEFINE u == Accept(t, m, p, r)
<1>4. /\ Good(u, h, Plus(n, r)) /\ h[r] = 0 /\ n[r] = 0 /\ u.req[r].refs = 0 /\ ~u.req[r].cb /\ u.req[r].pub = p
      /\ u.req[r].st = "live" /\ AcksTied(u) /\ ReqsTied(u) /\ Framed(u, l) /\ AppOK(u, app)
  BY <1>3, AcceptGood
<1>5. Plus(n, r)[r] = n[r] + 1 /\ \A x \in Reqs \ {r} : Plus(n, r)[x] = n[x]
  BY <1>2, <1>3, PlusIs
<1>6. app # r
  BY <1>3, <1>4, NotApp
<1> HIDE DEF u
<1>7. CASE m.body = "bad_filter"
  <2> DEFINE v == DecodeFails(u, m, p, r)
  <2>1. s' = v /\ loop' = l
    BY <1>1, <1>7 DEF u
  <2>2. Good(v, h, Minus(Plus(n, r), r)) /\ Around(u, v, {r})
    <3>1. Plus(n, r)[r] > 0
      BY <1>4, <1>5
    <3> QED BY <1>3, <1>4, <3>1, DecodeFailsGood
  <2> HIDE DEF v
  <2>3. Good(v, h, n)
    <3>1. \A x \in Reqs : n[x] = Minus(Plus(n, r), r)[x]
      BY <1>2, <1>3, PlusMinus
    <3> QED BY <1>2, <2>2, <3>1, GoodPoint
  <2>4. ReqsTied(v)
    BY <1>3, <1>4, <2>2, AroundTied
  <2>5. AcksTied(v) /\ AppOK(v, app)
    <3>1. AcksTied(v)
      BY <1>4, <2>2 DEF Around
    <3>2. app \notin {r}
      BY <1>6
    <3>3. AppOK(v, app)
      BY <1>4, <2>2, <3>2, AroundApp
    <3> QED BY <3>1, <3>3
  <2>6. Framed(v, l)
    BY <1>3, <1>4, <2>2, CallerFrames, AroundFrame DEF Framed
  <2> QED BY <1>2, <2>1, <2>3, <2>4, <2>5, <2>6 DEF Inv
<1>8. CASE m.body # "bad_filter"
  <2> DEFINE d == DecodeFrame(m, p, r)
             e == HandlersFrame(u, r)
             k == l \o <<d, e>>
  <2>1. s' = u /\ loop' = k
    BY <1>1, <1>8 DEF u
  <2>2. IsDecode(d) /\ d.req = r /\ d.pub = p /\ d.k = "decode"
    BY <1>3 DEF DecodeFrame, IsDecode
  <2>3. IsHandlers(e) /\ e.req = r /\ e.k = "handlers"
    <3>0. u.subscriptions \in Seq(Subs)
      BY <1>4, Parts DEF Good
    <3> DEFINE x == First(u.subscriptions)
    <3>1. x \in Subs \cup {NULL}
      BY <3>0, FirstIs
    <3>2. e = [k |-> "handlers", at |-> "walking", req |-> r, sub |-> NULL, next |-> x, parsed |-> FALSE, copy |-> NULL]
      BY DEF HandlersFrame
    <3> HIDE DEF x, e
    <3> QED BY <1>3, <3>1, <3>2 DEF IsHandlers
  <2> HIDE DEF d, e
  <2>4. /\ Shape(k) /\ (\A x : Framed(x, k) <=> Framed(x, l) /\ FrameOK(x, d) /\ FrameOK(x, e))
        /\ \A x \in Reqs : HeldBy(k)[x] = h[x] /\ UsedBy(k, app)[x] = n[x] + (IF x = d.req THEN 1 ELSE 0)
    BY <2>2, <2>3, DecodeCounts
  <2> HIDE DEF k
  <2>5. FrameOK(u, d) /\ FrameOK(u, e)
    BY <1>4, <2>2, <2>3 DEF FrameOK
  <2>6. ASSUME NEW x \in Reqs PROVE UsedBy(k, app)[x] = Plus(n, r)[x]
    <3>1. CASE x = r
      BY <1>5, <2>2, <2>4, <3>1
    <3>2. CASE x # r
      <4>1. UsedBy(k, app)[x] = n[x] + 0 /\ Plus(n, r)[x] = n[x] /\ n[x] \in Nat
        BY <1>2, <1>5, <2>2, <2>4, <3>2, CountsAre
      <4> QED BY <4>1
    <3> QED BY <3>1, <3>2
  <2>7. Good(u, HeldBy(k), UsedBy(k, app))
    <3>1. \A x \in Reqs : HeldBy(k)[x] = h[x]
      BY <2>4
    <3> HIDE DEF h, n
    <3> QED BY <1>4, <2>6, <3>1, GoodPoint, CountsBy
  <2>8. Framed(u, k)
    BY <1>4, <2>4, <2>5
  <2> QED BY <1>4, <2>1, <2>4, <2>7, <2>8 DEF Inv
<1> QED BY <1>7, <1>8

================================================================================
