----------------------------- MODULE FoldTheorems -----------------------------
(***************************************************************************)
(* What FoldLeft and FoldSet of the community modules return.  A loop of   *)
(* the source is a fold of the function that is one turn of it; an         *)
(* instance of this module says of such a fold that it is a sequence of    *)
(* turns, so that what every turn preserves the loop preserves.            *)
(***************************************************************************)
EXTENDS Integers, Sequences, FiniteSets, WellFoundedInduction, FiniteSetTheorems, TLAPS

CONSTANT Op(_, _)   \* one turn: the state and an element of the sequence

(* FoldLeft, written out: the recursive function that MapThenFoldSet       *)
(* defines on the subsets of the sequence's domain.                        *)
Top(s) == CHOOSE x \in s : \A y \in s : x >= y
Steps(g, base, seq, D) ==
    g = [s \in SUBSET D |-> IF s = {} THEN base ELSE Op(g[s \ {Top(s)}], seq[Top(s)])]
Stepped(base, seq, D) == CHOOSE g : Steps(g, base, seq, D)
Fold(base, seq) == Stepped(base, seq, DOMAIN seq)[DOMAIN seq]

(* A sequence of n turns that begins with base and ends with last. *)
Turns(f, base, seq, n, last) ==
    /\ f[0] = base /\ f[n] = last
    /\ \A k \in Nat : k < n => f[k + 1] = Op(f[k], seq[k + 1])

--------------------------------------------------------------------------------

\* Induction, for a set of numbers: its complement has no least element.
LEMMA Induct ==
    ASSUME NEW S, 0 \in S, \A n \in Nat : n \in S => n + 1 \in S
    PROVE  Nat \subseteq S
<1> DEFINE T == Nat \ S
           R == OpToRel(<, Nat)
<1>1. IsWellFoundedOn(R, Nat)
  BY NatLessThanWellFounded, Zenon
<1>2. \A x, y \in Nat : y < x => <<y, x>> \in R
  BY DEF OpToRel
<1>3. SUFFICES ASSUME T # {} PROVE FALSE
  OBVIOUS
<1> HIDE DEF R
<1>4. PICK x \in T : \A y \in T : ~(<<y, x>> \in R)
  <2> T \subseteq Nat OBVIOUS
  <2> HIDE DEF T
  <2> QED BY <1>1, <1>3, WFMin, Zenon
<1>5. x # 0
  BY <1>4
<1>6. x - 1 \in Nat /\ x - 1 < x
  BY <1>4, <1>5
<1>7. x - 1 \in S
  BY <1>2, <1>4, <1>6
<1> QED BY <1>4, <1>6, <1>7

\* The last index of a prefix.
LEMMA TopIs ==
    ASSUME NEW n \in Nat, NEW s, s \subseteq 1 .. n + 1, n + 1 \in s PROVE Top(s) = n + 1
<1>1. \A y \in s : n + 1 >= y
  OBVIOUS
<1>2. \A x \in s : (\A y \in s : x >= y) => x = n + 1
  <2> SUFFICES ASSUME NEW x \in s, \A y \in s : x >= y PROVE x = n + 1
    OBVIOUS
  <2>1. x \in 1 .. n + 1 /\ x >= n + 1
    OBVIOUS
  <2> QED BY <2>1
<1> QED BY <1>1, <1>2, Zenon DEF Top

LEMMA TopIn ==
    ASSUME NEW n \in Nat, NEW s, s \subseteq 1 .. n, s # {} PROVE Top(s) \in s
<1> DEFINE S == {k \in Nat : \A t : t \subseteq 1 .. k /\ t # {} => \E x \in t : \A y \in t : x >= y}
<1>1. 0 \in S
  OBVIOUS
<1>2. ASSUME NEW k \in Nat, k \in S PROVE k + 1 \in S
  <2> SUFFICES ASSUME NEW t, t \subseteq 1 .. k + 1, t # {} PROVE \E x \in t : \A y \in t : x >= y
    OBVIOUS
  <2>1. CASE k + 1 \in t
    <3>1. \A y \in t : k + 1 >= y
      OBVIOUS
    <3> QED BY <2>1, <3>1
  <2>2. CASE k + 1 \notin t
    <3>1. t \subseteq 1 .. k
      BY <2>2
    <3> QED BY <1>2, <3>1
  <2> QED BY <2>1, <2>2
<1>3. n \in S
  <2> HIDE DEF S
  <2>1. Nat \subseteq S
    BY <1>1, <1>2, Induct
  <2> QED BY <2>1
<1>4. \E x \in s : \A y \in s : x >= y
  BY <1>3
<1> QED BY <1>4, Zenon DEF Top

\* The recursion has a solution: it grows by one index at a time.
LEMMA StepsExist ==
    ASSUME NEW base, NEW seq, NEW n \in Nat PROVE \E g : Steps(g, base, seq, 1 .. n)
<1> DEFINE S == {k \in Nat : \E g : Steps(g, base, seq, 1 .. k)}
<1>1. 0 \in S
  <2> DEFINE g == [s \in {{}} |-> base]
  <2>1. SUBSET (1 .. 0) = {{}}
    OBVIOUS
  <2>2. g = [s \in SUBSET (1 .. 0) |-> IF s = {} THEN base ELSE Op(g[s \ {Top(s)}], seq[Top(s)])]
    BY <2>1
  <2> HIDE DEF g
  <2>3. Steps(g, base, seq, 1 .. 0)
    BY <2>2, Zenon DEF Steps
  <2> QED BY <2>3
<1>2. ASSUME NEW k \in Nat, k \in S PROVE k + 1 \in S
  <2>1. PICK g : Steps(g, base, seq, 1 .. k)
    BY <1>2
  <2> DEFINE step(f, s) == IF s = {} THEN base ELSE Op(f[s \ {Top(s)}], seq[Top(s)])
             h == [s \in SUBSET (1 .. k + 1) |-> IF k + 1 \in s THEN Op(g[s \ {k + 1}], seq[k + 1]) ELSE g[s]]
  <2>2. \A s \in SUBSET (1 .. k) : g[s] = step(g, s)
    BY <2>1, Zenon DEF Steps
  <2>3. ASSUME NEW s \in SUBSET (1 .. k + 1) PROVE h[s] = step(h, s)
    <3>1. CASE k + 1 \in s
      <4>1. Top(s) = k + 1
        BY <3>1, TopIs
      <4>2. s \ {k + 1} \in SUBSET (1 .. k + 1) /\ k + 1 \notin s \ {k + 1} /\ s # {}
        BY <3>1
      <4>3. h[s \ {k + 1}] = g[s \ {k + 1}]
        BY <4>2
      <4>4. h[s] = Op(g[s \ {k + 1}], seq[k + 1])
        BY <3>1
      <4> HIDE DEF h
      <4> QED BY <4>1, <4>2, <4>3, <4>4, Zenon
    <3>2. CASE k + 1 \notin s
      <4>1. s \in SUBSET (1 .. k)
        BY <3>2
      <4>2. h[s] = g[s]
        BY <3>2
      <4>3. s \ {Top(s)} \in SUBSET (1 .. k + 1) /\ k + 1 \notin s \ {Top(s)}
        BY <3>2
      <4>4. h[s \ {Top(s)}] = g[s \ {Top(s)}]
        BY <4>3
      <4>5. g[s] = step(g, s)
        BY <2>2, <4>1, Zenon
      <4> HIDE DEF h
      <4> QED BY <4>2, <4>4, <4>5, Zenon
    <3> QED BY <3>1, <3>2
  <2>4. h = [s \in SUBSET (1 .. k + 1) |-> step(h, s)]
    <3>1. h = [s \in SUBSET (1 .. k + 1) |-> h[s]]
      OBVIOUS
    <3> HIDE DEF h, step
    <3> QED BY <2>3, <3>1, Zenon
  <2> HIDE DEF h
  <2>5. Steps(h, base, seq, 1 .. k + 1)
    BY <2>4, Zenon DEF Steps
  <2> QED BY <2>5
<1> HIDE DEF S
<1>3. Nat \subseteq S
  BY <1>1, <1>2, Induct
<1> QED BY <1>3 DEF S

\* A solution of the recursion is a sequence of turns that begins with base.
LEMMA StepsTurn ==
    ASSUME NEW base, NEW seq, NEW n \in Nat, NEW g, Steps(g, base, seq, 1 .. n)
    PROVE  \E f : Turns(f, base, seq, n, g[1 .. n])
<1> DEFINE f == [k \in Nat |-> g[1 .. k]]
<1>1. \A s \in SUBSET (1 .. n) : g[s] = IF s = {} THEN base ELSE Op(g[s \ {Top(s)}], seq[Top(s)])
  BY Zenon DEF Steps
<1>2. f[0] = base
  <2>1. 1 .. 0 = {} /\ {} \in SUBSET (1 .. n)
    OBVIOUS
  <2>2. g[{}] = base
    BY <1>1, <2>1, Zenon
  <2> QED BY <2>1, <2>2
<1>3. ASSUME NEW k \in Nat, k < n PROVE f[k + 1] = Op(f[k], seq[k + 1])
  <2>1. Top(1 .. k + 1) = k + 1
    BY TopIs
  <2>2. k + 1 \in 1 .. k + 1 /\ (1 .. k + 1) \ {k + 1} = 1 .. k
    OBVIOUS
  <2>3. 1 .. k + 1 \in SUBSET (1 .. n)
    BY <1>3
  <2>4. g[1 .. k + 1] = Op(g[1 .. k], seq[k + 1])
    BY <1>1, <2>1, <2>2, <2>3, Zenon
  <2> QED BY <2>4
<1>4. g[1 .. n] = f[n]
  OBVIOUS
<1> HIDE DEF f
<1>5. Turns(f, base, seq, n, g[1 .. n])
  BY <1>2, <1>3, <1>4 DEF Turns
<1> QED BY <1>5

\* A fold is the last of a sequence of states that begins with base, each being what a
\* turn makes of the one before.
THEOREM FoldTurns ==
    ASSUME NEW E, NEW seq \in Seq(E), NEW base
    PROVE  \E f : /\ f[0] = base
                  /\ \A k \in Nat : k < Len(seq) => f[k + 1] = Op(f[k], seq[k + 1])
                  /\ Fold(base, seq) = f[Len(seq)]
<1>1. DOMAIN seq = 1 .. Len(seq) /\ Len(seq) \in Nat
  OBVIOUS
<1>2. Steps(Stepped(base, seq, 1 .. Len(seq)), base, seq, 1 .. Len(seq))
  <2>1. \E h : Steps(h, base, seq, 1 .. Len(seq))
    BY <1>1, StepsExist
  <2> QED BY <2>1, Zenon DEF Stepped
<1>3. PICK g : Steps(g, base, seq, 1 .. Len(seq)) /\ Fold(base, seq) = g[1 .. Len(seq)]
  <2>1. Fold(base, seq) = Stepped(base, seq, 1 .. Len(seq))[1 .. Len(seq)]
    BY <1>1 DEF Fold
  <2> QED BY <1>2, <2>1, Zenon
<1>4. PICK f : Turns(f, base, seq, Len(seq), g[1 .. Len(seq)])
  BY <1>1, <1>3, StepsTurn
<1> QED BY <1>3, <1>4 DEF Turns

\* What every turn preserves the fold preserves: S is a set of states.
THEOREM FoldStays ==
    ASSUME NEW E, NEW S, NEW seq \in Seq(E), NEW base \in S,
           \A s \in S, r \in E : Op(s, r) \in S
    PROVE  Fold(base, seq) \in S
<1>1. PICK f : /\ f[0] = base
               /\ \A k \in Nat : k < Len(seq) => f[k + 1] = Op(f[k], seq[k + 1])
               /\ Fold(base, seq) = f[Len(seq)]
  BY FoldTurns
<1> DEFINE N == {k \in Nat : k <= Len(seq) => f[k] \in S}
<1>2. 0 \in N
  BY <1>1
<1>3. ASSUME NEW k \in Nat, k \in N PROVE k + 1 \in N
  BY <1>1, <1>3
<1> HIDE DEF N
<1>4. Nat \subseteq N
  BY <1>2, <1>3, Induct
<1> QED BY <1>1, <1>4 DEF N

\* The fold of a sequence is one turn after the fold of what is before its last element.
THEOREM FoldAppend ==
    ASSUME NEW E, NEW seq \in Seq(E), NEW e \in E, NEW base
    PROVE  Fold(base, Append(seq, e)) = Op(Fold(base, seq), e)
<1> DEFINE n == Len(seq)
           longer == Append(seq, e)
<1>1. longer \in Seq(E) /\ Len(longer) = n + 1 /\ n \in Nat /\ longer[n + 1] = e
      /\ \A k \in 1 .. n : longer[k] = seq[k]
  OBVIOUS
<1>2. PICK f : /\ f[0] = base
               /\ \A k \in Nat : k < n => f[k + 1] = Op(f[k], seq[k + 1])
               /\ Fold(base, seq) = f[n]
  BY FoldTurns
<1> HIDE DEF longer
<1>3. PICK g : /\ g[0] = base
               /\ \A k \in Nat : k < n + 1 => g[k + 1] = Op(g[k], longer[k + 1])
               /\ Fold(base, longer) = g[n + 1]
  BY <1>1, FoldTurns
<1> DEFINE S == {k \in Nat : k <= n => f[k] = g[k]}
<1>4. 0 \in S
  BY <1>2, <1>3
<1>5. ASSUME NEW k \in Nat, k \in S PROVE k + 1 \in S
  <2> SUFFICES ASSUME k + 1 <= n PROVE f[k + 1] = g[k + 1]
    OBVIOUS
  <2>1. k < n /\ k < n + 1 /\ k + 1 \in 1 .. n /\ f[k] = g[k]
    BY <1>1, <1>5
  <2>2. f[k + 1] = Op(f[k], seq[k + 1]) /\ g[k + 1] = Op(g[k], longer[k + 1]) /\ longer[k + 1] = seq[k + 1]
    BY <1>1, <1>2, <1>3, <2>1
  <2> QED BY <2>1, <2>2
<1> HIDE DEF S
<1>6. Nat \subseteq S
  BY <1>4, <1>5, Induct
<1>7. f[n] = g[n]
  BY <1>1, <1>6 DEF S
<1>8. g[n + 1] = Op(g[n], e)
  BY <1>1, <1>3
<1> QED BY <1>2, <1>3, <1>7, <1>8 DEF longer

\* The fold over nothing.
THEOREM FoldEmpty == ASSUME NEW base PROVE Fold(base, <<>>) = base
<1>1. <<>> \in Seq({})
  OBVIOUS
<1>2. PICK f : /\ f[0] = base
               /\ \A k \in Nat : k < Len(<<>>) => f[k + 1] = Op(f[k], <<>>[k + 1])
               /\ Fold(base, <<>>) = f[Len(<<>>)]
  BY <1>1, FoldTurns, Zenon
<1>3. Len(<<>>) = 0
  OBVIOUS
<1> QED BY <1>2, <1>3, Zenon

--------------------------------------------------------------------------------

(* FoldSet, written out in the same way. *)
Some(s) == CHOOSE x \in s : TRUE
SetSteps(g, base, D) == g = [s \in SUBSET D |-> IF s = {} THEN base ELSE Op(g[s \ {Some(s)}], Some(s))]
SetStepped(base, D) == CHOOSE g : SetSteps(g, base, D)
SetFold(base, D) == SetStepped(base, D)[D]

\* The recursion on the subsets of a finite set has a solution.
LEMMA SetStepsExist == ASSUME NEW base, NEW D, IsFiniteSet(D) PROVE \E g : SetSteps(g, base, D)
<1> DEFINE Sized(k) == {s \in SUBSET D : Cardinality(s) <= k}
           step(f, s) == IF s = {} THEN base ELSE Op(f[s \ {Some(s)}], Some(s))
           S == {k \in Nat : \E g : \A s \in Sized(k) : g[s] = step(g, s)}
<1>1. ASSUME NEW s, s \in SUBSET D
      PROVE  /\ Cardinality(s) \in Nat
             /\ s # {} => /\ Some(s) \in s /\ s \ {Some(s)} \in SUBSET D
                         /\ Cardinality(s \ {Some(s)}) = Cardinality(s) - 1
  <2>1. IsFiniteSet(s)
    BY <1>1, FS_Subset
  <2>2. Cardinality(s) \in Nat
    BY <2>1, FS_CardinalityType
  <2>3. s # {} => Some(s) \in s
    BY Zenon DEF Some
  <2>4. Cardinality(s \ {Some(s)}) = IF Some(s) \in s THEN Cardinality(s) - 1 ELSE Cardinality(s)
    BY <2>1, FS_RemoveElement
  <2> QED BY <1>1, <2>2, <2>3, <2>4
<1>2. 0 \in S
  <2> DEFINE g == [s \in SUBSET D |-> base]
  <2>1. ASSUME NEW s, s \in Sized(0) PROVE g[s] = step(g, s)
    <3>1. Cardinality(s) \in Nat /\ Cardinality(s) <= 0 /\ IsFiniteSet(s) /\ s \in SUBSET D
      BY <1>1, <2>1, FS_Subset
    <3>2. s = {}
      BY <3>1, FS_EmptySet
    <3> QED BY <3>1, <3>2
  <2> QED BY <2>1
<1>3. ASSUME NEW k \in Nat, k \in S PROVE k + 1 \in S
  <2>1. PICK g : \A s \in Sized(k) : g[s] = step(g, s)
    BY <1>3
  <2> DEFINE h == [s \in SUBSET D |-> IF s \in Sized(k) THEN g[s] ELSE step(g, s)]
  <2>2. ASSUME NEW s, s \in Sized(k + 1) PROVE h[s] = step(h, s)
    <3>1. s \in SUBSET D /\ Cardinality(s) <= k + 1
      BY <2>2
    <3>2. h[s] = step(g, s)
      BY <2>1, <3>1
    <3>3. CASE s = {}
      BY <3>2, <3>3
    <3>4. CASE s # {}
      <4> DEFINE r == s \ {Some(s)}
      <4>1. r \in Sized(k)
        BY <1>1, <3>1, <3>4
      <4> HIDE DEF r
      <4>2. h[r] = g[r]
        BY <4>1
      <4> HIDE DEF h
      <4> QED BY <3>2, <3>4, <4>2, Zenon DEF r
    <3> QED BY <3>3, <3>4
  <2> HIDE DEF Sized, step
  <2>3. \E f : \A s \in Sized(k + 1) : f[s] = step(f, s)
    <3> HIDE DEF h
    <3> QED BY <2>2, Zenon
  <2> QED BY <2>3
<1> HIDE DEF S
<1>4. Nat \subseteq S
  BY <1>2, <1>3, Induct
<1>5. Cardinality(D) \in Nat
  BY <1>1
<1>6. Cardinality(D) \in S
  BY <1>4, <1>5
<1>7. PICK g : \A s \in Sized(Cardinality(D)) : g[s] = step(g, s)
  BY <1>6, Zenon DEF S
<1> DEFINE h == [s \in SUBSET D |-> g[s]]
<1>8. ASSUME NEW s \in SUBSET D PROVE h[s] = step(h, s)
  <2>1. Cardinality(s) <= Cardinality(D)
    BY FS_Subset
  <2>2. s \in Sized(Cardinality(D))
    BY <2>1
  <2>3. h[s] = step(g, s)
    BY <1>7, <2>2
  <2>4. s # {} => h[s \ {Some(s)}] = g[s \ {Some(s)}]
    BY <1>1
  <2> HIDE DEF h
  <2> QED BY <2>3, <2>4, Zenon
<1>9. h = [s \in SUBSET D |-> step(h, s)]
  <2>1. h = [s \in SUBSET D |-> h[s]]
    OBVIOUS
  <2> HIDE DEF h, step
  <2> QED BY <1>8, <2>1, Zenon
<1> HIDE DEF h
<1>10. SetSteps(h, base, D)
  BY <1>9, Zenon DEF SetSteps
<1> QED BY <1>10

\* What every turn preserves the fold preserves.
THEOREM SetFoldStays ==
    ASSUME NEW D, IsFiniteSet(D), NEW S, NEW base \in S, \A s \in S, x \in D : Op(s, x) \in S
    PROVE  SetFold(base, D) \in S
<1>1. PICK g : SetSteps(g, base, D) /\ SetFold(base, D) = g[D]
  <2>1. \E g : SetSteps(g, base, D)
    BY SetStepsExist
  <2>2. SetSteps(SetStepped(base, D), base, D)
    BY <2>1, Zenon DEF SetStepped
  <2> QED BY <2>2, Zenon DEF SetFold
<1>2. \A s \in SUBSET D : g[s] = IF s = {} THEN base ELSE Op(g[s \ {Some(s)}], Some(s))
  BY <1>1, Zenon DEF SetSteps
<1> DEFINE N == {k \in Nat : \A s \in SUBSET D : Cardinality(s) <= k => g[s] \in S}
<1>3. ASSUME NEW s \in SUBSET D
      PROVE  IsFiniteSet(s) /\ Cardinality(s) \in Nat
  <2>1. IsFiniteSet(s)
    BY FS_Subset
  <2> QED BY <2>1, FS_CardinalityType
<1>4. 0 \in N
  <2>1. ASSUME NEW s \in SUBSET D, Cardinality(s) <= 0 PROVE g[s] \in S
    <3>1. Cardinality(s) = 0 /\ IsFiniteSet(s)
      BY <1>3, <2>1
    <3>2. s = {}
      BY <3>1, FS_EmptySet
    <3>3. g[s] = base
      BY <1>2, <3>2
    <3> QED BY <3>3
  <2> QED BY <2>1
<1>5. ASSUME NEW k \in Nat, k \in N PROVE k + 1 \in N
  <2>1. ASSUME NEW s \in SUBSET D, Cardinality(s) <= k + 1, s # {} PROVE g[s] \in S
    <3> DEFINE x == Some(s)
               r == s \ {x}
    <3>1. x \in s
      BY <2>1, Zenon DEF Some
    <3> HIDE DEF x
    <3>2. Cardinality(r) = Cardinality(s) - 1 /\ r \in SUBSET D
      BY <1>3, <3>1, FS_RemoveElement
    <3> HIDE DEF r
    <3>3. Cardinality(r) <= k
      BY <1>3, <2>1, <3>2
    <3>4. g[r] \in S
      BY <1>5, <3>2, <3>3
    <3>5. g[s] = Op(g[r], x)
      BY <1>2, <2>1, Zenon DEF r, x
    <3>6. x \in D
      BY <3>1
    <3> QED BY <3>4, <3>5, <3>6
  <2>2. ASSUME NEW s \in SUBSET D, s = {} PROVE g[s] \in S
    <3>1. g[s] = base
      BY <1>2, <2>2
    <3> QED BY <3>1
  <2> QED BY <2>1, <2>2
<1> HIDE DEF N
<1>6. Nat \subseteq N
  BY <1>4, <1>5, Induct
<1>7. Cardinality(D) \in Nat /\ D \in SUBSET D
  BY <1>3
<1>8. Cardinality(D) \in N
  BY <1>6, <1>7
<1> QED BY <1>1, <1>7, <1>8 DEF N

================================================================================
