----------------------------- MODULE SecuredProofs -----------------------------
(***************************************************************************)
(* What a handler is given was sent (Secured): the invariant is about the  *)
(* messages in transit, each of which was made by one node of one payload, *)
(* whatever was damaged of it since.                                       *)
(***************************************************************************)
EXTENDS Secured, WellFoundedInduction, TLAPS

Wrapping == {"A256KW", "ECDH_ES_A256KW"}
Names == {NoKid} \cup Kids \cup {Identity(n) : n \in Nodes}
         \cup UNION {{kids[i] : i \in DOMAIN kids} : kids \in Started}
Recipient == [alg : Wrapping, kid : Names]
Payload(type, n, sn) == IF type = "PUB" THEN <<"data", sn>> ELSE <<"ack", n, sn>>
Authors(type) == IF type = "PUB" THEN {Publisher} ELSE Subscribers
Signs(n) == signer[n].alg # "RESERVED"

\* An entry for a recipient names it, and an algorithm that wraps a key.
EntryOK(e) == /\ "KID" \in DOMAIN e.unprot /\ e.unprot["KID"] \in Names
              /\ (IF "ALG" \in DOMAIN e.unprot THEN e.unprot["ALG"] ELSE DecodeProtectedMap(e.prot).alg) \in Wrapping
EntriesOK(es) == \E k \in Nat \ {0} : DOMAIN es = 1 .. k /\ \A i \in 1 .. k : EntryOK(es[i])

EncryptedBy(b, type, n, sn) ==
    /\ DOMAIN b = {"tag", "prot", "unprot", "content", "recipients"} /\ b.tag = "ENCRYPT"
    /\ "intact" \in DOMAIN b.content /\ {"aad", "plain"} \subseteq DOMAIN b.content
    /\ b.content.aad = EncodeAAD("ENCRYPT", "A256GCM", [type |-> type, seq |-> sn])
    /\ b.content.plain = Payload(type, n, sn)
    /\ "COUNTER_SIGNATURE" \in DOMAIN b.unprot =>
         Signs(n) /\ KidOf(b.unprot["COUNTER_SIGNATURE"].unprot, NoKid) = Identity(n)
    /\ EntriesOK(b.recipients)
SignedBy(b, type, n, sn) ==
    /\ DOMAIN b = {"tag", "prot", "unprot", "content", "sig"} /\ b.tag = "SIGN1"
    /\ \E prot : b.sig.over = <<"Signature1", prot, <<>>, [type |-> type, seq |-> sn], Payload(type, n, sn)>>
    /\ Signs(n) /\ KidOf(b.unprot, NoKid) = Identity(n)
PlainOf(b, type) ==
    /\ DOMAIN b = {"tag", "content"} /\ b.tag = "NONE"
    /\ type = "PUB" => ~Signs(Publisher)
MessageOK(m) ==
    /\ DOMAIN m = {"aad", "body"} /\ m.aad \in [type : {"PUB", "ACK"}, seq : Nat]
    /\ \/ \E n \in Authors(m.aad.type), sn \in Nat :
            EncryptedBy(m.body, m.aad.type, n, sn) \/ SignedBy(m.body, m.aad.type, n, sn)
       \/ PlainOf(m.body, m.aad.type)

\* An acknowledgement in the clear is noise, or of a publication that did not come encrypted.
Unsealed(n, sn) == \A h \in handled : h.type = "PUB" /\ h.sealed => ~(h.by = n /\ h.seq = sn)
AckOK(m) ==
    m.aad.type = "ACK" /\ m.body.tag # "ENCRYPT" =>
        \/ m.body.content = <<"noise">>
        \/ \E n \in Subscribers, sn \in Nat :
               m.body.content = <<"ack", n, sn>> /\ sn <= held[n].seq /\ Unsealed(n, sn)


SignersOK == \A n \in Nodes : Signs(n) => signer[n].kid = Identity(n)
HeldOK ==
    /\ DOMAIN held = Subscribers
    /\ \A n \in Subscribers :
          /\ DOMAIN held[n] = {"seq", "sender", "recipients"}
          /\ held[n].seq \in Nat /\ held[n].recipients \in Seq(Recipient)
          /\ held[n].sender # NoEntity => Signs(Publisher)
\* Who was given an encrypted publication knows whom to encrypt the acknowledgement to.
HandledOK ==
    \A h \in handled : h.type = "PUB" /\ h.sealed /\ h.by \in Subscribers =>
        held[h.by].recipients # <<>> /\ h.seq \in Nat /\ h.seq <= held[h.by].seq
SecuredInv ==
    /\ SignersOK /\ recipients \in Seq(Recipient) /\ seq \in Nat /\ HeldOK
    /\ \A m \in wire : MessageOK(m) /\ AckOK(m)
    /\ HandledOK /\ DeliveredAsSent

--------------------------------------------------------------------------------
(* Helpers. *)

\* A set of numbers that is not empty has a least one.
LEMMA MinIn == ASSUME NEW S, S \subseteq Nat, S # {} PROVE Min(S) \in S
<1> DEFINE R == OpToRel(<, Nat)
<1>1. IsWellFoundedOn(R, Nat)
  BY NatLessThanWellFounded, Zenon
<1>2. \A x, y \in Nat : y < x => <<y, x>> \in R
  BY DEF OpToRel
<1> HIDE DEF R
<1>3. PICK x \in S : \A y \in S : ~(<<y, x>> \in R)
  BY <1>1, WFMin, Zenon
<1>4. ASSUME NEW y \in S PROVE x <= y
  <2>1. x \in Nat /\ y \in Nat /\ ~(y < x)
    BY <1>2, <1>3
  <2> QED BY <2>1
<1> QED BY <1>4, Zenon DEF Min

LEMMA FirstErrorOK ==
    ASSUME NEW s1, NEW s2, FirstError(<<s1, s2>>) = "OK" PROVE s1 = "OK" /\ s2 = "OK"
<1> DEFINE sts == <<s1, s2>>
           bad == {i \in DOMAIN sts : sts[i] # "OK"}
<1>1. bad \subseteq {1, 2} /\ bad \subseteq Nat
  OBVIOUS
<1>2. ASSUME bad # {} PROVE FALSE
  <2>1. Min(bad) \in bad
    BY <1>1, <1>2, MinIn
  <2>2. sts[Min(bad)] # "OK"
    BY <2>1
  <2>3. FirstError(sts) = sts[Min(bad)]
    BY <1>2, Zenon DEF FirstError
  <2> QED BY <2>2, <2>3
<1>3. 1 \notin bad /\ 2 \notin bad
  BY <1>2
<1> QED BY <1>3

\* The identifier is in the header, or there is none.
LEMMA KidKept == ASSUME NEW kid PROVE KidOf(EncodeUnprotectedMap(kid, <<>>, {}), NoKid) = kid
<1> DEFINE m == EncodeUnprotectedMap(kid, <<>>, {})
<1>1. CASE kid = NoKid
  <2>1. DOMAIN m = {}
    BY <1>1 DEF EncodeUnprotectedMap
  <2>2. KidOf(m, NoKid) = NoKid
    BY <2>1, Zenon DEF KidOf
  <2> QED BY <1>1, <2>2
<1>2. CASE kid # NoKid
  <2>1. DOMAIN m = {"KID"} /\ m["KID"] = kid
    BY <1>2 DEF EncodeUnprotectedMap
  <2>2. KidOf(m, NoKid) = kid
    BY <2>1, Zenon DEF KidOf
  <2> QED BY <2>2
<1> QED BY <1>1, <1>2

--------------------------------------------------------------------------------
(* The loop over the recipients of a message. *)

Tried(s, e) == TryRecipient(e.store, e.msg, e.aad, s, e.r)
X == INSTANCE FoldTheorems WITH Op <- Tried

Loop(st, msg, aad, base, entries) ==
    FoldLeft(LAMBDA s, r : TryRecipient(st, msg, aad, s, r), base, entries)

Chain(f, st, msg, aad, base, entries, k) ==
    /\ f[0] = base
    /\ \A j \in Nat : j < k => f[j + 1] = TryRecipient(st, msg, aad, f[j], entries[j + 1])
    /\ f[k] = Loop(st, msg, aad, base, entries)

LEMMA LoopTurns ==
    ASSUME NEW st, NEW msg, NEW aad, NEW base, NEW entries, NEW k \in Nat, DOMAIN entries = 1 .. k
    PROVE  \E f : Chain(f, st, msg, aad, base, entries, k)
<1> DEFINE es == [i \in 1 .. k |-> [store |-> st, msg |-> msg, aad |-> aad, r |-> entries[i]]]
           turn(g, s) == IF s = {} THEN base
                         ELSE TryRecipient(st, msg, aad, g[s \ {X!Top(s)}], entries[X!Top(s)])
           turns(g) == g = [s \in SUBSET (1 .. k) |-> turn(g, s)]
<1>1. \A i \in 1 .. k : \A s : Tried(s, es[i]) = TryRecipient(st, msg, aad, s, entries[i])
  BY DEF Tried
<1> HIDE DEF es
<1>2. ASSUME NEW g, NEW s \in SUBSET (1 .. k)
      PROVE turn(g, s) = IF s = {} THEN base ELSE Tried(g[s \ {X!Top(s)}], es[X!Top(s)])
  <2>1. CASE s = {}
    BY <2>1
  <2>2. CASE s # {}
    <3>1. X!Top(s) \in s
      BY <2>2, X!TopIn
    <3>2. X!Top(s) \in 1 .. k
      BY <3>1
    <3>3. Tried(g[s \ {X!Top(s)}], es[X!Top(s)])
          = TryRecipient(st, msg, aad, g[s \ {X!Top(s)}], entries[X!Top(s)])
      BY <1>1, <3>2, Zenon
    <3> QED BY <2>2, <3>3, Zenon
  <2> QED BY <2>1, <2>2, Zenon
<1>3. ASSUME NEW g PROVE X!Steps(g, base, es, 1 .. k) <=> turns(g)
  <2>1. [s \in SUBSET (1 .. k) |-> turn(g, s)]
        = [s \in SUBSET (1 .. k) |-> IF s = {} THEN base ELSE Tried(g[s \ {X!Top(s)}], es[X!Top(s)])]
    <3> HIDE DEF turn
    <3> QED BY <1>2, Zenon
  <2> HIDE DEF turn
  <2> QED BY <2>1, Zenon DEF X!Steps
<1>4. PICK h : X!Steps(h, base, es, 1 .. k)
  BY X!StepsExist
<1>5. turns(h)
  BY <1>3, <1>4, Zenon
<1>6. PICK g : turns(g) /\ Loop(st, msg, aad, base, entries) = g[1 .. k]
  <2>1. Loop(st, msg, aad, base, entries) = (CHOOSE g : turns(g))[1 .. k]
    BY Zenon DEF Loop, FoldLeft, MapThenFoldSet, Max, X!Top
  <2>2. turns(CHOOSE g : turns(g))
    <3> HIDE DEF turns
    <3> QED BY <1>5, Zenon
  <2> QED BY <2>1, <2>2, Zenon
<1>7. X!Steps(g, base, es, 1 .. k)
  BY <1>3, <1>6, Zenon
<1>8. PICK f : X!Turns(f, base, es, k, g[1 .. k])
  BY <1>7, X!StepsTurn, Zenon
<1>9. \A j \in Nat : j < k => f[j + 1] = TryRecipient(st, msg, aad, f[j], entries[j + 1])
  BY <1>1, <1>8 DEF X!Turns
<1>10. f[0] = base /\ g[1 .. k] = f[k]
  BY <1>8, Zenon DEF X!Turns
<1> HIDE DEF turns
<1>11. Chain(f, st, msg, aad, base, entries, k)
  BY <1>6, <1>9, <1>10, Zenon DEF Chain
<1> QED BY <1>11

\* What the loop has found, and that a turn finds something or fails.
Opened(s, aad, content) == content.aad = aad /\ s.recipient.alg \in Wrapping /\ s.recipient.kid \in Names
LoopOK(s, aad, content) ==
    DOMAIN s = {"st", "over", "recipient"} /\ (s.over /\ s.st = "OK" => Opened(s, aad, content))

LEMMA TurnFinds ==
    ASSUME NEW st, NEW msg, NEW aad, NEW s, NEW e, LoopOK(s, aad, msg.content), EntryOK(e)
    PROVE  LET t == TryRecipient(st, msg, aad, s, e)
           IN  LoopOK(t, aad, msg.content) /\ (t.over \/ t.st # "OK")
<1> DEFINE t == TryRecipient(st, msg, aad, s, e)
           d == DecodeRecipient(e, s.recipient)
           key == DecryptKey(st, e, d.recipient)
           opens == Decrypt_GCM(key.key, msg.unprot["IV"], aad, msg.content)
           found == FirstError(<<key.st, opens>>)
           made == [st |-> found, over |-> found = "OK", recipient |-> d.recipient]
<1> SUFFICES LoopOK(t, aad, msg.content) /\ (t.over \/ t.st # "OK")
  BY Zenon
<1>1. d.recipient.alg \in Wrapping /\ d.recipient.kid \in Names
  BY DEF DecodeRecipient, EntryOK, KidOf
<1>2. found = "OK" => msg.content.aad = aad
  <2>1. found = "OK" => opens = "OK"
    <3> HIDE DEF key, opens
    <3> QED BY FirstErrorOK
  <2>2. opens = "OK" => msg.content.aad = aad
    <3> HIDE DEF key
    <3> QED BY DEF Decrypt_GCM
  <2> QED BY <2>1, <2>2
<1> HIDE DEF key, opens, found
<1>3. t = CASE s.over -> s
            [] ~s.over /\ d.st # "OK" -> [s EXCEPT !.st = d.st, !.over = TRUE]
            [] OTHER -> made
  BY Zenon DEF TryRecipient, key, opens, found
<1> HIDE DEF d, t
<1>4. CASE s.over
  <2>1. t = s
    BY <1>3, <1>4
  <2> QED BY <1>4, <2>1
<1>5. CASE ~s.over /\ d.st # "OK"
  <2>1. t = [s EXCEPT !.st = d.st, !.over = TRUE]
    BY <1>3, <1>5
  <2>2. DOMAIN t = {"st", "over", "recipient"} /\ t.st = d.st
    BY <2>1 DEF LoopOK
  <2> QED BY <1>5, <2>2 DEF LoopOK
<1>6. CASE ~s.over /\ d.st = "OK"
  <2>1. t = made
    BY <1>3, <1>6
  <2>2. DOMAIN t = {"st", "over", "recipient"} /\ t.st = found /\ t.over = (found = "OK") /\ t.recipient = d.recipient
    BY <2>1
  <2> QED BY <1>1, <1>2, <2>2 DEF LoopOK, Opened
<1> QED BY <1>4, <1>5, <1>6 DEF t

\* What Decrypt gives of a message to recipients is its content, of the additional data given.
DecryptGives(st, who, aad, b) ==
    LET got == Decrypt(st, who, aad, b)
        alg == DecodeProtectedMap(b.prot).alg
    IN  /\ b.content.aad = EncodeAAD("ENCRYPT", alg, aad)
        /\ got.plain = b.content.plain
        /\ got.recipient.alg \in Wrapping /\ got.recipient.kid \in Names
        /\ got.signer = IF "COUNTER_SIGNATURE" \in DOMAIN b.unprot
                        THEN VerifySignature(st, "ENCRYPT", alg, b.unprot["COUNTER_SIGNATURE"], <<>>, b.content)
                        ELSE NoEntity
LEMMA DecryptOpens ==
    ASSUME NEW st, NEW who, NEW aad, NEW b, b.tag = "ENCRYPT", EntriesOK(b.recipients),
           Decrypt(st, who, aad, b).st = "OK"
    PROVE  DecryptGives(st, who, aad, b)
<1> DEFINE got == Decrypt(st, who, aad, b)
           alg == DecodeProtectedMap(b.prot).alg
           data == EncodeAAD(b.tag, alg, aad)
           entries == IF b.tag = "ENCRYPT" THEN b.recipients
                      ELSE <<EncodeRecipient("RESERVED", who.kid, NullKey, <<>>)>>
           base == [st |-> "OK", over |-> FALSE, recipient |-> who]
           end == FoldLeft(LAMBDA s, r : TryRecipient(st, b, data, s, r), base, entries)
           signed == IF "COUNTER_SIGNATURE" \in DOMAIN b.unprot
                     THEN VerifySignature(st, b.tag, alg, b.unprot["COUNTER_SIGNATURE"], <<>>, b.content)
                     ELSE NoEntity
           result == [st |-> "OK", recipient |-> end.recipient,
                      plain |-> IF end.over THEN b.content.plain ELSE <<>>, signer |-> signed]
           head == FirstError(<<IF DecodeProtectedMap(b.prot).st # "OK" \/ alg = "RESERVED" THEN "INVALID" ELSE "OK",
                                SetCryptoParams(alg),
                                DecodeUnprotectedMap(b.unprot, {"IV", "COUNTER_SIGNATURE"})>>)
<1>1. got = CASE b.tag \notin {"ENCRYPT", "ENCRYPT0"} -> Failed("NOT_COSE")
              [] OTHER -> IF head # "OK" THEN Failed(head) ELSE IF end.st # "OK" THEN Failed(end.st) ELSE result
  BY Zenon DEF Decrypt
<1>3. PICK k \in Nat \ {0} : DOMAIN entries = 1 .. k /\ \A i \in 1 .. k : EntryOK(entries[i])
  BY DEF EntriesOK
<1>4. PICK f : /\ f[0] = base
               /\ \A j \in Nat : j < k => f[j + 1] = TryRecipient(st, b, data, f[j], entries[j + 1])
               /\ f[k] = end
  <2>1. k \in Nat /\ DOMAIN entries = 1 .. k
    BY <1>3
  <2>2. end = Loop(st, b, data, base, entries)
    BY Zenon DEF Loop
  <2> HIDE DEF data, base, entries, end
  <2>3. PICK f : Chain(f, st, b, data, base, entries, k)
    BY <2>1, LoopTurns, Zenon
  <2> QED BY <2>2, <2>3, Zenon DEF Chain
<1> HIDE DEF got, head, end, signed, entries
<1>2. end.st = "OK" /\ got = result
  <2>1. CASE head # "OK"
    BY <1>1, <2>1 DEF Failed, got
  <2>2. CASE head = "OK" /\ end.st # "OK"
    BY <1>1, <2>2 DEF Failed, got
  <2> QED BY <1>1, <2>1, <2>2
<1> DEFINE S == {j \in Nat : j <= k => /\ LoopOK(f[j], data, b.content)
                                       /\ j = 0 \/ f[j].over \/ f[j].st # "OK"}
<1>5. 0 \in S
  <2>1. LoopOK(base, data, b.content)
    BY DEF LoopOK
  <2> HIDE DEF base, data
  <2> QED BY <1>4, <2>1
<1>6. ASSUME NEW j \in Nat, j \in S PROVE j + 1 \in S
  <2> HIDE DEF base, data
  <2>1. SUFFICES ASSUME j + 1 <= k
                 PROVE  LoopOK(f[j + 1], data, b.content) /\ (f[j + 1].over \/ f[j + 1].st # "OK")
    OBVIOUS
  <2>2. j < k /\ j + 1 \in 1 .. k /\ LoopOK(f[j], data, b.content)
    BY <1>3, <1>6, <2>1
  <2>3. EntryOK(entries[j + 1])
    BY <1>3, <2>2
  <2>4. f[j + 1] = TryRecipient(st, b, data, f[j], entries[j + 1])
    BY <1>4, <2>2
  <2> HIDE DEF S
  <2> QED BY <2>2, <2>3, <2>4, TurnFinds, Zenon
<1>7. k \in S
  <2> HIDE DEF S
  <2>1. Nat \subseteq S
    BY <1>5, <1>6, X!Induct
  <2> QED BY <1>3, <2>1
<1>8. LoopOK(end, data, b.content) /\ end.over
  <2>1. LoopOK(f[k], data, b.content) /\ (f[k].over \/ f[k].st # "OK")
    <3> HIDE DEF data
    <3> QED BY <1>3, <1>7
  <2> HIDE DEF data
  <2> QED BY <1>2, <1>4, <2>1
<1>9. Opened(end, data, b.content)
  BY <1>2, <1>8, Zenon DEF LoopOK
<1>10. /\ b.content.aad = EncodeAAD("ENCRYPT", alg, aad)
       /\ got.plain = b.content.plain
       /\ got.recipient.alg \in Wrapping /\ got.recipient.kid \in Names
       /\ got.signer = signed
  BY <1>2, <1>8, <1>9 DEF Opened
<1>11. signed = IF "COUNTER_SIGNATURE" \in DOMAIN b.unprot
                THEN VerifySignature(st, "ENCRYPT", alg, b.unprot["COUNTER_SIGNATURE"], <<>>, b.content)
                ELSE NoEntity
  BY DEF signed
<1> QED BY <1>10, <1>11, Zenon DEF DecryptGives, got

\* Who verifies signed just this, under the name that the header gives.
SignatureGives(st, tag, alg, sig, aad, content) ==
    LET who == VerifySignature(st, tag, alg, sig, aad, content)
    IN  \/ who = NoEntity
        \/ /\ who.kid = KidOf(sig.unprot, NoKid)
           /\ \E sigAlg : sig.sig.over = EncodeSig(tag, alg, sigAlg, aad, content)
LEMMA SignatureOf ==
    ASSUME NEW st, NEW tag, NEW alg, NEW sig, NEW aad, NEW content
    PROVE  SignatureGives(st, tag, alg, sig, aad, content)
<1> DEFINE who == VerifySignature(st, tag, alg, sig, aad, content)
           sigAlg == DecodeProtectedMap(sig.prot).alg
           kid == KidOf(sig.unprot, NoKid)
           got == GetSignatureKey(st, sigAlg, kid)
           over == EncodeSig(tag, alg, sigAlg, aad, content)
           fits == got.st = "OK" /\ Verify_ECDSA(got.key, over, sig.sig) = "OK"
<1>1. who = IF fits THEN [alg |-> sigAlg, kid |-> kid] ELSE NoEntity
  BY Zenon DEF VerifySignature
<1>2. fits => sig.sig.over = over
  <2> HIDE DEF got, over
  <2> QED BY DEF Verify_ECDSA
<1> HIDE DEF who, got, fits, kid
<1>3. SUFFICES who = NoEntity \/ (who.kid = kid /\ \E a : sig.sig.over = EncodeSig(tag, alg, a, aad, content))
  BY Zenon DEF SignatureGives, who, kid
<1>4. CASE fits
  <2>1. who.kid = kid
    BY <1>1, <1>4
  <2>2. sig.sig.over = over
    BY <1>2, <1>4
  <2> QED BY <2>1, <2>2, Zenon
<1>5. CASE ~fits
  BY <1>1, <1>5
<1> QED BY <1>4, <1>5

\* The additional data that opens a content is the one it was sealed with.
LEMMA SealedData ==
    ASSUME NEW a1, NEW a2, NEW d1, NEW d2, EncodeAAD("ENCRYPT", a1, d1) = EncodeAAD("ENCRYPT", a2, d2)
    PROVE  d1 = d2
<1> DEFINE p1 == EncodeProtectedMap(a1)
           p2 == EncodeProtectedMap(a2)
<1>1. <<"ENCRYPT", p1, d1>> = <<"ENCRYPT", p2, d2>>
  BY Zenon DEF EncodeAAD
<1> HIDE DEF p1, p2
<1> QED BY <1>1

--------------------------------------------------------------------------------
(* What a receiver is given of a message that is in transit. *)

Given(m, got) ==
    LET type == m.aad.type
        sn == m.aad.seq
    IN  /\ m.body.tag = "ENCRYPT" =>
             /\ \E a \in Authors(type) : got.plain = Payload(type, a, sn)
             /\ got.recipient.alg \in Wrapping /\ got.recipient.kid \in Names
        /\ m.body.tag # "ENCRYPT" => got.recipient = NoEntity
        /\ got.signer # NoEntity =>
             \E a \in Authors(type) : Identity(a) = got.signer.kid /\ Signs(a) /\ got.plain = Payload(type, a, sn)

LEMMA GivenSealed ==
    ASSUME NEW st, NEW m, DOMAIN m = {"aad", "body"}, m.aad \in [type : {"PUB", "ACK"}, seq : Nat],
           NEW a \in Authors(m.aad.type), NEW sn \in Nat, EncryptedBy(m.body, m.aad.type, a, sn),
           Decrypt(st, NoEntity, m.aad, m.body).st = "OK"
    PROVE  Given(m, Decrypt(st, NoEntity, m.aad, m.body))
<1> DEFINE b == m.body
           got == Decrypt(st, NoEntity, m.aad, b)
           alg == DecodeProtectedMap(b.prot).alg
           sigs == b.unprot["COUNTER_SIGNATURE"]
           by == VerifySignature(st, "ENCRYPT", alg, sigs, <<>>, b.content)
<1>1. /\ b.content.aad = EncodeAAD("ENCRYPT", alg, m.aad)
      /\ got.plain = b.content.plain
      /\ got.recipient.alg \in Wrapping /\ got.recipient.kid \in Names
      /\ got.signer = IF "COUNTER_SIGNATURE" \in DOMAIN b.unprot THEN by ELSE NoEntity
  <2>1. b.tag = "ENCRYPT" /\ EntriesOK(b.recipients)
    BY Zenon DEF EncryptedBy
  <2>2. DecryptGives(st, NoEntity, m.aad, b)
    BY <2>1, DecryptOpens, Zenon
  <2> QED BY <2>2, Zenon DEF DecryptGives
<1>2. /\ b.tag = "ENCRYPT" /\ b.content.plain = Payload(m.aad.type, a, sn)
      /\ b.content.aad = EncodeAAD("ENCRYPT", "A256GCM", [type |-> m.aad.type, seq |-> sn])
      /\ "COUNTER_SIGNATURE" \in DOMAIN b.unprot => Signs(a) /\ KidOf(sigs.unprot, NoKid) = Identity(a)
  BY Zenon DEF EncryptedBy
<1>3. by = NoEntity \/ by.kid = KidOf(sigs.unprot, NoKid)
  <2>1. SignatureGives(st, "ENCRYPT", alg, sigs, <<>>, b.content)
    BY SignatureOf, Zenon
  <2> QED BY <2>1, Zenon DEF SignatureGives
<1> HIDE DEF b, got, alg, sigs, by
<1>4. sn = m.aad.seq
  <2>1. m.aad = [type |-> m.aad.type, seq |-> sn]
    BY <1>1, <1>2, SealedData
  <2> DEFINE t == m.aad.type
             d == m.aad
  <2>2. d = [type |-> t, seq |-> sn]
    BY <2>1
  <2> HIDE DEF t, d
  <2>3. d.seq = sn
    BY <2>2
  <2> QED BY <2>3 DEF d
<1>5. got.signer # NoEntity => Identity(a) = got.signer.kid /\ Signs(a)
  BY <1>1, <1>2, <1>3
<1> QED BY <1>1, <1>2, <1>4, <1>5, Zenon DEF Given, b, got

LEMMA GivenSigned ==
    ASSUME NEW st, NEW m, DOMAIN m = {"aad", "body"}, m.aad \in [type : {"PUB", "ACK"}, seq : Nat],
           NEW a \in Authors(m.aad.type), NEW sn \in Nat, SignedBy(m.body, m.aad.type, a, sn),
           Verify(st, m.aad, m.body).st = "OK"
    PROVE  Given(m, Verify(st, m.aad, m.body))
<1> DEFINE b == m.body
           got == Verify(st, m.aad, b)
           alg == DecodeProtectedMap(b.prot).alg
           by == VerifySignature(st, "SIGN1", alg, b, m.aad, b.content)
           head == FirstError(<<DecodeProtectedMap(b.prot).st, DecodeUnprotectedMap(b.unprot, {"KID"})>>)
           result == [st |-> "OK", plain |-> b.content, recipient |-> NoEntity, signer |-> by]
<1>1. b.tag = "SIGN1" /\ Signs(a) /\ KidOf(b.unprot, NoKid) = Identity(a)
  BY Zenon DEF SignedBy
<1>2. PICK prot : b.sig.over = <<"Signature1", prot, <<>>, [type |-> m.aad.type, seq |-> sn], Payload(m.aad.type, a, sn)>>
  BY Zenon DEF SignedBy
<1>3. got = CASE b.tag # "SIGN1" -> Failed("NOT_COSE")
              [] OTHER -> IF head # "OK" THEN Failed(head) ELSE result
  BY Zenon DEF Verify
<1>4. \/ by = NoEntity
      \/ by.kid = KidOf(b.unprot, NoKid) /\ \E sigAlg : b.sig.over = EncodeSig("SIGN1", alg, sigAlg, m.aad, b.content)
  <2>1. SignatureGives(st, "SIGN1", alg, b, m.aad, b.content)
    BY SignatureOf, Zenon
  <2> QED BY <2>1, Zenon DEF SignatureGives
<1> HIDE DEF b, got, head, by, alg
<1>5. got = result
  <2>1. CASE head # "OK"
    <3>1. got = Failed(head)
      BY <1>1, <1>3, <2>1
    <3> QED BY <2>1, <3>1 DEF Failed, got, b
  <2> QED BY <1>1, <1>3, <2>1
<1>6. by # NoEntity => sn = m.aad.seq /\ b.content = Payload(m.aad.type, a, sn)
  <2> SUFFICES ASSUME by # NoEntity PROVE sn = m.aad.seq /\ b.content = Payload(m.aad.type, a, sn)
    OBVIOUS
  <2>1. PICK sigAlg : b.sig.over = EncodeSig("SIGN1", alg, sigAlg, m.aad, b.content)
    BY <1>4
  <2> DEFINE t == m.aad.type
             p == Payload(t, a, sn)
             c == [type |-> t, seq |-> sn]
             d == m.aad
             q == EncodeProtectedMap(alg)
  <2>2. <<"Signature1", prot, <<>>, c, p>> = <<"Signature1", q, <<>>, d, b.content>>
    BY <1>2, <2>1, Zenon DEF EncodeSig
  <2> HIDE DEF p, c, d, q
  <2>3. c = d /\ p = b.content
    BY <2>2
  <2> HIDE DEF t
  <2>4. d.seq = sn
    BY <2>3 DEF c
  <2> QED BY <2>3, <2>4 DEF d, p, t
<1>7. got.signer = by /\ got.plain = b.content /\ got.recipient = NoEntity
  BY <1>5
<1>8. got.signer # NoEntity => /\ Identity(a) = got.signer.kid /\ Signs(a)
                              /\ got.plain = Payload(m.aad.type, a, m.aad.seq)
  BY <1>1, <1>4, <1>6, <1>7
<1>9. b.tag # "ENCRYPT"
  BY <1>1
<1> QED BY <1>7, <1>8, <1>9, Zenon DEF Given, b, got

LEMMA DeserializeGood ==
    ASSUME NEW n \in Nodes, NEW m, MessageOK(m), NEW who, m.aad.type = "ACK" => who = NoEntity,
           who # NoEntity => Signs(Publisher), Deserialize(n, m.aad, m.body, who).st = "OK"
    PROVE  Given(m, Deserialize(n, m.aad, m.body, who))
<1> DEFINE b == m.body
           got == Deserialize(n, m.aad, b, who)
           plain == [st |-> "OK", plain |-> b.content, recipient |-> NoEntity, signer |-> who]
<1>1. DOMAIN m = {"aad", "body"} /\ m.aad \in [type : {"PUB", "ACK"}, seq : Nat]
  BY Zenon DEF MessageOK
<1>2. ASSUME NEW a \in Authors(m.aad.type), NEW sn \in Nat, EncryptedBy(b, m.aad.type, a, sn) PROVE Given(m, got)
  <2>1. b.tag = "ENCRYPT"
    BY <1>2, Zenon DEF EncryptedBy
  <2>2. got = Decrypt(store[n], NoEntity, m.aad, b)
    BY <2>1 DEF Deserialize
  <2>3. Decrypt(store[n], NoEntity, m.aad, b).st = "OK"
    BY <2>2, Zenon
  <2>4. Given(m, Decrypt(store[n], NoEntity, m.aad, b))
    BY <1>1, <1>2, <2>3, GivenSealed, Zenon
  <2> QED BY <2>2, <2>4, Zenon
<1>3. ASSUME NEW a \in Authors(m.aad.type), NEW sn \in Nat, SignedBy(b, m.aad.type, a, sn) PROVE Given(m, got)
  <2>1. b.tag = "SIGN1"
    BY <1>3, Zenon DEF SignedBy
  <2>2. got = Verify(store[n], m.aad, b)
    BY <2>1 DEF Deserialize
  <2>3. Verify(store[n], m.aad, b).st = "OK"
    BY <2>2, Zenon
  <2>4. Given(m, Verify(store[n], m.aad, b))
    BY <1>1, <1>3, <2>3, GivenSigned, Zenon
  <2> QED BY <2>2, <2>4, Zenon
<1>4. ASSUME PlainOf(b, m.aad.type) PROVE Given(m, got)
  <2>1. b.tag = "NONE"
    BY <1>4, Zenon DEF PlainOf
  <2>2. got = plain
    BY <2>1 DEF Deserialize
  <2>3. who = NoEntity
    BY <1>1, <1>4 DEF PlainOf
  <2> HIDE DEF b, got
  <2>4. got.signer = NoEntity /\ got.recipient = NoEntity
    BY <2>2, <2>3
  <2>5. b.tag # "ENCRYPT"
    BY <2>1
  <2> QED BY <2>4, <2>5, Zenon DEF Given, b
<1> QED BY <1>2, <1>3, <1>4, Zenon DEF MessageOK

LEMMA SignerNamed ==
    ASSUME NEW m, NEW got, m.aad.type \in {"PUB", "ACK"}, Given(m, got) PROVE got.signer.kid \in Names
<1>1. CASE got.signer = NoEntity
  <2>1. NoEntity.kid \in Names
    <3>1. NoEntity.kid = NoKid
      BY DEF NoEntity
    <3>2. NoKid \in Names
      BY Zenon DEF Names
    <3> QED BY <3>1, <3>2, Zenon
  <2> QED BY <1>1, <2>1, Zenon
<1>2. CASE got.signer # NoEntity
  <2>1. PICK a \in Authors(m.aad.type) : Identity(a) = got.signer.kid
    BY <1>2, Zenon DEF Given
  <2>2. a \in Nodes
    BY DEF Authors, Nodes
  <2> QED BY <2>1, <2>2 DEF Names
<1> QED BY <1>1, <1>2

LEMMA AppendGrows ==
    ASSUME NEW rs \in Seq(Recipient), NEW alg \in Wrapping, NEW kid \in Names
    PROVE  AddRecipient(rs, alg, kid) \in Seq(Recipient) /\ AddRecipient(rs, alg, kid) # <<>>
<1> DEFINE r == [alg |-> alg, kid |-> kid]
<1>1. r \in Recipient
  BY DEF Recipient
<1> HIDE DEF r
<1>2. Append(rs, r) \in Seq(Recipient) /\ Len(Append(rs, r)) = Len(rs) + 1 /\ Len(rs) \in Nat
  BY <1>1
<1>3. Append(rs, r) # <<>>
  BY <1>2
<1> QED BY <1>2, <1>3 DEF AddRecipient, r

\* The recipients of an acknowledgement only grow, and are there after an encrypted publication.
LEMMA AckTo ==
    ASSUME NEW m, NEW got, m.aad.type \in {"PUB", "ACK"}, Given(m, got), NEW rs \in Seq(Recipient)
    PROVE  /\ AckRecipients(rs, got) \in Seq(Recipient)
           /\ m.body.tag = "ENCRYPT" \/ rs # <<>> => AckRecipients(rs, got) # <<>>
<1> DEFINE new == AckRecipients(rs, got)
<1>1. got.signer.kid \in Names
  BY SignerNamed
<1>2. CASE m.body.tag = "ENCRYPT"
  <2>1. got.recipient.alg \in Wrapping /\ got.recipient.kid \in Names
    BY <1>2, Zenon DEF Given
  <2>2. CASE got.recipient.alg = "A256KW"
    <3>1. new = AddRecipient(rs, got.recipient.alg, got.recipient.kid)
      BY <2>2 DEF AckRecipients
    <3> QED BY <2>1, <3>1, AppendGrows, Zenon
  <2>3. CASE got.recipient.alg = "ECDH_ES_A256KW"
    <3>1. new = AddRecipient(rs, got.recipient.alg, got.signer.kid)
      BY <2>3 DEF AckRecipients
    <3> QED BY <1>1, <2>1, <3>1, AppendGrows, Zenon
  <2> QED BY <2>1, <2>2, <2>3 DEF Wrapping
<1>3. CASE m.body.tag # "ENCRYPT"
  <2>1. got.recipient = NoEntity
    BY <1>3, Zenon DEF Given
  <2>2. new = rs
    BY <2>1 DEF AckRecipients, NoEntity
  <2> QED BY <1>3, <2>2
<1> QED BY <1>2, <1>3

--------------------------------------------------------------------------------
(* What a sender puts in transit. *)

LEMMA EntryMade ==
    ASSUME NEW st, NEW rs \in Seq(Recipient), NEW cek, NEW id, NEW i \in DOMAIN rs
    PROVE  EntryOK(RecipientEntry(st, rs, cek, id, i).entry)
<1> DEFINE r == rs[i]
           e == RecipientEntry(st, rs, cek, id, i).entry
           Made(f, c) == EncodeRecipient(r.alg, r.kid, f, c)
<1>1. r.alg \in Wrapping /\ r.kid \in Names
  <2>1. r \in Recipient
    OBVIOUS
  <2> HIDE DEF r
  <2> QED BY <2>1 DEF Recipient
<1>2. \E f, c : e = Made(f, c)
  <2>1. CASE r.alg = "A256KW"
    BY <2>1 DEF RecipientEntry
  <2>2. CASE r.alg = "ECDH_ES_A256KW"
    BY <2>2 DEF RecipientEntry
  <2> QED BY <1>1, <2>1, <2>2 DEF Wrapping
<1>3. ASSUME NEW f, NEW c PROVE EntryOK(Made(f, c))
  <2> HIDE DEF r
  <2>1. CASE r.alg = "A256KW"
    BY <1>1, <2>1 DEF EncodeRecipient, EntryOK
  <2>2. CASE r.alg = "ECDH_ES_A256KW"
    BY <1>1, <2>2 DEF EncodeRecipient, EntryOK, DecodeProtectedMap, EncodeProtectedMap
  <2> QED BY <1>1, <2>1, <2>2 DEF Wrapping
<1> QED BY <1>2, <1>3, Zenon

Sealed(b, s, aad, payload) ==
    /\ DOMAIN b = {"tag", "prot", "unprot", "content", "recipients"} /\ b.tag = "ENCRYPT"
    /\ {"intact", "aad", "plain"} \subseteq DOMAIN b.content
    /\ b.content.aad = EncodeAAD("ENCRYPT", "A256GCM", aad) /\ b.content.plain = payload
    /\ "COUNTER_SIGNATURE" \in DOMAIN b.unprot =>
         s.alg # "RESERVED" /\ KidOf(b.unprot["COUNTER_SIGNATURE"].unprot, NoKid) = s.kid
    /\ EntriesOK(b.recipients)

LEMMA EncryptMade ==
    ASSUME NEW st, NEW nonce, NEW s, NEW rs \in Seq(Recipient), rs # <<>>, NEW aad, NEW payload, NEW id,
           Encrypt(st, "A256GCM", nonce, s, rs, aad, payload, id).st = "OK"
    PROVE  Sealed(Encrypt(st, "A256GCM", nonce, s, rs, aad, payload, id).msg, s, aad, payload)
<1> DEFINE out == Encrypt(st, "A256GCM", nonce, s, rs, aad, payload, id)
           tag == IF Len(rs) = 1 /\ rs[1].alg = "RESERVED" THEN "ENCRYPT0" ELSE "ENCRYPT"
           signed == s.alg # "RESERVED"
           sigKey == GetSignatureKey(st, s.alg, s.kid)
           cek == EncryptKey(st, rs, id)
           ct == Encrypt_GCM(cek.key.key, nonce, EncodeAAD(tag, "A256GCM", aad), payload)
           es == IF tag = "ENCRYPT0" THEN <<>>
                 ELSE [i \in DOMAIN rs |-> RecipientEntry(st, rs, cek.key.key, id, i)]
           head == FirstError(<<SetCryptoParams("A256GCM"), IF signed THEN sigKey.st ELSE "OK", cek.st>>
                              \o [i \in DOMAIN es |-> es[i].st])
           by == CounterSign(s, sigKey.key, tag, "A256GCM", ct)
           unprot == EncodeUnprotectedMap(NoKid, nonce, IF signed THEN {by} ELSE {})
           entries == [i \in DOMAIN es |-> es[i].entry]
           made == [tag |-> tag, prot |-> EncodeProtectedMap("A256GCM"), unprot |-> unprot, content |-> ct,
                    recipients |-> entries]
           bad == rs = <<>> \/ (\E r \in ToSet(rs) : r.alg # rs[1].alg)
<1>1. out = CASE bad -> Failed("ARGS")
              [] OTHER -> IF head # "OK" THEN Failed(head) ELSE [st |-> "OK", msg |-> made]
  BY Zenon DEF Encrypt
<1>2. Len(rs) \in Nat \ {0} /\ DOMAIN rs = 1 .. Len(rs) /\ 1 \in DOMAIN rs /\ rs[1] \in Recipient
  <2>1. Len(rs) \in Nat /\ DOMAIN rs = 1 .. Len(rs)
    OBVIOUS
  <2>2. Len(rs) # 0
    BY SMT
  <2>3. rs[1] \in Recipient
    BY <2>1, <2>2
  <2> QED BY <2>1, <2>2, <2>3
<1>3. tag = "ENCRYPT"
  <2>1. rs[1].alg # "RESERVED"
    <3> DEFINE r == rs[1]
    <3>1. r \in Recipient
      BY <1>2
    <3> HIDE DEF r
    <3>2. r.alg \in Wrapping
      BY <3>1 DEF Recipient
    <3> QED BY <3>2 DEF Wrapping, r
  <2> QED BY <2>1, Zenon
<1>4. ct = [key |-> cek.key.key, nonce |-> nonce, aad |-> EncodeAAD(tag, "A256GCM", aad), plain |-> payload, intact |-> TRUE]
  BY Zenon DEF Encrypt_GCM
<1>5. "COUNTER_SIGNATURE" \in DOMAIN unprot => signed /\ unprot["COUNTER_SIGNATURE"] = by
  <2> HIDE DEF by
  <2>1. CASE signed
    <3>1. (CHOOSE x \in {by} : TRUE) = by
      BY Zenon
    <3> QED BY <2>1, <3>1 DEF EncodeUnprotectedMap
  <2>2. CASE ~signed
    BY <2>2 DEF EncodeUnprotectedMap
  <2> QED BY <2>1, <2>2
<1>6. KidOf(by.unprot, NoKid) = s.kid
  <2> DEFINE u == EncodeUnprotectedMap(s.kid, <<>>, {})
  <2> HIDE DEF u
  <2>1. by.unprot = u
    BY DEF CounterSign, u
  <2> QED BY <2>1, KidKept DEF u
<1>7. EntriesOK(entries)
  <2>1. es = [i \in DOMAIN rs |-> RecipientEntry(st, rs, cek.key.key, id, i)]
    BY <1>3
  <2> HIDE DEF es, cek
  <2>2. DOMAIN entries = 1 .. Len(rs)
    BY <1>2, <2>1
  <2>3. ASSUME NEW i \in 1 .. Len(rs) PROVE EntryOK(entries[i])
    <3>1. entries[i] = RecipientEntry(st, rs, cek.key.key, id, i).entry
      BY <1>2, <2>1
    <3> QED BY <1>2, <3>1, EntryMade
  <2> HIDE DEF entries
  <2> QED BY <1>2, <2>2, <2>3 DEF EntriesOK
<1> HIDE DEF out, tag, cek, es, head, by, unprot, entries, bad, ct
<1>8. out.msg = made
  <2>1. CASE bad
    BY <1>1, <2>1 DEF Failed, out
  <2>2. CASE ~bad /\ head # "OK"
    BY <1>1, <2>2 DEF Failed, out
  <2>3. CASE ~bad /\ head = "OK"
    BY <1>1, <2>3
  <2> QED BY <2>1, <2>2, <2>3
<1>9. Sealed(made, s, aad, payload)
  BY <1>3, <1>4, <1>5, <1>6, <1>7 DEF Sealed
<1> HIDE DEF made
<1> QED BY <1>8, <1>9 DEF out

SignGives(st, s, aad, payload) ==
    LET b == Sign(st, s, aad, payload).msg
    IN  /\ DOMAIN b = {"tag", "prot", "unprot", "content", "sig"} /\ b.tag = "SIGN1" /\ b.content = payload
        /\ \E prot : b.sig.over = <<"Signature1", prot, <<>>, aad, payload>>
        /\ KidOf(b.unprot, NoKid) = s.kid

LEMMA SignMade ==
    ASSUME NEW st, NEW s, NEW aad, NEW payload, Sign(st, s, aad, payload).st = "OK"
    PROVE  SignGives(st, s, aad, payload)
<1> DEFINE out == Sign(st, s, aad, payload)
           got == GetSignatureKey(st, s.alg, s.kid)
           prot == EncodeProtectedMap(s.alg)
           unprot == EncodeUnprotectedMap(s.kid, <<>>, {})
           over == <<"Signature1", prot, <<>>, aad, payload>>
           sig == Sign_ECDSA(got.key, over)
           made == [tag |-> "SIGN1", prot |-> prot, unprot |-> unprot, content |-> payload, sig |-> sig]
<1>1. out = IF got.st # "OK" THEN Failed(got.st) ELSE [st |-> "OK", msg |-> made]
  BY DEF Sign, EncodeSig
<1>2. sig.over = over
  <2> HIDE DEF got, over
  <2> QED BY DEF Sign_ECDSA
<1>3. KidOf(unprot, NoKid) = s.kid
  BY KidKept
<1> HIDE DEF out, got, prot, unprot, sig, over
<1>4. out.msg = made
  <2>1. CASE got.st # "OK"
    BY <1>1, <2>1 DEF Failed, out
  <2> QED BY <1>1, <2>1
<1>5. /\ DOMAIN made = {"tag", "prot", "unprot", "content", "sig"} /\ made.tag = "SIGN1" /\ made.content = payload
      /\ made.sig = sig /\ made.unprot = unprot
  OBVIOUS
<1>6. \E p : made.sig.over = <<"Signature1", p, <<>>, aad, payload>>
  <2> HIDE DEF made
  <2> QED BY <1>2, <1>5, Zenon DEF over
<1> HIDE DEF made
<1> QED BY <1>3, <1>4, <1>5, <1>6, Zenon DEF out, SignGives

\* A serialized message is of its author, sealed if it has recipients, and in the clear if not.
SerializeGives(n, type, sn, rs, id) ==
    LET aad == [type |-> type, seq |-> sn]
        b == Serialize(n, type, sn, rs, aad, Payload(type, n, sn), id).msg
    IN  /\ MessageOK([aad |-> aad, body |-> b])
        /\ rs # <<>> => b.tag = "ENCRYPT"
        /\ rs = <<>> => b.content = Payload(type, n, sn)

LEMMA SerializeGood ==
    ASSUME SignersOK, NEW type \in {"PUB", "ACK"}, NEW n \in Authors(type), NEW sn \in Nat,
           NEW rs \in Seq(Recipient), NEW id,
           Serialize(n, type, sn, rs, [type |-> type, seq |-> sn], Payload(type, n, sn), id).st = "OK"
    PROVE  SerializeGives(n, type, sn, rs, id)
<1> DEFINE aad == [type |-> type, seq |-> sn]
           p == Payload(type, n, sn)
           out == Serialize(n, type, sn, rs, aad, p, id)
           b == out.msg
           m == [aad |-> aad, body |-> b]
           nonce == MakeNonce(sn, type, rs[1].alg, id)
           sealed == Encrypt(store[n], "A256GCM", nonce.nonce, signer[n], rs, aad, p, id)
<1>1. n \in Nodes
  BY DEF Authors, Nodes
<1>2. SUFFICES /\ \/ EncryptedBy(b, type, n, sn) \/ SignedBy(b, type, n, sn)
                  \/ PlainOf(b, type)
               /\ rs # <<>> => b.tag = "ENCRYPT"
               /\ rs = <<>> => b.content = p
  <2>1. m.aad = aad /\ m.body = b /\ DOMAIN m = {"aad", "body"}
    BY Zenon
  <2>2. aad.type = type /\ aad \in [type : {"PUB", "ACK"}, seq : Nat]
    OBVIOUS
  <2> HIDE DEF b, m, aad, p
  <2>3. MessageOK(m)
    BY <1>2, <2>1, <2>2, Zenon DEF MessageOK
  <2> QED BY <1>2, <2>3, Zenon DEF SerializeGives, b, m, aad, p, out
<1>3. CASE rs # <<>>
  <2>1. out = IF nonce.st # "OK" THEN nonce ELSE sealed
    BY <1>3, Zenon DEF Serialize
  <2> HIDE DEF aad, p, out, nonce, sealed
  <2>2. out = sealed /\ sealed.st = "OK"
    BY <2>1 DEF out, aad, p
  <2>3. Sealed(b, signer[n], aad, p)
    BY <1>3, <2>2, EncryptMade DEF sealed
  <2>4. Signs(n) => signer[n].kid = Identity(n)
    BY <1>1 DEF SignersOK
  <2> HIDE DEF b
  <2>5. EncryptedBy(b, type, n, sn)
    BY <2>3, <2>4, Zenon DEF Sealed, EncryptedBy, Signs, aad, p
  <2> QED BY <1>3, <2>3, <2>5, Zenon DEF Sealed
<1>4. CASE rs = <<>> /\ Signs(n)
  <2>1. out = Sign(store[n], signer[n], aad, p)
    BY <1>4, Zenon DEF Serialize, Signs
  <2> HIDE DEF aad, p, out
  <2>2. Sign(store[n], signer[n], aad, p).st = "OK"
    BY <2>1 DEF out, aad, p
  <2>3. /\ DOMAIN b = {"tag", "prot", "unprot", "content", "sig"} /\ b.tag = "SIGN1" /\ b.content = p
        /\ \E prot : b.sig.over = <<"Signature1", prot, <<>>, aad, p>>
        /\ KidOf(b.unprot, NoKid) = signer[n].kid
    <3>1. SignGives(store[n], signer[n], aad, p)
      BY <2>2, SignMade, Zenon
    <3> QED BY <2>1, <3>1, Zenon DEF SignGives
  <2>4. signer[n].kid = Identity(n)
    BY <1>1, <1>4 DEF SignersOK
  <2> HIDE DEF b
  <2>5. SignedBy(b, type, n, sn)
    BY <1>4, <2>3, <2>4, Zenon DEF SignedBy, aad, p
  <2> QED BY <1>4, <2>3, <2>5
<1>5. CASE rs = <<>> /\ ~Signs(n)
  <2>1. out = [st |-> "OK", msg |-> [tag |-> "NONE", content |-> p]]
    BY <1>5 DEF Serialize, Signs
  <2> HIDE DEF aad, p, out
  <2>2. b = [tag |-> "NONE", content |-> p]
    BY <2>1
  <2>3. type = "PUB" => n = Publisher
    BY DEF Authors
  <2> HIDE DEF b
  <2>4. DOMAIN b = {"tag", "content"} /\ b.tag = "NONE" /\ b.content = p
    BY <2>2
  <2>5. PlainOf(b, type)
    BY <1>5, <2>3, <2>4, Zenon DEF PlainOf
  <2> QED BY <1>5, <2>4, <2>5
<1> QED BY <1>3, <1>4, <1>5

--------------------------------------------------------------------------------
(* What damage leaves of a message: who sealed or signed what. *)

LEMMA NoiseGood ==
    ASSUME NEW b, NEW c, NEW type,
           (\E n \in Authors(type), sn \in Nat : EncryptedBy(b, type, n, sn) \/ SignedBy(b, type, n, sn)) \/ PlainOf(b, type),
           c = IF b.tag = "ENCRYPT" THEN [b.content EXCEPT !.intact = FALSE] ELSE <<"noise">>
    PROVE  LET d == [b EXCEPT !.content = c]
           IN  /\ (\E n \in Authors(type), sn \in Nat : EncryptedBy(d, type, n, sn) \/ SignedBy(d, type, n, sn)) \/ PlainOf(d, type)
               /\ d.tag = b.tag /\ (b.tag # "ENCRYPT" => d.content = <<"noise">>)
<1> DEFINE d == [b EXCEPT !.content = c]
<1>1. /\ DOMAIN d = DOMAIN b /\ \A l \in DOMAIN b \ {"content"} : d[l] = b[l]
      /\ "content" \in DOMAIN b => d.content = c
  OBVIOUS
<1> HIDE DEF d
<1> SUFFICES /\ (\E n \in Authors(type), sn \in Nat : EncryptedBy(d, type, n, sn) \/ SignedBy(d, type, n, sn)) \/ PlainOf(d, type)
             /\ d.tag = b.tag /\ (b.tag # "ENCRYPT" => d.content = <<"noise">>)
  BY Zenon DEF d
<1>2. ASSUME NEW n \in Authors(type), NEW sn \in Nat, EncryptedBy(b, type, n, sn)
      PROVE  EncryptedBy(d, type, n, sn) /\ d.tag = b.tag /\ b.tag = "ENCRYPT"
  <2>1. DOMAIN b = {"tag", "prot", "unprot", "content", "recipients"} /\ b.tag = "ENCRYPT"
    BY <1>2, Zenon DEF EncryptedBy
  <2>2. d.tag = b.tag /\ d.unprot = b.unprot /\ d.recipients = b.recipients /\ d.content = c
    BY <1>1, <2>1
  <2> DEFINE x == b.content
  <2>3. c = [x EXCEPT !.intact = FALSE]
    BY <2>1
  <2>4. DOMAIN c = DOMAIN x /\ \A l \in DOMAIN x \ {"intact"} : c[l] = x[l]
    <3> HIDE DEF x
    <3> QED BY <2>3
  <2>5. "intact" \in DOMAIN x /\ {"aad", "plain"} \subseteq DOMAIN x
    BY <1>2, Zenon DEF EncryptedBy
  <2>6. c.aad = x.aad /\ c.plain = x.plain /\ "intact" \in DOMAIN c /\ {"aad", "plain"} \subseteq DOMAIN c
    <3> HIDE DEF x
    <3> QED BY <2>4, <2>5
  <2> QED BY <1>1, <1>2, <2>1, <2>2, <2>6, Zenon DEF EncryptedBy
<1>3. ASSUME NEW n \in Authors(type), NEW sn \in Nat, SignedBy(b, type, n, sn)
      PROVE  SignedBy(d, type, n, sn) /\ d.tag = b.tag /\ d.content = <<"noise">>
  <2>1. DOMAIN b = {"tag", "prot", "unprot", "content", "sig"} /\ b.tag = "SIGN1"
    BY <1>3, Zenon DEF SignedBy
  <2>2. d.tag = b.tag /\ d.unprot = b.unprot /\ d.sig = b.sig /\ d.content = c /\ c = <<"noise">>
    BY <1>1, <2>1
  <2> QED BY <1>1, <1>3, <2>1, <2>2, Zenon DEF SignedBy
<1>4. ASSUME PlainOf(b, type) PROVE PlainOf(d, type) /\ d.tag = b.tag /\ d.content = <<"noise">>
  <2>1. DOMAIN b = {"tag", "content"} /\ b.tag = "NONE"
    BY <1>4, Zenon DEF PlainOf
  <2>2. d.tag = b.tag /\ d.content = c /\ c = <<"noise">>
    BY <1>1, <2>1
  <2> QED BY <1>1, <1>4, <2>1, <2>2, Zenon DEF PlainOf
<1> QED BY <1>2, <1>3, <1>4, Zenon

LEMMA HeadersGood ==
    ASSUME NEW b, NEW u, NEW type, b.tag # "NONE",
           (\E n \in Authors(type), sn \in Nat : EncryptedBy(b, type, n, sn) \/ SignedBy(b, type, n, sn)) \/ PlainOf(b, type),
           DOMAIN u = DOMAIN b.unprot \cup {"CRIT"}, \A l \in DOMAIN b.unprot : l # "CRIT" => u[l] = b.unprot[l]
    PROVE  LET d == [b EXCEPT !.unprot = u]
           IN  /\ \E n \in Authors(type), sn \in Nat : EncryptedBy(d, type, n, sn) \/ SignedBy(d, type, n, sn)
               /\ d.tag = b.tag /\ d.content = b.content
<1> DEFINE d == [b EXCEPT !.unprot = u]
<1>1. /\ DOMAIN d = DOMAIN b /\ \A l \in DOMAIN b \ {"unprot"} : d[l] = b[l]
      /\ "unprot" \in DOMAIN b => d.unprot = u
  OBVIOUS
<1> HIDE DEF d
<1> SUFFICES /\ \E n \in Authors(type), sn \in Nat : EncryptedBy(d, type, n, sn) \/ SignedBy(d, type, n, sn)
             /\ d.tag = b.tag /\ d.content = b.content
  BY Zenon DEF d
<1>2. ASSUME NEW n \in Authors(type), NEW sn \in Nat, EncryptedBy(b, type, n, sn)
      PROVE  EncryptedBy(d, type, n, sn) /\ d.tag = b.tag /\ d.content = b.content
  <2>1. DOMAIN b = {"tag", "prot", "unprot", "content", "recipients"}
    BY <1>2, Zenon DEF EncryptedBy
  <2>2. d.tag = b.tag /\ d.unprot = u /\ d.recipients = b.recipients /\ d.content = b.content
    BY <1>1, <2>1
  <2>3. /\ "COUNTER_SIGNATURE" \in DOMAIN u => "COUNTER_SIGNATURE" \in DOMAIN b.unprot
        /\ "COUNTER_SIGNATURE" \in DOMAIN b.unprot => u["COUNTER_SIGNATURE"] = b.unprot["COUNTER_SIGNATURE"]
    OBVIOUS
  <2>4. "COUNTER_SIGNATURE" \in DOMAIN u =>
            Signs(n) /\ KidOf(u["COUNTER_SIGNATURE"].unprot, NoKid) = Identity(n)
    BY <1>2, <2>3, Zenon DEF EncryptedBy
  <2> QED BY <1>1, <1>2, <2>1, <2>2, <2>4, Zenon DEF EncryptedBy
<1>3. ASSUME NEW n \in Authors(type), NEW sn \in Nat, SignedBy(b, type, n, sn)
      PROVE  SignedBy(d, type, n, sn) /\ d.tag = b.tag /\ d.content = b.content
  <2>1. DOMAIN b = {"tag", "prot", "unprot", "content", "sig"}
    BY <1>3, Zenon DEF SignedBy
  <2>2. d.tag = b.tag /\ d.unprot = u /\ d.sig = b.sig /\ d.content = b.content
    BY <1>1, <2>1
  <2>3. KidOf(u, NoKid) = KidOf(b.unprot, NoKid)
    BY DEF KidOf
  <2> QED BY <1>1, <1>3, <2>1, <2>2, <2>3, Zenon DEF SignedBy
<1>4. ~PlainOf(b, type)
  BY Zenon DEF PlainOf
<1> QED BY <1>2, <1>3, <1>4, Zenon

LEMMA DamageGood ==
    ASSUME NEW m, MessageOK(m), AckOK(m), NEW d \in Damaged(m) PROVE MessageOK(d) /\ AckOK(d)
<1> DEFINE b == m.body
           a == m.aad
           type == a.type
           OK(x) == (\E n \in Authors(type), sn \in Nat : EncryptedBy(x, type, n, sn) \/ SignedBy(x, type, n, sn))
                    \/ PlainOf(x, type)
           noise == IF b.tag = "ENCRYPT" THEN [b.content EXCEPT !.intact = FALSE] ELSE <<"noise">>
           critical == [l \in DOMAIN b.unprot \cup {"CRIT"} |-> IF l = "CRIT" THEN 0 ELSE b.unprot[l]]
<1>1. DOMAIN m = {"aad", "body"} /\ a \in [type : {"PUB", "ACK"}, seq : Nat] /\ OK(b)
  BY Zenon DEF MessageOK
\* What keeps the type, and either the content or leaves noise of what is not sealed.
<1>2. ASSUME DOMAIN d = {"aad", "body"}, d.aad \in [type : {"PUB", "ACK"}, seq : Nat], d.aad.type = type, OK(d.body),
             d.body.tag = b.tag,
             d.body.content = b.content \/ (b.tag # "ENCRYPT" => d.body.content = <<"noise">>)
      PROVE  MessageOK(d) /\ AckOK(d)
  <2>1. MessageOK(d)
    BY <1>2, Zenon DEF MessageOK
  <2>2. AckOK(d)
    BY <1>2, Zenon DEF AckOK
  <2> QED BY <2>1, <2>2
<1>3. CASE d = [m EXCEPT !.aad.seq = IF @ = 1 THEN 2 ELSE 1]
  <2> DEFINE x == IF a.seq = 1 THEN 2 ELSE 1
             c == [a EXCEPT !.seq = x]
  <2>1. d = [m EXCEPT !.aad = c]
    BY <1>3
  <2>2. x \in Nat
    OBVIOUS
  <2> HIDE DEF x
  <2>3. c \in [type : {"PUB", "ACK"}, seq : Nat] /\ c.type = type
    <3> HIDE DEF a
    <3> QED BY <1>1, <2>2
  <2> HIDE DEF c
  <2>4. DOMAIN d = {"aad", "body"} /\ d.aad = c /\ d.body = b
    BY <1>1, <2>1
  <2> HIDE DEF a, b, OK
  <2> QED BY <1>1, <1>2, <2>3, <2>4, Zenon
<1>4. CASE d = [m EXCEPT !.body.content = noise]
  <2> DEFINE c == [b EXCEPT !.content = noise]
  <2>1. d = [m EXCEPT !.body = c]
    BY <1>4
  <2>2. OK(c) /\ c.tag = b.tag /\ (b.tag # "ENCRYPT" => c.content = <<"noise">>)
    <3>1. noise = IF b.tag = "ENCRYPT" THEN [b.content EXCEPT !.intact = FALSE] ELSE <<"noise">>
      OBVIOUS
    <3> HIDE DEF noise, b, type
    <3> QED BY <1>1, <3>1, NoiseGood, Zenon
  <2> HIDE DEF c
  <2>3. DOMAIN d = {"aad", "body"} /\ d.aad = a /\ d.body = c
    BY <1>1, <2>1
  <2> HIDE DEF a, b, OK, noise
  <2>4. a.type = type
    BY DEF a
  <2> QED BY <1>1, <1>2, <2>2, <2>3, <2>4, Zenon
<1>5. CASE b.tag # "NONE" /\ d = [m EXCEPT !.body.unprot = critical]
  <2> DEFINE c == [b EXCEPT !.unprot = critical]
  <2>1. d = [m EXCEPT !.body = c]
    BY <1>5
  <2>2. OK(c) /\ c.tag = b.tag /\ c.content = b.content
    <3>1. DOMAIN critical = DOMAIN b.unprot \cup {"CRIT"}
      OBVIOUS
    <3>2. \A l \in DOMAIN b.unprot : l # "CRIT" => critical[l] = b.unprot[l]
      OBVIOUS
    <3> HIDE DEF critical, b, type
    <3> QED BY <1>1, <1>5, <3>1, <3>2, HeadersGood, Zenon
  <2> HIDE DEF c
  <2>3. DOMAIN d = {"aad", "body"} /\ d.aad = a /\ d.body = c
    BY <1>1, <2>1
  <2> HIDE DEF a, b, OK, critical
  <2>4. a.type = type
    BY DEF a
  <2> QED BY <1>1, <1>2, <2>2, <2>3, <2>4, Zenon
<1> QED BY <1>3, <1>4, <1>5, Zenon DEF Damaged

--------------------------------------------------------------------------------
(* The invariant. *)

LEMMA MessageStays == ASSUME NEW m, MessageOK(m), signer' = signer PROVE MessageOK(m)'
BY Zenon DEF MessageOK, EncryptedBy, SignedBy, PlainOf, Signs

\* New data come with a higher number than what the node held.
Newer == \A h \in handled' \ handled : h.type = "PUB" /\ h.by \in Subscribers => h.seq > held[h.by].seq

LEMMA AckStays ==
    ASSUME HeldOK, HeldOK', NEW m, AckOK(m), \A n \in Subscribers : held[n].seq <= held'[n].seq, Newer
    PROVE  AckOK(m)'
<1> SUFFICES ASSUME NEW n \in Subscribers, NEW sn \in Nat, sn <= held[n].seq, Unsealed(n, sn)
             PROVE  sn <= held'[n].seq /\ Unsealed(n, sn)'
  BY Zenon DEF AckOK
<1>1. held[n].seq \in Nat /\ held'[n].seq \in Nat /\ held[n].seq <= held'[n].seq
  BY DEF HeldOK
<1>2. sn <= held'[n].seq
  BY <1>1
<1>3. ASSUME NEW h \in handled', h.type = "PUB", h.sealed PROVE ~(h.by = n /\ h.seq = sn)
  <2>1. CASE h \in handled
    BY <1>3, <2>1, Zenon DEF Unsealed
  <2>2. CASE h \notin handled
    <3>1. h.by = n => h.seq > held[n].seq
      BY <1>3, <2>2, Zenon DEF Newer
    <3> QED BY <1>1, <3>1
  <2> QED BY <2>1, <2>2
<1>4. Unsealed(n, sn)'
  BY <1>3, Zenon DEF Unsealed
<1> QED BY <1>2, <1>4

\* What a step has to show.
LEMMA SecuredStays ==
    ASSUME SecuredInv, signer' = signer, recipients' \in Seq(Recipient), seq' \in Nat, HeldOK',
           \A n \in Subscribers : held[n].seq <= held'[n].seq, Newer,
           \A m \in wire' \ wire : MessageOK(m) /\ AckOK(m)', HandledOK', DeliveredAsSent'
    PROVE  SecuredInv'
<1>1. SignersOK'
  BY Zenon DEF SecuredInv, SignersOK, Signs
<1>2. ASSUME NEW m \in wire' PROVE MessageOK(m)' /\ AckOK(m)'
  <2>1. CASE m \in wire
    <3>1. MessageOK(m) /\ AckOK(m) /\ HeldOK
      BY <2>1, Zenon DEF SecuredInv
    <3> QED BY <3>1, MessageStays, AckStays, Zenon
  <2>2. CASE m \notin wire
    <3>1. MessageOK(m) /\ AckOK(m)'
      BY <2>2, Zenon
    <3> QED BY <3>1, MessageStays, Zenon
  <2> QED BY <2>1, <2>2
<1> QED BY <1>1, <1>2, Zenon DEF SecuredInv

\* The steps that change keys and recipients.
LEMMA QuietStays ==
    ASSUME SecuredInv, UNCHANGED <<signer, seq, held, wire, handled>>, recipients' \in Seq(Recipient)
    PROVE  SecuredInv'
<1>1. HeldOK' /\ HandledOK' /\ DeliveredAsSent'
  BY Zenon DEF SecuredInv, HeldOK, HandledOK, DeliveredAsSent, Signs
<1>2. \A n \in Subscribers : held[n].seq <= held'[n].seq
  BY DEF SecuredInv, HeldOK
<1>3. Newer /\ wire' \ wire = {}
  BY DEF Newer
<1>4. seq' \in Nat
  BY DEF SecuredInv
<1> QED BY <1>1, <1>2, <1>3, <1>4, SecuredStays, Zenon

LEMMA SubIdAdded ==
    ASSUME NEW rs \in Seq(Recipient), NEW s, NEW kid \in Names PROVE WithSubId(rs, s, kid) \in Seq(Recipient)
<1> DEFINE alg == RecipientAlgorithm(s, kid)
<1>1. alg.st = "OK" => alg.alg \in Wrapping
  BY DEF RecipientAlgorithm, Wrapping
<1> HIDE DEF alg
<1>2. CASE alg.st = "OK"
  BY <1>1, <1>2, AppendGrows DEF WithSubId, alg
<1>3. CASE alg.st # "OK"
  BY <1>3 DEF WithSubId, alg
<1> QED BY <1>2, <1>3

LEMMA SubIdRemoved ==
    ASSUME NEW rs \in Seq(Recipient), NEW kid PROVE RemoveRecipient(rs, kid) \in Seq(Recipient)
<1> DEFINE at == {i \in DOMAIN rs : rs[i].kid = kid}
<1>1. CASE at = {}
  BY <1>1 DEF RemoveRecipient
<1>2. CASE at # {}
  <2> DEFINE k == Min(at)
  <2>1. at \subseteq Nat /\ at \subseteq 1 .. Len(rs)
    OBVIOUS
  <2>2. k \in 1 .. Len(rs)
    <3> HIDE DEF at
    <3> QED BY <1>2, <2>1, MinIn
  <2>3. RemoveRecipient(rs, kid) = SubSeq(rs, 1, k - 1) \o SubSeq(rs, k + 1, Len(rs))
    BY <1>2, Zenon DEF RemoveRecipient, RemoveAt
  <2> HIDE DEF k
  <2>4. SubSeq(rs, 1, k - 1) \in Seq(Recipient) /\ SubSeq(rs, k + 1, Len(rs)) \in Seq(Recipient)
    BY <2>2
  <2> QED BY <2>3, <2>4
<1> QED BY <1>1, <1>2

LEMMA KeysStay ==
    ASSUME SecuredInv, \/ \E kid \in Kids : AddSubId(kid) \/ RemoveSubId(kid)
                       \/ \E n \in Nodes : \E c \in Rekeys(n) : Rekey(n, c)
                       \/ UNCHANGED vars
    PROVE  SecuredInv'
<1>1. recipients \in Seq(Recipient)
  BY Zenon DEF SecuredInv
<1>2. ASSUME NEW kid \in Kids, AddSubId(kid) PROVE SecuredInv'
  <2>1. recipients' = WithSubId(recipients, store[Publisher], kid) /\ UNCHANGED <<signer, seq, held, wire, handled>>
    BY <1>2 DEF AddSubId
  <2>2. kid \in Names
    BY DEF Names
  <2>3. recipients' \in Seq(Recipient)
    BY <1>1, <2>1, <2>2, SubIdAdded, Zenon
  <2> QED BY <2>1, <2>3, QuietStays
<1>3. ASSUME NEW kid \in Kids, RemoveSubId(kid) PROVE SecuredInv'
  <2>1. recipients' = RemoveRecipient(recipients, kid) /\ UNCHANGED <<signer, seq, held, wire, handled>>
    BY <1>3 DEF RemoveSubId
  <2>2. recipients' \in Seq(Recipient)
    BY <1>1, <2>1, SubIdRemoved, Zenon
  <2> QED BY <2>1, <2>2, QuietStays
<1>4. ASSUME NEW n \in Nodes, NEW c \in Rekeys(n), Rekey(n, c) PROVE SecuredInv'
  <2>1. recipients' = recipients /\ UNCHANGED <<signer, seq, held, wire, handled>>
    BY <1>4 DEF Rekey
  <2> QED BY <1>1, <2>1, QuietStays
<1>5. CASE UNCHANGED vars
  <2>1. recipients' = recipients /\ UNCHANGED <<signer, seq, held, wire, handled>>
    BY <1>5 DEF vars
  <2> QED BY <1>1, <2>1, QuietStays
<1> QED BY <1>2, <1>3, <1>4, <1>5

\* What a handler is given was sent.
Record(n, type, m, got) == [by |-> n, type |-> type, seq |-> m.aad.seq, data |-> got.plain,
                            sealed |-> m.body.tag = "ENCRYPT", sender |-> got.signer]
LEMMA SentAsGiven ==
    ASSUME NEW m, NEW got, NEW type \in {"PUB", "ACK"}, m.aad.type = type, Given(m, got), NEW n,
           DeliveredAsSent, Handle(n, type, m, got)
    PROVE  /\ DeliveredAsSent'
           /\ handled' = handled \cup {Record(n, type, m, got)}
<1> DEFINE h == Record(n, type, m, got)
<1>1. handled' = handled \cup {h}
  BY Zenon DEF Handle, Record
<1>2. /\ h.type = type /\ h.seq = m.aad.seq /\ h.data = got.plain /\ h.sealed = (m.body.tag = "ENCRYPT")
      /\ h.sender = got.signer
  BY DEF Record
<1> HIDE DEF h
<1>3. ASSUME NEW a \in Authors(type), got.plain = Payload(type, a, m.aad.seq) PROVE a \in Nodes /\ Sent(h, a)
  BY <1>2, <1>3 DEF Authors, Nodes, Payload, Sent
<1>4. h.sealed => \E a \in Nodes : Sent(h, a)
  BY <1>2, <1>3, Zenon DEF Given
<1>5. h.sender # NoEntity => \E a \in Nodes : Identity(a) = h.sender.kid /\ Sent(h, a)
  BY <1>2, <1>3, Zenon DEF Given
<1>6. DeliveredAsSent'
  BY <1>1, <1>4, <1>5, Zenon DEF DeliveredAsSent, Sent
<1> QED BY <1>1, <1>6 DEF h

\* A handler of the publisher's own concerns no subscriber.
LEMMA OwnHandled ==
    ASSUME SecuredInv, NEW h, h.by = Publisher, signer' = signer, held' = held, handled' \subseteq handled \cup {h}
    PROVE  HandledOK' /\ Newer /\ HeldOK' /\ \A n \in Subscribers : held[n].seq <= held'[n].seq
<1>1. h.by \notin Subscribers
  BY NodesAssumption
<1>2. HandledOK'
  BY <1>1, Zenon DEF SecuredInv, HandledOK
<1>3. Newer
  BY <1>1, Zenon DEF Newer
<1>4. HeldOK'
  BY Zenon DEF SecuredInv, HeldOK, Signs
<1>5. \A n \in Subscribers : held[n].seq <= held'[n].seq
  BY DEF SecuredInv, HeldOK
<1> QED BY <1>2, <1>3, <1>4, <1>5

LEMMA PublishStays == ASSUME SecuredInv, Publish PROVE SecuredInv'
<1> DEFINE sn == seq + 1
           aad == [type |-> "PUB", seq |-> sn]
           id == <<"PUB", sn>>
           p == <<"data", sn>>
           out == Serialize(Publisher, "PUB", sn, recipients, aad, p, id)
           m == [aad |-> aad, body |-> out.msg]
           got == Deserialize(Publisher, aad, m.body, NoEntity)
           taken == local /\ got.st = "OK"
<1>1. /\ SignersOK /\ recipients \in Seq(Recipient) /\ seq \in Nat /\ HeldOK /\ HandledOK /\ DeliveredAsSent
  BY Zenon DEF SecuredInv
<1>2. seq' = sn /\ sn \in Nat /\ UNCHANGED <<store, signer, local, held, changes>>
  BY <1>1 DEF Publish
<1>3. IF out.st # "OK" THEN UNCHANGED <<recipients, wire, handled>>
      ELSE /\ wire' = wire \cup {m}
           /\ IF taken THEN recipients' = AckRecipients(recipients, got) /\ Handle(Publisher, "PUB", m, got)
              ELSE UNCHANGED <<recipients, handled>>
  BY Zenon DEF Publish
<1>4. p = Payload("PUB", Publisher, sn)
  BY DEF Payload
<1> HIDE DEF sn, p
<1>5. out.st = "OK" => MessageOK(m) /\ m.aad = aad /\ m.aad.type = "PUB"
  <2> SUFFICES ASSUME out.st = "OK" PROVE MessageOK(m) /\ m.aad = aad /\ m.aad.type = "PUB"
    OBVIOUS
  <2>1. Publisher \in Authors("PUB")
    BY DEF Authors
  <2>2. SerializeGives(Publisher, "PUB", sn, recipients, id)
    <3> HIDE DEF id
    <3>1. Serialize(Publisher, "PUB", sn, recipients, [type |-> "PUB", seq |-> sn], Payload("PUB", Publisher, sn), id).st = "OK"
      BY <1>4
    <3> QED BY <1>1, <1>2, <2>1, <3>1, SerializeGood
  <2>3. MessageOK(m)
    BY <1>4, <2>2, Zenon DEF SerializeGives
  <2> HIDE DEF out
  <2> QED BY <2>3
<1> HIDE DEF aad, out
<1>6. out.st = "OK" /\ taken => Given(m, got)
  <2> SUFFICES ASSUME out.st = "OK", taken PROVE Given(m, got)
    OBVIOUS
  <2>1. MessageOK(m) /\ m.aad = aad
    BY <1>5
  <2>2. Publisher \in Nodes
    BY DEF Nodes
  <2> DEFINE b == m.body
  <2>3. got = Deserialize(Publisher, m.aad, b, NoEntity) /\ got.st = "OK"
    BY <2>1
  <2> HIDE DEF m, got
  <2> QED BY <2>1, <2>2, <2>3, DeserializeGood, Zenon
<1> HIDE DEF m, got, taken
<1>7. CASE out.st = "OK" /\ taken
  <2>1. recipients' = AckRecipients(recipients, got) /\ Handle(Publisher, "PUB", m, got) /\ wire' = wire \cup {m}
    BY <1>3, <1>7
  <2>2. Given(m, got) /\ MessageOK(m) /\ m.aad.type = "PUB"
    BY <1>5, <1>6, <1>7
  <2>3. recipients' \in Seq(Recipient)
    BY <1>1, <2>1, <2>2, AckTo
  <2> DEFINE h == Record(Publisher, "PUB", m, got)
  <2>4. DeliveredAsSent' /\ handled' = handled \cup {h}
    BY <1>1, <2>1, <2>2, SentAsGiven
  <2>5. h.by = Publisher
    BY DEF Record
  <2> HIDE DEF h
  <2>6. HandledOK' /\ Newer /\ HeldOK' /\ \A n \in Subscribers : held[n].seq <= held'[n].seq
    BY <1>2, <2>4, <2>5, OwnHandled
  <2>7. \A x \in wire' \ wire : MessageOK(x) /\ AckOK(x)'
    BY <2>1, <2>2 DEF AckOK
  <2> QED BY <1>2, <2>3, <2>4, <2>6, <2>7, SecuredStays
<1>8. CASE ~(out.st = "OK" /\ taken)
  <2>1. recipients' = recipients /\ handled' = handled /\ wire' \subseteq wire \cup {m} /\ (out.st # "OK" => wire' = wire)
    BY <1>3, <1>8
  <2>2. \A x \in wire' \ wire : MessageOK(x) /\ AckOK(x)'
    BY <1>5, <2>1 DEF AckOK
  <2>3. DeliveredAsSent' /\ HandledOK' /\ HeldOK'
    BY <1>1, <1>2, <2>1, Zenon DEF DeliveredAsSent, HandledOK, HeldOK, Signs
  <2>4. Newer /\ \A n \in Subscribers : held[n].seq <= held'[n].seq
    BY <1>1, <1>2, <2>1 DEF Newer, HeldOK
  <2> QED BY <1>1, <1>2, <2>1, <2>2, <2>3, <2>4, SecuredStays
<1> QED BY <1>7, <1>8

LEMMA AcknowledgeStays == ASSUME SecuredInv, NEW n \in Subscribers, Acknowledge(n) PROVE SecuredInv'
<1> DEFINE sn == held[n].seq
           rs == held[n].recipients
           aad == [type |-> "ACK", seq |-> sn]
           id == <<"ACK", n, sn>>
           p == <<"ack", n, sn>>
           out == Serialize(n, "ACK", sn, rs, aad, p, id)
           m == [aad |-> aad, body |-> out.msg]
<1>1. /\ SignersOK /\ recipients \in Seq(Recipient) /\ seq \in Nat /\ HeldOK /\ HandledOK /\ DeliveredAsSent
  BY Zenon DEF SecuredInv
<1>2. out.st = "OK" /\ wire' = wire \cup {m} /\ UNCHANGED <<store, signer, local, recipients, seq, held, changes, handled>>
  BY Zenon DEF Acknowledge
<1>3. p = Payload("ACK", n, sn)
  BY DEF Payload
<1>4. sn \in Nat /\ rs \in Seq(Recipient)
  BY <1>1 DEF HeldOK
<1> HIDE DEF sn, rs, p
<1>5. SerializeGives(n, "ACK", sn, rs, id)
  <2>1. n \in Authors("ACK")
    BY DEF Authors
  <2> HIDE DEF id
  <2>2. Serialize(n, "ACK", sn, rs, [type |-> "ACK", seq |-> sn], Payload("ACK", n, sn), id).st = "OK"
    BY <1>2, <1>3
  <2> QED BY <1>1, <1>4, <2>1, <2>2, SerializeGood
<1>6. MessageOK(m) /\ (rs # <<>> => m.body.tag = "ENCRYPT") /\ (rs = <<>> => m.body.content = p)
  <2>1. m.body = out.msg
    OBVIOUS
  <2> QED BY <1>3, <1>5, <2>1, Zenon DEF SerializeGives
<1> HIDE DEF m
<1>7. AckOK(m)
  <2>1. rs = <<>> => Unsealed(n, sn)
    BY <1>1, Zenon DEF HandledOK, Unsealed, rs
  <2>2. sn <= held[n].seq
    BY <1>4 DEF sn
  <2>3. p = <<"ack", n, sn>>
    BY DEF p
  <2> QED BY <1>4, <1>6, <2>1, <2>2, <2>3, Zenon DEF AckOK
<1>8. DeliveredAsSent' /\ HandledOK' /\ HeldOK'
  BY <1>1, <1>2, Zenon DEF DeliveredAsSent, HandledOK, HeldOK, Signs
<1>9. Newer /\ \A k \in Subscribers : held[k].seq <= held'[k].seq
  BY <1>1, <1>2 DEF Newer, HeldOK
<1>10. ASSUME NEW x, x = m PROVE AckOK(x)'
  <2>1. AckOK(x)
    BY <1>7, <1>10, Zenon
  <2> QED BY <1>1, <1>8, <1>9, <2>1, AckStays
<1>11. \A x \in wire' \ wire : MessageOK(x) /\ AckOK(x)'
  BY <1>2, <1>6, <1>10
<1> QED BY <1>1, <1>2, <1>8, <1>9, <1>11, SecuredStays

Later == \A n \in Subscribers : /\ held[n].seq <= held'[n].seq
                                /\ held[n].recipients # <<>> => held'[n].recipients # <<>>
LEMMA HandledStays ==
    ASSUME HandledOK, HeldOK, HeldOK', Later,
           \A g \in handled' \ handled : g.type = "PUB" /\ g.sealed /\ g.by \in Subscribers =>
               held'[g.by].recipients # <<>> /\ g.seq = held'[g.by].seq
    PROVE  HandledOK'
<1> SUFFICES ASSUME NEW g \in handled', g.type = "PUB", g.sealed, g.by \in Subscribers
             PROVE  held'[g.by].recipients # <<>> /\ g.seq \in Nat /\ g.seq <= held'[g.by].seq
  BY Zenon DEF HandledOK
<1>1. held[g.by].seq \in Nat /\ held'[g.by].seq \in Nat
  BY Zenon DEF HeldOK
<1>2. CASE g \in handled
  <2>1. held[g.by].recipients # <<>> /\ g.seq \in Nat /\ g.seq <= held[g.by].seq
    BY <1>2, Zenon DEF HandledOK
  <2>2. held[g.by].seq <= held'[g.by].seq /\ held'[g.by].recipients # <<>>
    BY <2>1, Zenon DEF Later
  <2> QED BY <1>1, <2>1, <2>2
<1>3. CASE g \notin handled
  <2>1. held'[g.by].recipients # <<>> /\ g.seq = held'[g.by].seq
    BY <1>3, Zenon
  <2> QED BY <1>1, <2>1
<1> QED BY <1>2, <1>3

\* The sender that is left of a publication that cannot be decrypted signs its publications.
LEMMA SignerLeftOf ==
    ASSUME NEW st, NEW m, MessageOK(m), m.aad.type = "PUB", SignerLeft(st, m.body) # NoEntity
    PROVE  Signs(Publisher)
<1> DEFINE b == m.body
<1>1. b.tag \in {"ENCRYPT", "ENCRYPT0"} /\ "COUNTER_SIGNATURE" \in DOMAIN b.unprot
  BY Zenon DEF SignerLeft
<1>2. ~PlainOf(b, m.aad.type)
  BY <1>1 DEF PlainOf
<1>3. PICK a \in Authors(m.aad.type), sn \in Nat :
          EncryptedBy(b, m.aad.type, a, sn) \/ SignedBy(b, m.aad.type, a, sn)
  BY <1>2, Zenon DEF MessageOK
<1>4. ~SignedBy(b, m.aad.type, a, sn)
  BY <1>1 DEF SignedBy
<1>5. a = Publisher
  BY DEF Authors
<1> QED BY <1>1, <1>3, <1>4, <1>5, Zenon DEF EncryptedBy

LEMMA ReceivePubStays == ASSUME SecuredInv, NEW n \in Subscribers, NEW m \in wire, ReceivePub(n, m) PROVE SecuredInv'
<1> DEFINE who == held[n].sender
           rs == held[n].recipients
           b == m.body
           got == Deserialize(n, m.aad, b, who)
           new == [seq |-> m.aad.seq, sender |-> got.signer, recipients |-> AckRecipients(rs, got)]
           left == SignerLeft(store[n], b)
           old == [held[n] EXCEPT !.seq = m.aad.seq, !.sender = left]
<1>1. /\ SignersOK /\ recipients \in Seq(Recipient) /\ seq \in Nat /\ HeldOK /\ HandledOK /\ DeliveredAsSent
      /\ MessageOK(m)
  BY Zenon DEF SecuredInv
<1>2. /\ m.aad.type = "PUB" /\ m.aad.seq > held[n].seq
      /\ UNCHANGED <<store, signer, local, recipients, seq, wire, changes>>
  BY Zenon DEF ReceivePub
<1>3. /\ DOMAIN held = Subscribers /\ DOMAIN held[n] = {"seq", "sender", "recipients"}
      /\ held[n].seq \in Nat /\ rs \in Seq(Recipient) /\ (who # NoEntity => Signs(Publisher))
  BY <1>1 DEF HeldOK
<1>4. m.aad.seq \in Nat
  BY <1>1 DEF MessageOK
<1>5. CASE got.st = "OK"
  <2>1. held' = [held EXCEPT ![n] = new] /\ Handle(n, "PUB", m, got)
    BY <1>5 DEF ReceivePub
  <2>2. n \in Nodes
    BY DEF Nodes
  <2>3. Given(m, got)
    <3> HIDE DEF who
    <3> QED BY <1>1, <1>2, <1>3, <1>5, <2>2, DeserializeGood
  <2> HIDE DEF got, rs, who
  <2>4. /\ AckRecipients(rs, got) \in Seq(Recipient)
        /\ (m.body.tag = "ENCRYPT" \/ rs # <<>> => AckRecipients(rs, got) # <<>>)
    BY <1>2, <1>3, <2>3, AckTo
  <2> DEFINE h == Record(n, "PUB", m, got)
  <2>5. DeliveredAsSent' /\ handled' = handled \cup {h}
    BY <1>1, <1>2, <2>1, <2>3, SentAsGiven
  <2>6. h.by = n /\ h.type = "PUB" /\ h.seq = m.aad.seq /\ h.sealed = (b.tag = "ENCRYPT")
    BY DEF Record
  <2>7. /\ new.seq = m.aad.seq /\ new.sender = got.signer /\ new.recipients = AckRecipients(rs, got)
        /\ DOMAIN new = {"seq", "sender", "recipients"}
    OBVIOUS
  <2> HIDE DEF h, new
  <2>8. DOMAIN held' = Subscribers /\ held'[n] = new /\ \A x \in Subscribers \ {n} : held'[x] = held[x]
    BY <1>3, <2>1
  <2>9. got.signer # NoEntity => Signs(Publisher)'
    BY <1>2, <2>3, Zenon DEF Given, Authors, Signs
  <2>10. HeldOK'
    <3>1. ASSUME NEW x \in Subscribers
          PROVE  /\ DOMAIN held'[x] = {"seq", "sender", "recipients"}
                 /\ held'[x].seq \in Nat /\ held'[x].recipients \in Seq(Recipient)
                 /\ held'[x].sender # NoEntity => Signs(Publisher)'
      <4>1. CASE x = n
        BY <1>4, <2>4, <2>7, <2>8, <2>9, <4>1
      <4>2. CASE x # n
        <5>1. held'[x] = held[x] /\ (Signs(Publisher) => Signs(Publisher)')
          BY <1>2, <2>8, <4>2 DEF Signs
        <5> QED BY <1>1, <5>1 DEF HeldOK
      <4> QED BY <4>1, <4>2
    <3> QED BY <2>8, <3>1, Zenon DEF HeldOK
  <2>11. Later
    <3> SUFFICES ASSUME NEW x \in Subscribers
                 PROVE  /\ held[x].seq <= held'[x].seq
                        /\ held[x].recipients # <<>> => held'[x].recipients # <<>>
      BY Zenon DEF Later
    <3>1. CASE x = n
      <4>1. held'[x].seq = m.aad.seq /\ held'[x].recipients = AckRecipients(rs, got)
        BY <2>7, <2>8, <3>1
      <4> QED BY <1>2, <1>3, <1>4, <2>4, <3>1, <4>1 DEF rs
    <3>2. CASE x # n
      BY <1>1, <2>8, <3>2 DEF HeldOK
    <3> QED BY <3>1, <3>2
  <2>12. HandledOK'
    <3>1. h.sealed => b.tag = "ENCRYPT"
      BY <2>6
    <3>2. ASSUME NEW g \in handled' \ handled, g.type = "PUB", g.sealed, g.by \in Subscribers
          PROVE  held'[g.by].recipients # <<>> /\ g.seq = held'[g.by].seq
      <4>1. g = h
        BY <2>5, <3>2
      <4>2. b.tag = "ENCRYPT"
        BY <3>1, <3>2, <4>1, Zenon
      <4> QED BY <2>4, <2>6, <2>7, <2>8, <4>1, <4>2
    <3> QED BY <1>1, <2>10, <2>11, <3>2, HandledStays
  <2>13. Newer
    BY <1>2, <2>5, <2>6 DEF Newer
  <2>14. \A x \in wire' \ wire : MessageOK(x) /\ AckOK(x)'
    BY <1>2
  <2>15. \A x \in Subscribers : held[x].seq <= held'[x].seq
    BY <2>11, Zenon DEF Later
  <2> QED BY <1>1, <1>2, <2>5, <2>10, <2>12, <2>13, <2>14, <2>15, SecuredStays
<1>6. CASE got.st # "OK"
  <2>1. handled' = handled /\ held' = [held EXCEPT ![n] = old]
    BY <1>6 DEF ReceivePub
  <2>2. /\ old.seq = m.aad.seq /\ old.sender = left /\ old.recipients = rs
        /\ DOMAIN old = {"seq", "sender", "recipients"}
    BY <1>3
  <2>0. left # NoEntity => Signs(Publisher)
    BY <1>1, <1>2, SignerLeftOf
  <2> HIDE DEF old, left
  <2>3. DOMAIN held' = Subscribers /\ held'[n] = old /\ \A x \in Subscribers \ {n} : held'[x] = held[x]
    BY <1>3, <2>1
  <2>4. HeldOK'
    <3>1. ASSUME NEW x \in Subscribers
          PROVE  /\ DOMAIN held'[x] = {"seq", "sender", "recipients"}
                 /\ held'[x].seq \in Nat /\ held'[x].recipients \in Seq(Recipient)
                 /\ held'[x].sender # NoEntity => Signs(Publisher)'
      <4>1. CASE x = n
        <5>1. left # NoEntity => Signs(Publisher)'
          BY <1>2, <2>0 DEF Signs
        <5> QED BY <1>3, <1>4, <2>2, <2>3, <4>1, <5>1
      <4>2. CASE x # n
        <5>1. held'[x] = held[x] /\ (Signs(Publisher) => Signs(Publisher)')
          BY <1>2, <2>3, <4>2 DEF Signs
        <5> QED BY <1>1, <5>1 DEF HeldOK
      <4> QED BY <4>1, <4>2
    <3> QED BY <2>3, <3>1, Zenon DEF HeldOK
  <2>5. Later
    <3> SUFFICES ASSUME NEW x \in Subscribers
                 PROVE  /\ held[x].seq <= held'[x].seq
                        /\ held[x].recipients # <<>> => held'[x].recipients # <<>>
      BY Zenon DEF Later
    <3>1. CASE x = n
      BY <1>2, <1>3, <1>4, <2>2, <2>3, <3>1
    <3>2. CASE x # n
      BY <1>1, <2>3, <3>2 DEF HeldOK
    <3> QED BY <3>1, <3>2
  <2>6. HandledOK' /\ Newer
    <3>1. handled' \ handled = {}
      BY <2>1
    <3>2. HandledOK'
      BY <1>1, <2>4, <2>5, <3>1, HandledStays
    <3> QED BY <3>1, <3>2 DEF Newer
  <2>7. DeliveredAsSent'
    BY <1>1, <2>1, Zenon DEF DeliveredAsSent
  <2>8. \A x \in wire' \ wire : MessageOK(x) /\ AckOK(x)'
    BY <1>2
  <2>9. \A x \in Subscribers : held[x].seq <= held'[x].seq
    BY <2>5, Zenon DEF Later
  <2> QED BY <1>1, <1>2, <2>4, <2>6, <2>7, <2>8, <2>9, SecuredStays
<1> QED BY <1>5, <1>6

LEMMA ReceiveAckStays == ASSUME SecuredInv, NEW m \in wire, ReceiveAck(m) PROVE SecuredInv'
<1> DEFINE b == m.body
           got == Deserialize(Publisher, m.aad, b, NoEntity)
<1>1. /\ SignersOK /\ recipients \in Seq(Recipient) /\ seq \in Nat /\ HeldOK /\ HandledOK /\ DeliveredAsSent
      /\ MessageOK(m)
  BY Zenon DEF SecuredInv
<1>2. /\ m.aad.type = "ACK" /\ UNCHANGED <<store, signer, local, recipients, seq, held, wire, changes>>
      /\ IF got.st = "OK" THEN Handle(Publisher, "ACK", m, got) ELSE UNCHANGED handled
  BY Zenon DEF ReceiveAck
<1>3. \A x \in wire' \ wire : MessageOK(x) /\ AckOK(x)'
  BY <1>2
<1>4. CASE got.st = "OK"
  <2>1. Publisher \in Nodes
    BY DEF Nodes
  <2>2. Given(m, got)
    BY <1>1, <1>4, <2>1, DeserializeGood
  <2> HIDE DEF got
  <2> DEFINE h == Record(Publisher, "ACK", m, got)
  <2>3. DeliveredAsSent' /\ handled' = handled \cup {h}
    BY <1>1, <1>2, <1>4, <2>2, SentAsGiven
  <2>4. h.by = Publisher
    BY DEF Record
  <2> HIDE DEF h
  <2>5. HandledOK' /\ Newer /\ HeldOK' /\ \A n \in Subscribers : held[n].seq <= held'[n].seq
    BY <1>2, <2>3, <2>4, OwnHandled
  <2> QED BY <1>1, <1>2, <1>3, <2>3, <2>5, SecuredStays
<1>5. CASE got.st # "OK"
  <2>1. UNCHANGED <<signer, seq, held, wire, handled>> /\ recipients' = recipients
    BY <1>2, <1>5
  <2> QED BY <1>1, <2>1, QuietStays
<1> QED BY <1>4, <1>5

LEMMA DamageStays == ASSUME SecuredInv, NEW m \in wire, Damage(m) PROVE SecuredInv'
<1>1. /\ SignersOK /\ recipients \in Seq(Recipient) /\ seq \in Nat /\ HeldOK /\ HandledOK /\ DeliveredAsSent
      /\ MessageOK(m) /\ AckOK(m)
  BY Zenon DEF SecuredInv
<1>2. PICK d \in Damaged(m) : wire' = (wire \ {m}) \cup {d}
  BY Zenon DEF Damage
<1>3. UNCHANGED <<store, signer, local, recipients, seq, held, handled>>
  BY Zenon DEF Damage
<1>4. MessageOK(d) /\ AckOK(d)
  BY <1>1, DamageGood
<1>5. DeliveredAsSent' /\ HandledOK' /\ HeldOK'
  BY <1>1, <1>3, Zenon DEF DeliveredAsSent, HandledOK, HeldOK, Signs
<1>6. Newer /\ \A n \in Subscribers : held[n].seq <= held'[n].seq
  BY <1>1, <1>3 DEF Newer, HeldOK
<1>7. AckOK(d)'
  BY <1>1, <1>4, <1>5, <1>6, AckStays
<1>8. \A x \in wire' \ wire : MessageOK(x) /\ AckOK(x)'
  BY <1>2, <1>4, <1>7
<1> QED BY <1>1, <1>3, <1>5, <1>6, <1>8, SecuredStays

\* The loop that adds the recipients of a new publication.
Adds(rs, kid) == WithSubId(rs, store[Publisher], kid)
A == INSTANCE FoldTheorems WITH Op <- Adds

LEMMA SubIdsAdded ==
    ASSUME NEW kids \in Seq(Names)
    PROVE  FoldLeft(LAMBDA rs, kid : WithSubId(rs, store[Publisher], kid), <<>>, kids) \in Seq(Recipient)
<1>1. FoldLeft(LAMBDA rs, kid : WithSubId(rs, store[Publisher], kid), <<>>, kids) = A!Fold(<<>>, kids)
  BY Zenon DEF FoldLeft, MapThenFoldSet, Max, A!Fold, A!Stepped, A!Steps, A!Top, Adds
<1>2. \A rs \in Seq(Recipient), kid \in Names : Adds(rs, kid) \in Seq(Recipient)
  BY SubIdAdded, Zenon DEF Adds
<1>3. <<>> \in Seq(Recipient)
  OBVIOUS
<1>4. A!Fold(<<>>, kids) \in Seq(Recipient)
  BY <1>2, <1>3, A!FoldStays, Zenon
<1> QED BY <1>1, <1>4, Zenon

LEMMA InitSecured == Init => SecuredInv
<1> SUFFICES ASSUME Init PROVE SecuredInv
  OBVIOUS
<1>1. SignersOK
  <2> SUFFICES ASSUME NEW n \in Nodes, Signs(n) PROVE signer[n].kid = Identity(n)
    BY DEF SignersOK
  <2>1. signer[n] = CreateNode(store[n], Identity(n))
    BY DEF Init
  <2>2. CASE Identity(n) = NoKid
    BY <2>1, <2>2 DEF CreateNode, NoEntity, Signs
  <2>3. CASE Identity(n) # NoKid
    BY <2>1, <2>3 DEF CreateNode
  <2> QED BY <2>2, <2>3
<1>2. recipients \in Seq(Recipient)
  <2>1. PICK kids \in Started :
            recipients = FoldLeft(LAMBDA rs, kid : WithSubId(rs, store[Publisher], kid), <<>>, kids)
    BY Zenon DEF Init
  <2> DEFINE K == {kids[i] : i \in DOMAIN kids}
  <2>2. kids \in Seq(K) /\ K \subseteq Names
    BY StartedAssumption DEF Names
  <2> HIDE DEF K
  <2>3. kids \in Seq(Names)
    BY <2>2
  <2> QED BY <2>1, <2>3, SubIdsAdded, Zenon
<1>3. HeldOK
  <2>1. held = [n \in Subscribers |-> NoPub]
    BY DEF Init
  <2>2. NoPub.seq = 0 /\ NoPub.sender = NoEntity /\ NoPub.recipients = <<>>
        /\ DOMAIN NoPub = {"seq", "sender", "recipients"}
    BY DEF NoPub
  <2>3. <<>> \in Seq(Recipient)
    OBVIOUS
  <2>4. DOMAIN held = Subscribers /\ \A n \in Subscribers : held[n] = NoPub
    BY <2>1
  <2>5. NoPub.seq \in Nat
    BY <2>2
  <2> QED BY <2>2, <2>3, <2>4, <2>5, Zenon DEF HeldOK
<1>4. seq = 0 /\ wire = {} /\ handled = {}
  BY DEF Init
<1> QED BY <1>1, <1>2, <1>3, <1>4 DEF SecuredInv, HandledOK, DeliveredAsSent

LEMMA NextSecured == SecuredInv /\ [Next]_vars => SecuredInv'
<1> SUFFICES ASSUME SecuredInv, [Next]_vars PROVE SecuredInv'
  OBVIOUS
<1>1. CASE \/ \E kid \in Kids : AddSubId(kid) \/ RemoveSubId(kid)
           \/ \E n \in Nodes : \E c \in Rekeys(n) : Rekey(n, c)
           \/ UNCHANGED vars
  BY <1>1, KeysStay, Zenon
<1>2. CASE Publish
  BY <1>2, PublishStays
<1>3. ASSUME NEW n \in Subscribers, Acknowledge(n) PROVE SecuredInv'
  BY <1>3, AcknowledgeStays
<1>4. ASSUME NEW n \in Subscribers, NEW m \in wire, ReceivePub(n, m) PROVE SecuredInv'
  BY <1>4, ReceivePubStays
<1>5. ASSUME NEW m \in wire, ReceiveAck(m) PROVE SecuredInv'
  BY <1>5, ReceiveAckStays
<1>6. ASSUME NEW m \in wire, Damage(m) PROVE SecuredInv'
  BY <1>6, DamageStays
<1> QED BY <1>1, <1>2, <1>3, <1>4, <1>5, <1>6, Zenon DEF Next

\* Whatever keys change and whatever is damaged, late or delivered again, every message in
\* transit was made by one node of one payload (DPS_SerializePub, SerializeAck), and who was given
\* an encrypted publication has somebody to encrypt the acknowledgement to.
THEOREM SecuredInductive == Spec => []SecuredInv
<1>1. Init => SecuredInv
  BY InitSecured
<1>2. SecuredInv /\ [Next]_vars => SecuredInv'
  BY NextSecured
<1> QED BY <1>1, <1>2, PTL DEF Spec

\* A handler is given of an encrypted message what was sent, and told as its sender nobody
\* or the one who signed what it is given (DecryptAndParsePub, DPS_DecodeAcknowledgement).
THEOREM DeliveredAsSentHolds == Spec => []DeliveredAsSent
<1>1. SecuredInv => DeliveredAsSent
  BY DEF SecuredInv
<1> QED BY <1>1, SecuredInductive, PTL

\* A publication that came encrypted is not acknowledged in the clear (SerializeAck).
THEOREM AckProtectedHolds == Spec => []AckProtected
<1>1. SecuredInv => AckProtected
  <2> SUFFICES ASSUME SecuredInv, NEW m \in wire, m.aad.type = "ACK", m.body.tag # "ENCRYPT",
                      NEW h \in handled, h.type = "PUB", h.sealed
               PROVE  m.body.content # <<"ack", h.by, h.seq>>
    BY DEF AckProtected
  <2>1. AckOK(m)
    BY DEF SecuredInv
  <2>2. CASE m.body.content = <<"noise">>
    BY <2>2
  <2>3. ASSUME NEW n \in Subscribers, NEW sn \in Nat, m.body.content = <<"ack", n, sn>>, Unsealed(n, sn)
        PROVE  m.body.content # <<"ack", h.by, h.seq>>
    <3>1. ~(h.by = n /\ h.seq = sn)
      BY <2>3 DEF Unsealed
    <3> QED BY <2>3, <3>1
  <2> QED BY <2>1, <2>2, <2>3, Zenon DEF AckOK
<1> QED BY <1>1, SecuredInductive, PTL
================================================================================
