-------------------------------- MODULE Cose --------------------------------
(***************************************************************************)
(* COSE objects (src/src/cose.c), with the cryptography symbolic: what is  *)
(* encrypted is a record that opens only with the key, the nonce and the   *)
(* additional data it was made with; a signature is a record of the key    *)
(* pair and of what was signed.  Header maps are functions on the labels   *)
(* they hold.  An operation gives a status and, when it is OK, its result; *)
(* statuses are tested in the order of the source.  Allocations succeed.   *)
(***************************************************************************)
EXTENDS KeyStore, FiniteSetsExt, SequencesExt

NoEntity == [alg |-> "RESERVED", kid |-> NoKid]
Failed(st) == [st |-> st]

(* The status of a chain of steps each taken only if the ones before it    *)
(* went well.                                                              *)
FirstError(sts) ==
    LET bad == {i \in DOMAIN sts : sts[i] # "OK"}
    IN  IF bad = {} THEN "OK" ELSE sts[Min(bad)]

-----------------------------------------------------------------------------
(* The primitives.                                                         *)

Encrypt_GCM(key, nonce, aad, plain) ==
    [key |-> key, nonce |-> nonce, aad |-> aad, plain |-> plain, intact |-> TRUE]
Decrypt_GCM(key, nonce, aad, ct) ==
    IF ct.intact /\ ct.key = key /\ ct.nonce = nonce /\ ct.aad = aad THEN "OK" ELSE "INVALID"

KeyWrap(cek, kek) == [cek |-> cek, kek |-> kek]
KeyUnwrap(kw, kek) == IF kw.kek = kek THEN "OK" ELSE "INVALID"

(* Both ends of ECDH compute the same secret, on one curve, from a public  *)
(* and a private key; a certificate without its private key has none.      *)
ECDH(curve, public, own) ==
    <<"secret", curve, {public.key, IF own.priv THEN own.key ELSE <<"none", 0>>}>>
HKDF_SHA256(secret, context) == <<"kek", secret, context, 0>>
EncodeKDFContext(alg) == <<"A256KW", alg>>

Sign_ECDSA(key, over) ==
    [by |-> IF key.priv THEN key.key ELSE <<"none", 0>>, over |-> over]
Verify_ECDSA(key, over, sig) ==
    IF sig.by = key.key /\ sig.over = over THEN "OK" ELSE "INVALID"

-----------------------------------------------------------------------------
(* Headers.                                                                *)

SetCryptoParams(alg) == IF alg = "A256GCM" THEN "OK" ELSE "NOT_IMPLEMENTED"

EncodeProtectedMap(alg) == [ALG |-> alg]
DecodeProtectedMap(map) ==
    CASE DOMAIN map = {} -> [st |-> "OK", alg |-> "RESERVED"]
      [] DOMAIN map = {"ALG"} -> [st |-> "OK", alg |-> map["ALG"]]
      [] OTHER -> [st |-> "INVALID", alg |-> "RESERVED"]

EncodeUnprotectedMap(kid, nonce, sigs) ==
    LET labels == (IF kid = NoKid THEN {} ELSE {"KID"}) \cup (IF nonce = <<>> THEN {} ELSE {"IV"})
                  \cup (IF sigs = {} THEN {} ELSE {"COUNTER_SIGNATURE"})
    IN  [l \in labels |-> CASE l = "KID" -> kid [] l = "IV" -> nonce
                            [] l = "COUNTER_SIGNATURE" -> CHOOSE s \in sigs : TRUE]

(* An ephemeral key is of type EC2, on a curve that is known, with both    *)
(* coordinates of that curve's length; key types and labels are checked    *)
(* one by one.                                                             *)
DecodeKey(key) ==
    CASE key.type # "EC" -> "INVALID"
      [] key.type = "EC" /\ key.curve \notin Curves -> "NOT_IMPLEMENTED"
      [] OTHER -> "OK"

(* A label the caller gives no place for is refused. *)
DecodeUnprotectedMap(map, wanted) ==
    IF ~(DOMAIN map \subseteq wanted) THEN "INVALID"
    ELSE IF "COUNTER_SIGNATURE" \in DOMAIN map
         THEN LET sig == map["COUNTER_SIGNATURE"]
                  alg == DecodeProtectedMap(sig.prot)
              IN  IF alg.st # "OK" \/ alg.alg = "RESERVED" \/ ~(DOMAIN sig.unprot \subseteq {"KID"})
                  THEN "INVALID" ELSE "OK"
         ELSE IF "EPHEMERAL_KEY" \in DOMAIN map THEN DecodeKey(map["EPHEMERAL_KEY"]) ELSE "OK"
KidOf(map, kid) == IF "KID" \in DOMAIN map THEN map["KID"] ELSE kid

(* What is authenticated with a payload, and what is signed of it.         *)
EncodeAADBug(tag, alg, aad) == <<tag, EncodeProtectedMap(alg)>>
EncodeAAD(tag, alg, aad) == <<tag, EncodeProtectedMap(alg), aad>>
EncodeSig(tag, alg, sigAlg, aad, payload) ==
    <<IF tag = "SIGN1" THEN "Signature1" ELSE "CounterSignature", EncodeProtectedMap(alg),
      IF tag = "SIGN1" THEN <<>> ELSE EncodeProtectedMap(sigAlg), aad, payload>>

-----------------------------------------------------------------------------
(* Keys.                                                                   *)

GetKey(store, kid, type) == CoseKey(KeyHandler(store, kid), type)

(* GetEphemeralKey, by the number of the message and the recipient's.      *)
ContentKey(id) == Symmetric(<<"cek", id>>)
EphemeralKey(id, i, curve) == EC(<<"ephemeral", id, i>>, curve)

GetSignatureKey(store, alg, kid) ==
    LET got == GetKey(store, kid, "EC")
    IN  CASE alg \notin {"ES384", "ES512"} -> [got EXCEPT !.st = "NOT_IMPLEMENTED"]
          [] alg \in {"ES384", "ES512"} /\ got.st # "OK" -> got
          [] OTHER -> IF SignatureAlg(got.key.curve) = alg THEN got
                      ELSE [got EXCEPT !.st = "INVALID"]

-----------------------------------------------------------------------------
(* COSE_Encrypt.                                                           *)

EncodeRecipient(alg, kid, ephemeral, content) ==
    [prot |-> IF alg = "ECDH_ES_A256KW" THEN EncodeProtectedMap(alg) ELSE <<>>,
     unprot |-> IF alg = "ECDH_ES_A256KW" THEN [KID |-> kid, EPHEMERAL_KEY |-> ephemeral]
                ELSE [KID |-> kid, ALG |-> alg],
     content |-> content]

(* The content encryption key: the recipient's own, or a fresh one. *)
EncryptKey(store, recipients, id) ==
    CASE recipients[1].alg \in {"RESERVED", "DIRECT"} ->
             IF Len(recipients) > 1 THEN [st |-> "ARGS", key |-> NullKey]
             ELSE GetKey(store, recipients[1].kid, "SYMMETRIC")
      [] recipients[1].alg \in {"A256KW", "ECDH_ES_A256KW"} -> [st |-> "OK", key |-> ContentKey(id)]
      [] OTHER -> [st |-> "NOT_IMPLEMENTED", key |-> NullKey]

(* The i-th recipient's entry. An ephemeral key serves the recipients      *)
(* after it until one is on another curve.                                 *)
RecipientEntry(store, recipients, cek, id, i) ==
    LET r == recipients[i]
        got == GetKey(store, r.kid, IF r.alg = "A256KW" THEN "SYMMETRIC" ELSE "EC")
        Curve(j) == GetKey(store, recipients[j].kid, "EC").key.curve
        ephemeral == EphemeralKey(id, Max({j \in 1 .. i : j = 1 \/ Curve(j) # Curve(j - 1)}),
                                  got.key.curve)
        kek == HKDF_SHA256(ECDH(got.key.curve, got.key, ephemeral), EncodeKDFContext(r.alg))
    IN  CASE r.alg = "DIRECT" -> [st |-> "OK", entry |-> EncodeRecipient(r.alg, r.kid, NullKey, <<>>)]
          [] r.alg = "A256KW" ->
                 [st |-> got.st,
                  entry |-> EncodeRecipient(r.alg, r.kid, NullKey, KeyWrap(cek, got.key.key))]
          [] r.alg = "ECDH_ES_A256KW" ->
                 [st |-> got.st,
                  entry |-> EncodeRecipient(r.alg, r.kid, [ephemeral EXCEPT !.priv = FALSE],
                                            KeyWrap(cek, kek))]

(* The header's signature over the encrypted content. *)
CounterSign(signer, key, tag, alg, ct) ==
    [prot |-> EncodeProtectedMap(signer.alg), unprot |-> EncodeUnprotectedMap(signer.kid, <<>>, {}),
     sig |-> Sign_ECDSA(key, EncodeSig(tag, alg, signer.alg, <<>>, ct))]

Encrypt(store, alg, nonce, signer, recipients, aad, payload, id) ==
    LET tag == IF Len(recipients) = 1 /\ recipients[1].alg = "RESERVED" THEN "ENCRYPT0" ELSE "ENCRYPT"
        signed == signer.alg # "RESERVED"
        sigKey == GetSignatureKey(store, signer.alg, signer.kid)
        cek == EncryptKey(store, recipients, id)
        ct == Encrypt_GCM(cek.key.key, nonce, EncodeAAD(tag, alg, aad), payload)
        rs == IF tag = "ENCRYPT0" THEN <<>>
              ELSE [i \in DOMAIN recipients |-> RecipientEntry(store, recipients, cek.key.key, id, i)]
        st == FirstError(<<SetCryptoParams(alg), IF signed THEN sigKey.st ELSE "OK", cek.st>>
                         \o [i \in DOMAIN rs |-> rs[i].st])
    IN  CASE recipients = <<>> \/ (\E r \in ToSet(recipients) : r.alg # recipients[1].alg) -> Failed("ARGS")
          [] OTHER ->
             IF st # "OK" THEN Failed(st)
             ELSE [st |-> "OK",
                   msg |-> [tag |-> tag, prot |-> EncodeProtectedMap(alg),
                            unprot |-> EncodeUnprotectedMap(NoKid, nonce,
                                         IF signed THEN {CounterSign(signer, sigKey.key, tag, alg, ct)} ELSE {}),
                            content |-> ct, recipients |-> [i \in DOMAIN rs |-> rs[i].entry]]]

-----------------------------------------------------------------------------
(* COSE_Decrypt.                                                           *)

(* VerifySignature: the signer, or nobody when it cannot be verified. *)
VerifySignature(store, tag, alg, sig, aad, content) ==
    LET sigAlg == DecodeProtectedMap(sig.prot).alg
        kid == KidOf(sig.unprot, NoKid)
        got == GetSignatureKey(store, sigAlg, kid)
    IN  IF got.st = "OK"
           /\ Verify_ECDSA(got.key, EncodeSig(tag, alg, sigAlg, aad, content), sig.sig) = "OK"
        THEN [alg |-> sigAlg, kid |-> kid] ELSE NoEntity

DecodeRecipient(r, before) ==
    LET prot == DecodeProtectedMap(r.prot)
        st == FirstError(<<prot.st, DecodeUnprotectedMap(r.unprot, {"ALG", "KID", "EPHEMERAL_KEY"})>>)
    IN  [st |-> st, recipient |-> [alg |-> IF "ALG" \in DOMAIN r.unprot THEN r.unprot["ALG"] ELSE prot.alg,
                                   kid |-> KidOf(r.unprot, before.kid)]]

(* The content encryption key as one recipient's entry gives it. *)
DecryptKey(store, r, recipient) ==
    LET got == GetKey(store, recipient.kid, IF recipient.alg = "ECDH_ES_A256KW" THEN "EC" ELSE "SYMMETRIC")
        ephemeral == r.unprot["EPHEMERAL_KEY"]
        kek == IF recipient.alg = "A256KW" THEN got.key.key
               ELSE HKDF_SHA256(ECDH(ephemeral.curve, ephemeral, got.key), EncodeKDFContext(recipient.alg))
    IN  CASE recipient.alg \in {"RESERVED", "DIRECT"} -> [st |-> got.st, key |-> got.key.key]
          [] recipient.alg \in {"A256KW", "ECDH_ES_A256KW"} ->
                 IF got.st # "OK" THEN [st |-> got.st, key |-> <<>>]
                 ELSE [st |-> KeyUnwrap(r.content, kek), key |-> r.content.cek]
          [] OTHER -> [st |-> "NOT_IMPLEMENTED", key |-> <<>>]

(* One turn of the loop over the recipients: on until one decrypts; an     *)
(* entry that cannot be decoded ends it.                                   *)
TryRecipient(store, msg, aad, state, r) ==
    LET decoded == DecodeRecipient(r, state.recipient)
        key == DecryptKey(store, r, decoded.recipient)
        st == FirstError(<<key.st, Decrypt_GCM(key.key, msg.unprot["IV"], aad, msg.content)>>)
    IN  CASE state.over -> state
          [] ~state.over /\ decoded.st # "OK" -> [state EXCEPT !.st = decoded.st, !.over = TRUE]
          [] OTHER -> [st |-> st, over |-> st = "OK", recipient |-> decoded.recipient]

Decrypt(store, recipient, aad, msg) ==
    LET entries == IF msg.tag = "ENCRYPT" THEN msg.recipients
                   ELSE <<EncodeRecipient("RESERVED", recipient.kid, NullKey, <<>>)>>
        prot == DecodeProtectedMap(msg.prot)
        st == FirstError(<<IF prot.st # "OK" \/ prot.alg = "RESERVED" THEN "INVALID" ELSE "OK",
                           SetCryptoParams(prot.alg),
                           DecodeUnprotectedMap(msg.unprot, {"IV", "COUNTER_SIGNATURE"})>>)
        end == FoldLeft(LAMBDA s, r : TryRecipient(store, msg, EncodeAAD(msg.tag, prot.alg, aad), s, r),
                        [st |-> "OK", over |-> FALSE, recipient |-> recipient], entries)
    IN  CASE msg.tag \notin {"ENCRYPT", "ENCRYPT0"} -> Failed("NOT_COSE")
          [] OTHER ->
             IF st # "OK" THEN Failed(st)
             ELSE IF end.st # "OK" THEN Failed(end.st)
             ELSE [st |-> "OK", recipient |-> end.recipient,
                   plain |-> IF end.over THEN msg.content.plain ELSE <<>>,
                   signer |-> IF "COUNTER_SIGNATURE" \in DOMAIN msg.unprot
                              THEN VerifySignature(store, msg.tag, prot.alg, msg.unprot["COUNTER_SIGNATURE"],
                                                   <<>>, msg.content)
                              ELSE NoEntity]

(* The counter signature is verified before the recipients are tried: who  *)
(* signed is known also when the content cannot be decrypted.              *)
SignerLeft(store, msg) ==
    LET prot == DecodeProtectedMap(msg.prot)
    IN  IF /\ msg.tag \in {"ENCRYPT", "ENCRYPT0"}
           /\ prot.st = "OK" /\ SetCryptoParams(prot.alg) = "OK"
           /\ DecodeUnprotectedMap(msg.unprot, {"IV", "COUNTER_SIGNATURE"}) = "OK"
           /\ "COUNTER_SIGNATURE" \in DOMAIN msg.unprot
        THEN VerifySignature(store, msg.tag, prot.alg, msg.unprot["COUNTER_SIGNATURE"], <<>>, msg.content)
        ELSE NoEntity

-----------------------------------------------------------------------------
(* COSE_Sign and COSE_Verify.  The verification says who signed, or nobody,*)
(* and hands on the content either way.                                    *)

Sign(store, signer, aad, payload) ==
    LET got == GetSignatureKey(store, signer.alg, signer.kid)
    IN  IF got.st # "OK" THEN Failed(got.st)
        ELSE [st |-> "OK",
              msg |-> [tag |-> "SIGN1", prot |-> EncodeProtectedMap(signer.alg),
                       unprot |-> EncodeUnprotectedMap(signer.kid, <<>>, {}), content |-> payload,
                       sig |-> Sign_ECDSA(got.key, EncodeSig("SIGN1", signer.alg, signer.alg, aad, payload))]]

Verify(store, aad, msg) ==
    LET prot == DecodeProtectedMap(msg.prot)
        st == FirstError(<<prot.st, DecodeUnprotectedMap(msg.unprot, {"KID"})>>)
    IN  CASE msg.tag # "SIGN1" -> Failed("NOT_COSE")
          [] OTHER ->
             IF st # "OK" THEN Failed(st)
             ELSE [st |-> "OK", plain |-> msg.content, recipient |-> NoEntity,
                   signer |-> VerifySignature(store, "SIGN1", prot.alg, msg, aad, msg.content)]
=============================================================================
