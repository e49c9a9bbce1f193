------------------------------ MODULE KeyStore ------------------------------
(***************************************************************************)
(* The memory key store (src/src/keystore.c) and what its users take from  *)
(* it.  A key store is a record; every operation of the source is an       *)
(* operator that gives the store after it and a status.  A key is          *)
(* [type, key, curve, priv]: of a symmetric key, key names the bytes; of a *)
(* certificate, the key pair, and priv says whether the private key came   *)
(* with it.                                                                *)
(***************************************************************************)
EXTENDS Integers, Sequences

NoKid == "no_kid"
Curves == {"P384", "P521"}        \* the ones ec.c computes with

Symmetric(k) == [type |-> "SYMMETRIC", key |-> k, curve |-> "RESERVED", priv |-> FALSE]
Cert(pair, curve, priv) == [type |-> "EC_CERT", key |-> pair, curve |-> curve, priv |-> priv]
EC(pair, curve) == [type |-> "EC", key |-> pair, curve |-> curve, priv |-> TRUE]

(* No bytes, and bytes of a length no cipher takes. *)
NullKey == Symmetric(<<"null", 0>>)
ShortKey == Symmetric(<<"short", 0>>)

(* DPS_CreateMemoryKeyStore. sound turns false where the code frees what   *)
(* is not a pointer.                                                       *)
EmptyStore == [entries |-> <<>>, networkId |-> NoKid, networkKey |-> NullKey,
               ca |-> FALSE, sound |-> TRUE]

Done(store, st) == [store |-> store, st |-> st]

(* MemoryKeyStoreLookup; identifiers are compared by SameKeyId. *)
Lookup(store, kid) == {i \in DOMAIN store.entries : store.entries[i].kid = kid}

(* MemoryKeyStoreKeyHandler: an entry hides a network key of the same id,  *)
(* also one whose key was taken away.                                      *)
KeyHandler(store, kid) ==
    LET found == Lookup(store, kid)
    IN  CASE found # {} -> [st |-> "OK", key |-> store.entries[CHOOSE i \in found : TRUE].key]
          [] found = {} /\ kid = store.networkId /\ kid # NoKid ->
                 [st |-> "OK", key |-> store.networkKey]
          [] OTHER -> [st |-> "MISSING", key |-> NullKey]

(* A new entry; MemoryKeyStoreGrow makes room for it. *)
Add(store, kid, key) ==
    [store EXCEPT !.entries = Append(@, [kid |-> kid, key |-> key])]

Replace(store, kid, key) ==
    [store EXCEPT !.entries = [i \in DOMAIN @ |-> IF @[i].kid = kid THEN [@[i] EXCEPT !.key = key]
                                                  ELSE @[i]]]

(* DPS_SetContentKey; NullKey stands for no key. An entry keeps its type   *)
(* (MemoryKeyStoreSetKey), and a key that is not there is not removed.     *)
SetContentKey(store, kid, key) ==
    LET found == Lookup(store, kid)
        held == store.entries[CHOOSE i \in found : TRUE].key
    IN  CASE found # {} ->
                 IF held.type # "SYMMETRIC" \/ key.type # "SYMMETRIC" THEN Done(store, "RESOURCES")
                 ELSE Done(Replace(store, kid, key), "OK")
          [] found = {} /\ key = NullKey -> Done(store, "OK")
          [] OTHER -> IF key.type # "SYMMETRIC" THEN Done(store, "RESOURCES")
                      ELSE Done(Add(store, kid, key), "OK")

(* DPS_SetNetworkKey. *)
SetNetworkKey(store, kid, key) ==
    IF kid = NoKid \/ key.type # "SYMMETRIC" THEN Done(store, "INVALID")
    ELSE Done([store EXCEPT !.networkId = kid, !.networkKey = key], "OK")

(* DPS_SetCertificate, by the common name of the certificate. In place of  *)
(* a symmetric key MemoryKeyStoreSetCertificate frees the length of it.    *)
SetCertificate(store, kid, cert) ==
    LET found == Lookup(store, kid)
        held == store.entries[CHOOSE i \in found : TRUE].key
    IN  IF found = {} THEN Done(Add(store, kid, cert), "OK")
        ELSE Done([Replace(store, kid, cert) EXCEPT
                      !.sound = held.type # "SYMMETRIC" \/ held = NullKey], "OK")

(* DPS_SetTrustedCA. *)
SetTrustedCA(store) == Done([store EXCEPT !.ca = TRUE], "OK")

-----------------------------------------------------------------------------
(* What a user of the store does with the key it is handed.                *)

(* SetKey of cose.c: the key has the type asked for and can be used.       *)
CoseKey(got, type) ==
    LET fits == IF got.key.type = "SYMMETRIC"
                THEN type = "SYMMETRIC" /\ got.key \notin {NullKey, ShortKey}
                ELSE type = "EC" /\ (got.key.type = "EC" => got.key.curve \in Curves)
    IN  CASE got.st = "OK" /\ ~fits -> [got EXCEPT !.st = "MISSING"]
          [] got.st = "OK" /\ fits /\ got.key.type = "EC_CERT" /\ got.key.curve \notin Curves ->
                 [got EXCEPT !.st = "INVALID"]
          [] OTHER -> got

(* SetKey and GetRecipientAlgorithm of pub.c. *)
RecipientAlgorithm(store, kid) ==
    LET got == KeyHandler(store, kid)
    IN  IF got.st # "OK" THEN [st |-> got.st, alg |-> "RESERVED"]
        ELSE [st |-> "OK", alg |-> IF got.key.type = "SYMMETRIC" THEN "A256KW" ELSE "ECDH_ES_A256KW"]

SignatureAlg(curve) ==
    CASE curve = "P384" -> "ES384" [] curve = "P521" -> "ES512" [] OTHER -> "RESERVED"

(* SetCurve and GetSignatureAlgorithm of dps.c: how a node signs.          *)
SignatureAlgorithm(store, kid) ==
    LET got == KeyHandler(store, kid)
    IN  IF got.st # "OK" \/ ~got.key.priv THEN "RESERVED"
        ELSE SignatureAlg(got.key.curve)
=============================================================================
