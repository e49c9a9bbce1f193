------------------------------- MODULE Secured ------------------------------
(***************************************************************************)
(* Encryption and signing of publications and acknowledgements, between a  *)
(* publisher and its subscribers: what pub.c, ack.c and dps.c do around    *)
(* COSE.  The transport may deliver a message late, again, or damaged; the *)
(* application changes keys and recipients between any two steps.          *)
(***************************************************************************)
EXTENDS Cose

CONSTANTS Publisher, Subscribers,
          Identity(_),            \* the key id a node was created with, or NoKid
          Kids,                   \* the identifiers recipients are added by
          Started,                \* and the ones added before the first publication: sequences
          Stores(_),              \* the key stores a node may start with
          Rekeys(_),              \* the changes an application may make: <<"content", kid, key>>...
          MaxPublished,           \* bound: publications of the one series
          MaxChanges              \* bound: calls that change keys and recipients

Nodes == {Publisher} \cup Subscribers

ASSUME StartedAssumption == \A kids \in Started : kids \in Seq({kids[i] : i \in DOMAIN kids})
ASSUME NodesAssumption == Publisher \notin Subscribers

VARIABLES store,       \* [Nodes -> key store]
          signer,      \* [Nodes -> DPS_Node.signer]
          local,       \* the publisher has a matching subscription of its own
          recipients,  \* the publisher's DPS_Publication.recipients
          seq,         \* its sequence number
          held,        \* [Subscribers -> the publication: its number, sender and recipients]
          wire,        \* the messages in transit
          changes,     \* calls of the application so far
          handled      \* what handlers were given: history

vars == <<store, signer, local, recipients, seq, held, wire, changes, handled>>

NoPub == [seq |-> 0, sender |-> NoEntity, recipients |-> <<>>]

(* DPS_CreateNode with GetSignatureAlgorithm: an identity that cannot sign *)
(* is kept and not used.                                                   *)
CreateNode(s, kid) ==
    IF kid = NoKid THEN NoEntity ELSE [alg |-> SignatureAlgorithm(s, kid), kid |-> kid]

AddRecipient(rs, alg, kid) == Append(rs, [alg |-> alg, kid |-> kid])

(* DPS_PublicationAddSubId. *)
WithSubId(rs, s, kid) ==
    LET alg == RecipientAlgorithm(s, kid)
    IN  IF alg.st = "OK" THEN AddRecipient(rs, alg.alg, kid) ELSE rs

Init ==
    /\ store \in {f \in [Nodes -> UNION {Stores(n) : n \in Nodes}] : \A n \in Nodes : f[n] \in Stores(n)}
    /\ signer = [n \in Nodes |-> CreateNode(store[n], Identity(n))]
    /\ local \in BOOLEAN
    /\ \E kids \in Started :
           recipients = FoldLeft(LAMBDA rs, kid : WithSubId(rs, store[Publisher], kid), <<>>, kids)
    /\ seq = 0
    /\ held = [n \in Subscribers |-> NoPub]
    /\ wire = {}
    /\ changes = 0
    /\ handled = {}

-----------------------------------------------------------------------------
(* Recipients.                                                             *)

(* RemoveRecipient takes the first one with that identifier. *)
RemoveRecipient(rs, kid) ==
    LET at == {i \in DOMAIN rs : rs[i].kid = kid}
    IN  IF at = {} THEN rs ELSE RemoveAt(rs, Min(at))

AddSubId(kid) ==
    /\ changes < MaxChanges
    /\ changes' = changes + 1
    /\ recipients' = WithSubId(recipients, store[Publisher], kid)
    /\ UNCHANGED <<store, signer, local, seq, held, wire, handled>>

RemoveSubId(kid) ==
    /\ changes < MaxChanges
    /\ changes' = changes + 1
    /\ recipients' = RemoveRecipient(recipients, kid)
    /\ UNCHANGED <<store, signer, local, seq, held, wire, handled>>

(* DPS_SetContentKey, DPS_SetNetworkKey or DPS_SetCertificate. *)
Rekey(n, change) ==
    /\ changes < MaxChanges
    /\ changes' = changes + 1
    /\ store' = [store EXCEPT ![n] =
                    CASE change[1] = "content" -> SetContentKey(@, change[2], change[3]).store
                      [] change[1] = "network" -> SetNetworkKey(@, change[2], change[3]).store
                      [] change[1] = "certificate" -> SetCertificate(@, change[2], change[3]).store]
    /\ UNCHANGED <<signer, local, recipients, seq, held, wire, handled>>

-----------------------------------------------------------------------------
(* Messages.                                                               *)

(* DPS_MakeNonce: random with a key of the message's own, else counted.    *)
MakeNonce(sn, type, alg, id) ==
    IF alg \in {"RESERVED", "DIRECT"}
    THEN IF sn = 0 THEN Failed("NONCE_OVERFLOW") ELSE [st |-> "OK", nonce |-> <<sn, type>>]
    ELSE [st |-> "OK", nonce |-> <<"random", id>>]

(* The security of DPS_SerializePub and SerializeAck, for a payload with   *)
(* its additional data.                                                    *)
Serialize(n, type, sn, rs, aad, payload, id) ==
    LET nonce == MakeNonce(sn, type, rs[1].alg, id)
    IN  CASE rs # <<>> -> IF nonce.st # "OK" THEN nonce
                          ELSE Encrypt(store[n], "A256GCM", nonce.nonce, signer[n], rs, aad, payload, id)
          [] rs = <<>> /\ signer[n].alg # "RESERVED" -> Sign(store[n], signer[n], aad, payload)
          [] OTHER -> [st |-> "OK", msg |-> [tag |-> "NONE", content |-> payload]]

(* How the receiver of either reads it. *)
Deserialize(n, aad, msg, sender) ==
    CASE msg.tag \in {"ENCRYPT", "ENCRYPT0"} -> Decrypt(store[n], NoEntity, aad, msg)
      [] msg.tag = "SIGN1" -> Verify(store[n], aad, msg)
      [] OTHER -> [st |-> "OK", plain |-> msg.content, recipient |-> NoEntity, signer |-> sender]

(* DecryptAndParsePub: the acknowledgement is encrypted to the recipient   *)
(* whose symmetric key opened the publication, or to its sender.           *)
AckRecipientsBug(rs, got) ==      \* no entry when the sender is not known
    CASE got.recipient.alg \in {"DIRECT", "A256KW"} -> AddRecipient(rs, got.recipient.alg, got.recipient.kid)
      [] got.recipient.alg = "ECDH_ES_A256KW" /\ got.signer # NoEntity ->
             AddRecipient(rs, got.recipient.alg, got.signer.kid)
      [] OTHER -> rs
AckRecipients(rs, got) ==
    CASE got.recipient.alg \in {"DIRECT", "A256KW"} -> AddRecipient(rs, got.recipient.alg, got.recipient.kid)
      [] got.recipient.alg = "ECDH_ES_A256KW" -> AddRecipient(rs, got.recipient.alg, got.signer.kid)
      [] OTHER -> rs

Handle(n, type, msg, got) ==
    handled' = handled \cup {[by |-> n, type |-> type, seq |-> msg.aad.seq, data |-> got.plain,
                              sealed |-> msg.body.tag = "ENCRYPT", sender |-> got.signer]}

(* DPS_PublishBufs, and SendPubs that loops the publication back: a        *)
(* handler of the publisher's own is given what it can decrypt, and the    *)
(* recipients of its acknowledgement are the publication's.                *)
Publish ==
    LET sn == seq + 1
        aad == [type |-> "PUB", seq |-> sn]
        out == Serialize(Publisher, "PUB", sn, recipients, aad, <<"data", sn>>, <<"PUB", sn>>)
        msg == [aad |-> aad, body |-> out.msg]
        got == Deserialize(Publisher, aad, msg.body, NoEntity)
    IN  /\ seq < MaxPublished
        /\ seq' = sn
        /\ IF out.st # "OK" THEN UNCHANGED <<recipients, wire, handled>>
           ELSE /\ wire' = wire \cup {msg}
                /\ IF local /\ got.st = "OK"
                   THEN /\ recipients' = AckRecipients(recipients, got)
                        /\ Handle(Publisher, "PUB", msg, got)
                   ELSE UNCHANGED <<recipients, handled>>
        /\ UNCHANGED <<store, signer, local, held, changes>>

(* DPS_DecodePublication with DecryptAndParsePub, at a node with a matching*)
(* subscription: a retained publication is updated, its recipients with it.*)
ReceivePub(n, msg) ==
    LET got == Deserialize(n, msg.aad, msg.body, held[n].sender)
    IN  /\ msg \in wire
        /\ msg.aad.type = "PUB"
        /\ msg.aad.seq > held[n].seq
        /\ IF got.st = "OK"
           THEN /\ held' = [held EXCEPT ![n] =
                              [seq |-> msg.aad.seq, sender |-> got.signer,
                               recipients |-> AckRecipients(@.recipients, got)]]
                /\ Handle(n, "PUB", msg, got)
           ELSE /\ held' = [held EXCEPT ![n].seq = msg.aad.seq, ![n].sender = SignerLeft(store[n], msg.body)]
                /\ UNCHANGED handled
        /\ UNCHANGED <<store, signer, local, recipients, seq, wire, changes>>

(* DPS_AckPublicationBufs, of the publication or of a copy of it. *)
Acknowledge(n) ==
    LET aad == [type |-> "ACK", seq |-> held[n].seq]
        out == Serialize(n, "ACK", held[n].seq, held[n].recipients, aad, <<"ack", n, held[n].seq>>,
                         <<"ACK", n, held[n].seq>>)
        msg == [aad |-> aad, body |-> out.msg]
    IN  /\ \E h \in handled : h.by = n /\ h.seq = held[n].seq
        /\ out.st = "OK"
        /\ msg \notin wire
        /\ wire' = wire \cup {msg}
        /\ UNCHANGED <<store, signer, local, recipients, seq, held, changes, handled>>

(* DPS_DecodeAcknowledgement at the publisher. *)
ReceiveAck(msg) ==
    LET got == Deserialize(Publisher, msg.aad, msg.body, NoEntity)
    IN  /\ msg \in wire
        /\ msg.aad.type = "ACK"
        /\ msg.aad.seq <= seq
        /\ IF got.st = "OK" THEN Handle(Publisher, "ACK", msg, got) ELSE UNCHANGED handled
        /\ UNCHANGED <<store, signer, local, recipients, seq, held, wire, changes>>

(* A message is damaged on the way: a byte of the additional data, of the  *)
(* content, or of the headers.                                             *)
Damaged(msg) ==
    LET content == msg.body.content
        unprot == msg.body.unprot
        noise == IF msg.body.tag = "ENCRYPT" THEN [content EXCEPT !.intact = FALSE] ELSE <<"noise">>
        critical == [l \in DOMAIN unprot \cup {"CRIT"} |-> IF l = "CRIT" THEN 0 ELSE unprot[l]]
    IN  {[msg EXCEPT !.aad.seq = IF @ = 1 THEN 2 ELSE 1], [msg EXCEPT !.body.content = noise]}
        \cup (IF msg.body.tag = "NONE" THEN {} ELSE {[msg EXCEPT !.body.unprot = critical]})

Damage(msg) ==
    /\ msg \in wire
    /\ changes < MaxChanges
    /\ changes' = changes + 1
    /\ \E damaged \in Damaged(msg) : wire' = (wire \ {msg}) \cup {damaged}
    /\ UNCHANGED <<store, signer, local, recipients, seq, held, handled>>

Next ==
    \/ \E kid \in Kids : AddSubId(kid) \/ RemoveSubId(kid)
    \/ \E n \in Nodes : \E c \in Rekeys(n) : Rekey(n, c)
    \/ Publish
    \/ \E n \in Subscribers : Acknowledge(n) \/ \E msg \in wire : ReceivePub(n, msg)
    \/ \E msg \in wire : ReceiveAck(msg) \/ Damage(msg)

Spec == Init /\ [][Next]_vars

-----------------------------------------------------------------------------
(* A handler that is given the data of an encrypted message is given what  *)
(* was sent with that number, and one that is told a sender is told the    *)
(* one who signed, of the data it is given: whatever keys changed and was  *)
(* damaged on the way (DecryptAndParsePub, DPS_DecodeAcknowledgement).     *)
Sent(h, n) == IF h.type = "PUB" THEN n = Publisher /\ h.data = <<"data", h.seq>>
              ELSE h.data = <<"ack", n, h.seq>>
DeliveredAsSent ==
    \A h \in handled :
        /\ h.sealed => \E n \in Nodes : Sent(h, n)
        /\ h.sender # NoEntity => \E n \in Nodes : Identity(n) = h.sender.kid /\ Sent(h, n)

(* The acknowledgement of a publication that came encrypted is encrypted,  *)
(* as SerializeAck's comment has it.                                       *)
AckProtected ==
    \A m \in wire : m.aad.type = "ACK" /\ m.body.tag # "ENCRYPT" =>
        \A h \in handled : h.type = "PUB" /\ h.sealed => m.body.content # <<"ack", h.by, h.seq>>
=============================================================================
