------------------------------ MODULE MCCodecs ------------------------------
(*******************************************************************************)
(* The codecs on bounded inputs.  A state is a question (fam says of which     *)
(* codec, arg is its input) and, after the step of that codec, its answer.     *)
(*******************************************************************************)
EXTENDS Topics, CoAP, Json, Gcm, Addresses

CONSTANT Families               \* the codecs this run asks

VARIABLES fam, arg, out

vars == <<fam, arg, out>>

--------------------------------------------------------------------------------
(* CBOR values: [maj, d, s, sub], with d the digits of an integer, s the bytes of a        *)
(* string or the name of a simple value, sub the elements.                                 *)

Item(maj, d, s, sub) == [maj |-> maj, d |-> d, s |-> s, sub |-> sub]
B(n, x) == [i \in 1 .. n |-> x]
Boundaries == {<<>>, <<23>>, <<24>>, <<255>>, <<1, 0>>, <<255, 255>>, <<1, 0, 0>>, B(4, 255),
               <<1, 0, 0, 0, 0>>, <<127>> \o B(7, 255), <<128>> \o B(7, 0), B(8, 255)}
Ints == {Item(m, d, <<>>, <<>>) : m \in {UINT, NEG}, d \in Boundaries}
Runs_ == {Item(m, <<>>, B(n, 65), <<>>) : m \in {BYTES, TEXT}, n \in {0, 1, 23, 24, 255, 256}}
Simples == {Item(SIMPLE, Digits(i), <<>>, <<>>) : i \in {FALSE_, TRUE_, NULL_}}
           \cup {Item(SIMPLE, <<FLOAT>>, B(4, 66), <<>>), Item(SIMPLE, <<DOUBLE>>, B(8, 66), <<>>)}
Small == {Item(UINT, <<>>, <<>>, <<>>), Item(NEG, <<1, 0>>, <<>>, <<>>), Item(TEXT, <<>>, <<65>>, <<>>),
          Item(ARRAY, <<>>, <<>>, <<>>), Item(MAP, <<>>, <<>>, <<>>), Item(SIMPLE, <<NULL_>>, <<>>, <<>>)}
Nested(S) == {Item(ARRAY, <<>>, <<>>, e) : e \in {<<x>> : x \in S} \cup {<<x, y>> : x \in S, y \in S}}
             \cup {Item(MAP, <<>>, <<>>, <<x, y>>) : x \in S, y \in S}
Items == Ints \cup Runs_ \cup Simples \cup Small \cup Nested(Small)
         \cup {Item(ARRAY, <<>>, <<>>, <<x>>) : x \in Nested(Small)}
         \cup {Item(ARRAY, <<>>, <<>>, [i \in 1 .. 24 |-> Item(UINT, <<1>>, <<>>, <<>>)])}

RECURSIVE Encode(_, _)
EncodeAll(tx, items) == FoldLeft(Encode, tx, items)
Encode(tx, item) ==
    CASE item.maj \in {UINT, NEG} -> EncodeInt(tx, item.maj = NEG, item.d)
      [] item.maj = BYTES -> EncodeBytes(tx, item.s)
      [] item.maj = TEXT -> EncodeString(tx, item.s, 2048)
      [] item.maj = ARRAY -> EncodeAll(EncodeArray(tx, Len(item.sub)), item.sub)
      [] item.maj = MAP -> EncodeAll(EncodeMap(tx, Len(item.sub) \div 2), item.sub)
      [] OTHER -> IF item.d = <<NULL_>> THEN EncodeNull(tx)
                  ELSE IF item.d = <<FLOAT>> THEN EncodeFloat(tx, item.s)
                  ELSE IF item.d = <<DOUBLE>> THEN EncodeDouble(tx, item.s)
                  ELSE EncodeBoolean(tx, item.d = <<TRUE_>>)
\* The sizes the callers reserve, CBOR_SIZEOF_...
RECURSIVE SizeOf(_)
SizeOf(item) ==
    CASE item.maj \in {UINT, NEG} -> SizeOfInt(item.maj = NEG, item.d)
      [] item.maj \in {BYTES, TEXT} -> SizeOfString(Len(item.s))
      [] item.maj = SIMPLE -> 1 + Len(item.s)
      [] OTHER -> FoldLeft(LAMBDA acc, x : acc + SizeOf(x), 0, item.sub)
                  + SizeOfLen(Digits(IF item.maj = MAP THEN Len(item.sub) \div 2 ELSE Len(item.sub)))

\* The reverse, as a caller that knows the type decodes it.
RECURSIVE Decode(_, _)
DecodeAll(rx, items) ==
    FoldLeft(LAMBDA g, x : IF g.st # "OK" THEN g
                           ELSE LET h == Decode(g.rest, x) IN [h EXCEPT !.val = Append(g.val, @)],
             Got("OK", <<>>, rx), items)
Decode(rx, item) ==
    LET as(g, f(_)) == IF g.st = "OK" THEN [g EXCEPT !.val = f(@)] ELSE g
        sub(g, n) == IF g.st = "OK" /\ g.val = Digits(n) THEN as(DecodeAll(g.rest, item.sub), LAMBDA v : [item EXCEPT !.sub = v])
                     ELSE [g EXCEPT !.st = "INVALID"]
    IN  CASE item.maj \in {UINT, NEG} ->
               as(DecodeInt(rx), LAMBDA v : [item EXCEPT !.maj = IF v.neg THEN NEG ELSE UINT, !.d = v.d])
          [] item.maj = BYTES -> as(DecodeBytes(rx), LAMBDA v : [item EXCEPT !.s = v])
          [] item.maj = TEXT -> as(DecodeString(rx), LAMBDA v : [item EXCEPT !.s = v])
          [] item.maj = ARRAY -> sub(DecodeArray(rx), Len(item.sub))
          [] item.maj = MAP -> sub(DecodeMap(rx), Len(item.sub) \div 2)
          [] OTHER -> IF item.d = <<FLOAT>> THEN as(DecodeFloat(rx), LAMBDA v : [item EXCEPT !.s = v])
                      ELSE IF item.d = <<DOUBLE>> THEN as(DecodeDouble(rx), LAMBDA v : [item EXCEPT !.s = v])
                      ELSE IF item.d = <<NULL_>> THEN as(Skip(rx), LAMBDA v : item)
                      ELSE as(DecodeBoolean(rx), LAMBDA v : [item EXCEPT !.d = <<IF v THEN TRUE_ ELSE FALSE_>>])

\* What int64_t can hold, and the integers of one, two and four bytes.
Int64(item) == item.maj \in {UINT, NEG} => ~TopBit(item.d)
FitsInt(d, n) == Len(d) < n \/ (Len(d) = n /\ d[1] < 128)
TrailB == <<7, 7>>                                        \* bytes behind the value

CborAnswer(item) ==
    LET tx == Encode(TxBuffer(SizeOf(item)), item)
        short == Encode(TxBuffer(SizeOf(item) - 1), item)
        rx == tx.out \o TrailB
    IN  [st |-> tx.st, used |-> tx.space, short |-> short.st,
         back |-> Decode(rx, item), skip |-> Skip(rx),
         cut |-> {i \in {0, 1, Len(tx.out) - 1} : i < Len(tx.out) /\ Skip(SubSeq(tx.out, 1, i)).st = "OK"},
         narrow |-> IF item.maj \in {UINT, NEG}
                    THEN [n \in {1, 2, 4} |-> <<DecodeIntN(rx, n).st, DecodeUintN(rx, n).st>>] ELSE <<>>]

\* What is encoded is decoded: a value is written in exactly the bytes reserved for it, is
\* refused by a buffer one byte shorter, comes back as it was, is skipped to the byte,
\* never taken from a buffer that ends within it, and is decoded into a narrower integer
\* exactly when it fits (CBOR_Encode..., CBOR_Decode..., CBOR_Skip, CBOR_SIZEOF_...).
CborRoundTrip == fam = "cbor" /\ out # <<>> =>
    /\ out.st = "OK" /\ out.used = 0 /\ out.short = "OVERFLOW" /\ out.cut = {}
    /\ out.skip.st = "OK" /\ out.skip.rest = TrailB
    /\ Int64(arg) => out.back = Got("OK", arg, TrailB)
    /\ arg.maj \in {UINT, NEG} /\ Int64(arg) => \A n \in {1, 2, 4} :
            /\ (out.narrow[n][1] = "OK") = FitsInt(arg.d, n)
            /\ (out.narrow[n][2] = "OK") = (arg.maj = UINT /\ Len(arg.d) <= n)

--------------------------------------------------------------------------------
(* CBOR_StartWrapBytes and CBOR_EndWrapBytes: hint, what is written, the space given. *)

Wraps == {[hint |-> h, n |-> n, spare |-> e] : h \in {0, 23, 24, 256}, n \in {0, 1, 22, 23, 24, 25, 256}, e \in {0, 1, 9}}
WrapAnswer(a) ==
    LET need == SizeOfString(IF a.n > a.hint THEN a.n ELSE a.hint)
    IN  EndWrapBytes(Put(StartWrapBytes(TxBuffer(need + a.spare), a.hint), B(a.n, 5)), 0, a.hint)
\* Bytes wrapped are the bytes encoded: whatever length was hinted, what was written between
\* the two calls ends up behind a head of its own length (CBOR_EndWrapBytes).
WrapExact == fam = "wrap" /\ out # <<>> =>
    out.st = "OK" /\ out.out = EncodeBytes(TxBuffer(1000), B(arg.n, 5)).out

--------------------------------------------------------------------------------
(* Maps with known keys. *)

Keys == 1 .. 4
Maps == {[keys |-> k, needs |-> n, wants |-> w] : k \in SUBSET Keys, n \in SUBSET Keys, w \in SUBSET Keys}
Ordered(S) == SetToSortSeq(S, <)
MapBytes(keys) ==
    LET order == Ordered(keys)
        put(tx, k) == EncodeString(EncodeLength(tx, k, UINT), B(k % 2, 65), 9)
    IN  FoldLeft(put, EncodeMap(TxBuffer(100), Len(order)), order).out \o TrailB
\* The loop around DPS_ParseMapNext that every decoder of messages has: until the map is
\* done, the next key is asked for and its value decoded.
RECURSIVE ParseLoop(_, _)
ParseLoop(m, found) ==
    LET d == ParseMapDone(m)
        n == ParseMapNext(d.m)
        v == DecodeString(n.rx)
    IN  IF d.done THEN [st |-> "OK", found |-> found, rest |-> d.m.rx]
        ELSE IF n.st # "OK" THEN [st |-> n.st, found |-> found, rest |-> n.rx]
        ELSE IF n.key = NoKey THEN [st |-> "OK without a key", found |-> found, rest |-> n.rx]
        ELSE ParseLoop([n EXCEPT !.rx = v.rest, !.st = v.st], found \o n.key)
MapAnswer(a) == ParseLoop(ParseMapInit(MapBytes(a.keys), Ordered(a.needs), Ordered(a.wants)), <<>>)

\* Without an unknown key behind the last one looked for.
NoStranger(a) == \A k \in a.keys \ (a.needs \cup a.wants) : a.needs \cup a.wants = {} \/ \E x \in a.needs \cup (a.wants \cap a.keys) : k < x
\* The keys found are the ones there: a decoder gets every key it needs, the optional ones
\* that are present, in order and once, with the reading position behind the map, and fails
\* exactly when a key it needs is missing (DPS_ParseMapInit, DPS_ParseMapNext,
\* DPS_ParseMapDone).
MapKeysFound == fam = "map" /\ out # <<>> /\ arg.needs \cap arg.wants = {} /\ NoStranger(arg) =>
    IF arg.needs \subseteq arg.keys
    THEN out = [st |-> "OK", found |-> Ordered(arg.keys \cap (arg.needs \cup arg.wants)), rest |-> TrailB]
    ELSE out.st = "MISSING"

--------------------------------------------------------------------------------
(* Bloom filters on the wire. *)

Vectors == {v : v \in {{i \in 0 .. BitLen - 1 : i >= o /\ i % g \in 0 .. w - 1 /\ i < e} :
                  o \in {0, 5}, g \in {1, 2, 3, 4, 5, 9, 64}, w \in {1, 2, 3}, e \in {0, 7, 40, 64}}}
Filters == Vectors \cup {Complement(v) : v \in Vectors}
FilterAnswer(v) ==
    LET tx == Serialize(TxBuffer(SerializeMaxSize), v)
    IN  [st |-> tx.st, back |-> IF tx.st = "OK" THEN Deserialize(tx.out \o TrailB) ELSE Failed(tx.st),
         fh |-> DeserializeFH(SerializeFH(TxBuffer(SizeOfString(32)), FuzzyHash(v)).out)]
\* A filter sent is the filter received, run-length encoded, complemented or raw
\* (DPS_BitVectorSerialize, DPS_BitVectorDeserialize, RunLengthEncode, RunLengthDecode),
\* and so is its fuzzy hash (DPS_BitVectorSerializeFH, DPS_BitVectorDeserializeFH).
FilterRoundTrip == fam = "filter" /\ out # <<>> =>
    /\ out.st = "OK" => out.back = [st |-> "OK", bv |-> arg]
    /\ out.fh = [st |-> "OK", bv |-> FuzzyHash(arg)]
\* Every filter can be sent: where run-length encoding does not pay, the raw encoding is
\* used, and a buffer of DPS_BitVectorSerializeMaxSize takes it.
FilterSerializes == fam = "filter" /\ out # <<>> => out.st = "OK"

--------------------------------------------------------------------------------
(* Topics: a node publishes, a remote node has sent the interests of its subscriptions. *)

Strings(S, n) == UNION {[1 .. k -> S] : k \in 1 .. n}
PubTopics == {t \in Strings({"a", "b", "/"}, 5) : ValidTopic(t, TRUE)}
SubTopics == {t \in Strings({"a", "/", "+", "#"}, 5) : ValidTopic(t, FALSE)}
SomePubs == {<<"a">>, <<"b", "/", "a">>, <<"a", "/", "b", "/", "a">>}
SomeSubs == {<<"a">>, <<"+", "/", "a">>, <<"a", "/", "#">>}
Cases == {[pubs |-> <<p>>, subs |-> <<x>>] : p \in PubTopics, x \in SubTopics}
         \cup {[pubs |-> <<p, q>>, subs |-> <<x, y>>] : p \in SomePubs, q \in SomePubs, x \in SomeSubs, y \in SomeSubs}
\* The bits of a string: any function would do, this one spreads the ones used here.
Code == [a |-> 1, b |-> 2] @@ ("/" :> 3) @@ ("+" :> 4) @@ ("#" :> 5)
HashOf(str) == LET n == FoldLeft(LAMBDA acc, c : (7 * acc + Code[c]) % 8191, 1, str)
               IN  {n % BitLen, (n \div 64) % BitLen}

\* DPS_CallPubHandlers and SendPubs: the filter of a local subscription is included in the
\* publication's; for a remote the two are intersected and their fuzzy hash compared with
\* the needs it sent, those of a node with another subscription being no larger.
LocalCandidate(pub, sub) == Includes(pub, sub)
SentTo(pub, interests, needs) == Includes(FuzzyHash(Intersection(pub, interests)), needs)
Other == Filter(<<<<"b", "/", "b">>>>, FALSE)
TopicAnswer(a) ==
    LET pub == Filter(a.pubs, TRUE)
        sub == Filter(a.subs, FALSE)
    IN  [match |-> MatchTopicList(a.pubs, a.subs), empty |-> sub = {},
         local |-> LocalCandidate(pub, sub),
         alone |-> SentTo(pub, sub, FuzzyHash(sub)),
         shared |-> SentTo(pub, Union(sub, Other), FuzzyHash(sub) \cap FuzzyHash(Other))]

\* The reference: the segments of the two topics matched one by one.
SegmentsOf(t) == LET cut == <<0>> \o Seps(t) \o <<Len(t) + 1>>
                 IN  [i \in 1 .. Len(cut) - 1 |-> SubSeq(t, cut[i] + 1, cut[i + 1] - 1)]
SegMatch(p, x) ==
    LET final == x[Len(x)] = <<FinalWildc>>
        wild(i) == x[i] = <<InfixWildc>> \/ x[i] = p[i] \/ (i = Len(x) /\ final /\ p[i] # <<>>)
    IN  /\ IF final THEN Len(p) >= Len(x) ELSE Len(p) = Len(x)
        /\ \A i \in DOMAIN x : wild(i)
NoEmptySegment(t) == \A i \in 1 .. Len(t) - 1 : ~(IsSep(t, i) /\ IsSep(t, i + 1))
\* Topics match as their segments do: + stands for one segment and a final # for one or
\* more, and every topic of a subscription must be matched by some topic of the publication
\* (DPS_MatchTopicString, DPS_MatchTopicList).
MatchBySegments == fam = "topic" /\ out # <<>> /\ (\A i \in DOMAIN arg.pubs : NoEmptySegment(arg.pubs[i])) =>
    out.match = (\A i \in DOMAIN arg.subs : \E j \in DOMAIN arg.pubs :
                    SegMatch(SegmentsOf(arg.pubs[j]), SegmentsOf(arg.subs[i])))
\* A filter never hides a match: a publication that matches a subscription is found to be a
\* candidate by the filters alone, at the subscriber's node and, when the subscription
\* leaves a mark in its filter, at every node on the way, whatever else the remote is
\* interested in (DPS_AddTopic, DPS_BitVectorIncludes, DPS_BitVectorFuzzyHash, SendPubs).
FilterKeepsMatches == fam = "topic" /\ out # <<>> /\ out.match =>
    out.local /\ (~out.empty => out.alone /\ out.shared)
\* The same of every subscription, + and # alone included.
EveryMatchIsSent == fam = "topic" /\ out # <<>> /\ out.match => out.alone

--------------------------------------------------------------------------------
(* CoAP. *)

OptVals == {<<>>, B(8, 100), B(13, 100), B(300, 1)}
OptLists == {<<>>} \cup {<<[id |-> i, val |-> v]>> : i \in {1, 12, 13, 300}, v \in OptVals}
            \cup {<<[id |-> i, val |-> v], [id |-> i + k, val |-> <<60>>]>> : i \in {1, 11}, k \in {0, 1, 12}, v \in OptVals}
Packets == {[opts |-> o, payload |-> p, id |-> i] : o \in OptLists, p \in {<<255>>, <<255, 255, 1>>, B(20, 7)}, i \in {1, 65535}}
CoapAnswer(a) ==
    LET c == Compose(Put_, a.opts, Len(a.payload), a.id)
    IN  [c |-> c, size |-> ComposeSize(a.opts, Len(a.payload)), p |-> Parse(c.out \o a.payload)]
\* A payload wrapped is the payload unwrapped, whatever its options and its first bytes:
\* what OnMulticastReceive goes on to decode is what CoAP_Wrap was given (CoAP_Compose,
\* CoAP_Parse).
PayloadIntact == fam = "coap" /\ out # <<>> =>
    out.c.st = "OK" /\ Len(out.c.out) <= out.size /\ out.p.st = "OK" /\ out.p.payload = arg.payload

--------------------------------------------------------------------------------
(* JSON. *)

Max64 == <<127>> \o B(7, 255)          \* INT64_MAX; complemented, INT64_MIN
MCNumbers == [x \in {"0", "7", "-1", "300", "2^63-1", "2^63", "2^64-1", "-2^63"} |->
                [neg |-> x \in {"-1", "-2^63"},
                 d |-> CASE x \in {"0", "-1"} -> <<>> [] x = "7" -> <<7>> [] x = "300" -> <<1, 44>>
                         [] x \in {"2^63-1", "-2^63"} -> Max64 [] x = "2^63" -> <<128>> \o B(7, 0)
                         [] OTHER -> B(8, 255)]]
MCDoubles == [x \in {"1.500000", "0.000000"} |-> IF x = "1.500000" THEN <<63, 248>> \o B(6, 0) ELSE B(8, 0)]
Tiny == <<62, 122, 215, 242, 154, 188, 175, 72>>          \* 0.0000001
Infinite == <<127, 240>> \o B(6, 0)
Float1_5 == <<63, 192, 0, 0>>
MCPrinted == (MCDoubles["1.500000"] :> "1.500000") @@ (Float1_5 :> "1.500000") @@ (B(8, 0) :> "0.000000")
             @@ (Tiny :> "0.000000") @@ (Infinite :> "inf")
MCChars == ("a" :> 97) @@ ("b" :> 98) @@ ("," :> 44) @@ ("q" :> 34) @@ ("lf" :> 10) @@ ("nul" :> 0)
MCHexPairs == [x \in {"00", "0A"} |-> IF x = "00" THEN 0 ELSE 10]

Integer(m, d) == Item(m, d, <<>>, <<>>)
Floating(head, bytes) == Item(SIMPLE, <<head>>, bytes, <<>>)
Leaves == {Integer(UINT, <<>>), Integer(UINT, <<1, 44>>), Integer(NEG, <<>>), Integer(UINT, <<128>> \o B(7, 0)),
           Item(TEXT, <<>>, <<>>, <<>>), Item(TEXT, <<>>, <<97, 98>>, <<>>), Item(BYTES, <<>>, <<0, 10>>, <<>>),
           Item(SIMPLE, <<NULL_>>, <<>>, <<>>), Item(SIMPLE, <<TRUE_>>, <<>>, <<>>), Floating(DOUBLE, Tiny)}
Edges == {Integer(UINT, Max64), Integer(UINT, B(8, 255)), Integer(NEG, Max64), Integer(NEG, <<128>> \o B(7, 0)), Integer(NEG, B(8, 255)),
          Floating(DOUBLE, MCDoubles["1.500000"]), Floating(DOUBLE, B(8, 0)), Floating(FLOAT, Float1_5), Floating(DOUBLE, Infinite)}
         \cup {Item(TEXT, <<>>, str, <<>>) : str \in {<<97, c, 98>> : c \in {0, 10, 34}} \cup {<<44>>}}
Empties == {Item(ARRAY, <<>>, <<>>, <<>>), Item(MAP, <<>>, <<>>, <<>>)}
Name(k) == Item(TEXT, <<>>, B(k, 97), <<>>)
Containers(S, T) == {Item(ARRAY, <<>>, <<>>, <<x, y>>) : x \in S, y \in T}
                    \cup {Item(ARRAY, <<>>, <<>>, <<x>>) : x \in S}
                    \cup {Item(MAP, <<>>, <<>>, <<Name(1), x>>) : x \in S \cup T}
                    \cup {Item(MAP, <<>>, <<>>, <<Name(1), x, Name(2), y>>) : x \in S, y \in T}
Level1 == Containers(Leaves, Leaves)
Values == Leaves \cup Edges \cup Empties \cup Level1 \cup Containers(Edges, {Integer(UINT, <<7>>)}) \cup Containers(Empties, Empties)
          \cup Containers({Item(ARRAY, <<>>, <<>>, <<x>>) : x \in Leaves}, Empties \cup {Item(UINT, <<7>>, <<>>, <<>>)})
          \cup Containers(Containers({Item(UINT, <<7>>, <<>>, <<>>)}, {Item(UINT, <<>>, <<>>, <<>>)}), Empties)
JsonAnswer(a) ==
    LET bytes == Encode(TxBuffer(300), a.item).out
        json == CBOR2JSON(bytes, a.pretty)
        back == JSON2CBOR(json.out, 300)
    IN  [json |-> json, back |-> back, again |-> JSON2CBOR(CBOR2JSON(back.out, ~a.pretty).out, 300)]
\* What JSON can say: no negative integer below INT64_MIN, no infinite double, no string
\* with a quote, a line end or a NUL; and what CountItems can count: no array of empty
\* containers only, no comma in a string of an array or a map.
RECURSIVE Plain(_)
Plain(item) == /\ \A i \in DOMAIN item.sub : Plain(item.sub[i])
               /\ item.maj = ARRAY /\ item.sub # <<>> => \E i \in DOMAIN item.sub : item.sub[i] \notin Empties
               /\ item.maj = NEG => ~TopBit(item.d)
               /\ item.maj = TEXT => ToSet(item.s) \cap {0, 10, 34} = {}
               /\ \A i \in DOMAIN item.sub : item.sub[i].maj = TEXT => 44 \notin ToSet(item.sub[i].s)
               /\ item # Floating(DOUBLE, Infinite)
\* What JSON keeps of a value: an integer up to INT64_MAX, six decimals of a double.
RECURSIVE Kept(_)
Kept(item) == CASE item.maj = UINT /\ TopBit(item.d) -> Integer(UINT, Max64)
                [] item.maj = SIMPLE /\ item.s # <<>> -> Floating(DOUBLE, IF item.s = Tiny THEN B(8, 0)
                                                                    ELSE IF item.s = Float1_5 THEN MCDoubles["1.500000"]
                                                                    ELSE item.s)
                [] OTHER -> [item EXCEPT !.sub = [i \in DOMAIN item.sub |-> Kept(item.sub[i])]]
\* The same of every value.
JsonAccepts == fam = "json" /\ out # <<>> /\ out.json.st = "OK" => out.back.st = "OK"

--------------------------------------------------------------------------------
(* The buffers of an encryption. *)

BufLens == {0, 1, 15, 16, 17, 33}
BufLists == UNION {[1 .. n -> BufLens] : n \in 1 .. 4}
GcmAnswer(a) == Updates(a, 1, 0)
\* The cipher is given every byte of every buffer once and in order, in whole blocks up to
\* the last update, and its output goes where the bytes were: whatever the lengths of the
\* buffers (Encrypt_GCM, BorrowBytes, ReturnBytes).
GcmExact == fam = "gcm" /\ out # <<>> =>
    LET fed == SelectSeq(out, LAMBDA u : u.read # <<>>)
    IN  /\ FlattenSeq([i \in DOMAIN fed |-> fed[i].read]) = FlattenSeq([b \in DOMAIN arg |-> Bytes(b, 0, arg[b])])
        /\ \A i \in DOMAIN fed : fed[i].to = fed[i].read /\ (i < Len(fed) => Len(fed[i].read) % BlockLen = 0)

--------------------------------------------------------------------------------
(* Addresses. *)

MCV4 == {"127.0.0.1", "0.0.0.0", "10.0.0.1"}
MCMapped(ip) == IF ip = "10.0.0.1" THEN "::ffff:10.0.0.1" ELSE "::ffff:other"
MCV6 == {"::1", "::", "fe80::1", "::ffff:10.0.0.1"}
Texts == UNION {[1 .. n -> {"[", "]", ":", "x"}] : n \in 0 .. 5}
         \cup {NetAddrText(f, name, port) : f \in {"AF_INET", "AF_INET6"}, name \in {<<"x", "x", "x">>, <<"x", ":", "x">>},
                                            port \in {<<"x">>, <<"x", "x">>, <<"x", "x", "x">>}}
Addrs == {Address(Configured, ip, port) : ip \in MCV4 \cup MCV6, port \in {1, 2}}
AddressAsks ==
    {[kind |-> "text", text |-> t] : t \in Texts}
    \cup {[kind |-> "same", a |-> a, b |-> b, c |-> c] : a \in Addrs, b \in Addrs, c \in Addrs}
    \cup {[kind |-> "set", host |-> h, families |-> f] : h \in MCV4 \cup MCV6, f \in {{"AF_INET"}, {"AF_INET6"}, {"AF_INET", "AF_INET6"}}}
    \cup {[kind |-> "port", ep |-> [addr |-> [Address(Configured, "::1", 1) EXCEPT !.type = t], cn |-> cn], port |-> 2] :
               t \in {"DPS_UDP", Configured}, cn \in BOOLEAN}
AddressAnswer(a) ==
    CASE a.kind = "text" -> SplitAddress(a.text)
      [] a.kind = "same" -> [ab |-> SameAddr(a.a, a.b), ba |-> SameAddr(a.b, a.a), bc |-> SameAddr(a.b, a.c), ac |-> SameAddr(a.a, a.c)]
      [] a.kind = "set" -> [addr |-> SetAddress(a.host, 1, a.families),
                            loop |-> GetLoopbackAddress(Address(Configured, a.host, 1), a.families)]
      [] a.kind = "port" -> EndpointSetPort(a.ep, a.port)
Form(t, host, service) ==
    \/ t = host \o <<":">> \o service /\ ":" \notin ToSet(host) /\ (host # <<>> => host[1] # "[")
    \/ t = <<"[">> \o host \o <<"]", ":">> \o service /\ "]" \notin ToSet(host)
\* A text is split where it says, a printed address back into its host and its port, and
\* refused only when a part does not fit or brackets are misused; being the same address is
\* an equivalence, IPv4 in IPv6 included; the local and the any address are found on a
\* machine of either family; an answer goes to the transport that is built in
\* (DPS_SplitAddress, DPS_NetAddrText, DPS_CmpAddr, GetScope, DPS_EndpointSetPort).
AddressExact == fam = "address" /\ out # <<>> =>
    CASE arg.kind = "text" ->
             /\ out.st = "OK" => \/ Form(arg.text, out.host, out.service)
                                 \/ out.service = <<>> /\ arg.text \in {out.host, <<"[">> \o out.host, <<"[">> \o out.host \o <<"]">>}
             /\ out.st # "OK" => \A i \in 0 .. HostLen - 1, first \in {1, 2}, colon \in 1 .. Len(arg.text) :
                    first + i <= colon /\ Len(arg.text) - colon < ServiceLen =>
                        ~Form(arg.text, SubSeq(arg.text, first, first + i - 1), SubSeq(arg.text, colon + 1, Len(arg.text)))
      [] arg.kind = "same" -> out.ab = out.ba /\ (out.ab /\ out.bc => out.ac) /\ (arg.a = arg.b => out.ab)
      [] arg.kind = "set" -> /\ arg.host \in {"::1", "::", "127.0.0.1", "0.0.0.0"} => Family(out.addr.ip) \in arg.families
                             /\ Family(out.loop.ip) \in arg.families
      [] arg.kind = "port" -> out.addr.type = Configured

--------------------------------------------------------------------------------
Ask(f, inputs) == f \in Families /\ fam = f /\ arg \in inputs
Init == /\ out = <<>>
        /\ \/ Ask("cbor", Items) \/ Ask("wrap", Wraps) \/ Ask("map", Maps) \/ Ask("filter", Filters)
           \/ Ask("topic", Cases) \/ Ask("coap", Packets) \/ Ask("gcm", BufLists) \/ Ask("address", AddressAsks)
           \/ Ask("json", {[item |-> v, pretty |-> p] : v \in Values, p \in BOOLEAN})
Answer(f, answer(_)) == fam = f /\ out = <<>> /\ out' = answer(arg) /\ UNCHANGED <<fam, arg>>
Next == \/ Answer("cbor", CborAnswer) \/ Answer("wrap", WrapAnswer) \/ Answer("map", MapAnswer)
        \/ Answer("filter", FilterAnswer) \/ Answer("topic", TopicAnswer) \/ Answer("coap", CoapAnswer)
        \/ Answer("json", JsonAnswer) \/ Answer("gcm", GcmAnswer) \/ Answer("address", AddressAnswer)
Spec == Init /\ [][Next]_vars
================================================================================
