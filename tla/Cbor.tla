-------------------------------- MODULE Cbor --------------------------------
(*******************************************************************************)
(* src/src/cbor.c: the CBOR encoder and decoder every message goes through.    *)
(*                                                                             *)
(* A receive buffer (DPS_RxBuffer) is the sequence of the bytes not yet read;  *)
(* a decoder returns [st, val, rest].  A transmit buffer (DPS_TxBuffer) is the *)
(* bytes written and the space left, [st, out, space]: an encoder applied to a *)
(* buffer whose st is not "OK" leaves it alone, which is the chain of          *)
(* `if (ret == DPS_OK)` its callers write.                                     *)
(*                                                                             *)
(* An integer is the sequence of its base-256 digits, most significant first   *)
(* and without leading zeros (0 is <<>>), so that 64-bit values are exact.     *)
(*******************************************************************************)
EXTENDS Integers, Sequences, SequencesExt, FiniteSetsExt

UINT == 0
NEG == 1
BYTES == 2
TEXT == 3
ARRAY == 4
MAP == 5
TAG == 6
SIMPLE == 7
FALSE_ == 20
TRUE_ == 21
NULL_ == 22
FLOAT == 26
DOUBLE == 27

--------------------------------------------------------------------------------
(* Digits. *)

Digits(n) == IF n = 0 THEN <<>> ELSE IF n < 256 THEN <<n>>
             ELSE IF n < 65536 THEN <<n \div 256, n % 256>>
             ELSE <<n \div 65536, (n \div 256) % 256, n % 256>>       \* up to 2^24 - 1
Value(d) == FoldLeft(LAMBDA acc, x : acc * 256 + x, 0, d)
Trim(d) == IF \A i \in DOMAIN d : d[i] = 0 THEN <<>>
           ELSE SubSeq(d, Min({i \in DOMAIN d : d[i] # 0}), Len(d))
Pad(d, n) == [i \in 1 .. n - Len(d) |-> 0] \o d
\* x < y, x > 2^(8n) - 1 and the complement of 64 bits
Below(x, y) == \/ Len(x) < Len(y)
               \/ Len(x) = Len(y) /\ \E i \in DOMAIN x :
                      x[i] < y[i] /\ \A j \in 1 .. i - 1 : x[j] = y[j]
Not64(d) == LET p == Pad(d, 8) IN Trim([i \in 1 .. 8 |-> 255 - p[i]])
TopBit(d) == Len(d) = 8 /\ d[1] >= 128

Requires(d) == CASE Len(d) = 0 \/ (Len(d) = 1 /\ d[1] < 24) -> 0
                 [] Len(d) = 1 /\ d[1] >= 24 -> 1
                 [] Len(d) = 2 -> 2
                 [] Len(d) \in 3 .. 4 -> 4
                 [] OTHER -> 8
\* CBOR_SIZEOF_LEN and _CBOR_SizeOfInt, _CBOR_SizeOfString
SizeOfLen(d) == 1 + Requires(d)
SizeOfInt(neg, d) == SizeOfLen(d)
SizeOfString(n) == n + SizeOfLen(Digits(n))

--------------------------------------------------------------------------------
(* Encoding. *)

TxBuffer(space) == [st |-> "OK", out |-> <<>>, space |-> space]
Fails(tx, st) == [tx EXCEPT !.st = st]
Put(tx, bytes) ==
    IF tx.st # "OK" THEN tx
    ELSE IF Len(bytes) > tx.space THEN Fails(tx, "OVERFLOW")
    ELSE [tx EXCEPT !.out = @ \o bytes, !.space = @ - Len(bytes)]

EncodeHeadBug(d) == CASE Requires(d) = 0 -> <<Value(d)>>
                      [] Requires(d) = 1 -> <<24>> \o d
                      [] Requires(d) = 2 -> <<25>> \o d
                      [] Requires(d) = 4 -> <<26>> \o d
                      [] OTHER -> <<27>> \o Pad(d, 8)
\* The low five bits of the first byte, and the bytes after it.
EncodeHead(d) == CASE Requires(d) = 0 -> <<Value(d)>>
                   [] Requires(d) = 1 -> <<24>> \o d
                   [] Requires(d) = 2 -> <<25>> \o d
                   [] Requires(d) = 4 -> <<26>> \o Pad(d, 4)
                   [] OTHER -> <<27>> \o Pad(d, 8)
EncodeUint(tx, d, maj) == LET h == EncodeHead(d) IN Put(tx, <<32 * maj + h[1]>> \o Tail(h))
EncodeLength(tx, n, maj) == EncodeUint(tx, Digits(n), maj)
\* An int64_t: neg says its sign, and for a negative i, d is ~i.
EncodeInt(tx, neg, d) == EncodeUint(tx, d, IF neg THEN NEG ELSE UINT)
EncodeBytes(tx, bytes) == Put(EncodeLength(tx, Len(bytes), BYTES), bytes)
EncodeString(tx, str, max) ==
    IF Len(str) > max THEN Fails(tx, "OVERFLOW") ELSE Put(EncodeLength(tx, Len(str), TEXT), str)
EncodeArray(tx, n) == EncodeLength(tx, n, ARRAY)
EncodeMap(tx, n) == EncodeLength(tx, n, MAP)
EncodeTag(tx, d) == EncodeUint(tx, d, TAG)
EncodeBoolean(tx, b) == Put(tx, <<32 * SIMPLE + (IF b THEN TRUE_ ELSE FALSE_)>>)
EncodeNull(tx) == Put(tx, <<32 * SIMPLE + NULL_>>)
EncodeFloat(tx, f) == Put(tx, <<32 * SIMPLE + FLOAT>> \o f)         \* f: its four bytes
EncodeDouble(tx, f) == Put(tx, <<32 * SIMPLE + DOUBLE>> \o f)       \* f: its eight bytes

\* CBOR_ReserveBytes: the head, and the space behind it, filled by the caller.
ReserveBytes(tx, bytes) == EncodeBytes(tx, bytes)

\* CBOR_StartWrapBytes writes the head for the length hinted and checks that the hint fits;
\* CBOR_EndWrapBytes moves what was written when the head of the actual length is longer or
\* shorter, and writes that head.  The move is checked against the space that is left behind
\* the longer head (less the head's first byte).
StartWrapBytes(tx, hint) ==
    LET h == EncodeLength(tx, hint, BYTES)
    IN  IF h.st = "OK" /\ h.space < hint THEN Fails(h, "OVERFLOW") ELSE h
EndWrapBytesBug(tx, start, hint) ==
    LET bytes == SubSeq(tx.out, start + 1 + SizeOfLen(Digits(hint)), Len(tx.out))
    IN  ReserveBytes([tx EXCEPT !.out = SubSeq(@, 1, start), !.space = @ + Len(tx.out) - start],
                     IF Requires(Digits(Len(bytes))) < Requires(Digits(hint)) THEN Front(bytes) ELSE bytes)
EndWrapBytes(tx, start, hint) ==
    LET bytes == SubSeq(tx.out, start + 1 + SizeOfLen(Digits(hint)), Len(tx.out))
        diff == Requires(Digits(Len(bytes))) - Requires(Digits(hint))
        back == [tx EXCEPT !.out = SubSeq(@, 1, start), !.space = @ + Len(tx.out) - start]
    IN  IF tx.st # "OK" THEN tx
        ELSE IF diff # 0 /\ Len(bytes) > back.space - Requires(Digits(Len(bytes)))
        THEN Fails(tx, "RESOURCES")
        ELSE ReserveBytes(back, bytes)

--------------------------------------------------------------------------------
(* Decoding. *)

Got(st, val, rest) == [st |-> st, val |-> val, rest |-> rest]
IntLength(info) == IF info < 24 THEN 1 ELSE IF info <= 27 THEN 1 + 2 ^ (info - 24) ELSE 0
Major(b) == b \div 32
Info(b) == b % 32

\* PeekUint: [st, maj, val, len], nothing is consumed.
PeekUint(rx) ==
    LET n == IntLength(Info(rx[1]))
        peek(st, val) == [st |-> st, maj |-> IF rx = <<>> THEN 0 ELSE Major(rx[1]), val |-> val,
                          len |-> IF rx = <<>> THEN 0 ELSE n]
    IN  IF rx = <<>> THEN peek("EOD", <<>>)
        ELSE IF Len(rx) < n THEN peek("EOD", <<>>)
        ELSE IF n = 0 THEN peek("INVALID", <<>>)
        ELSE peek("OK", IF n = 1 THEN Digits(Info(rx[1])) ELSE Trim(SubSeq(rx, 2, n)))
Skipped(rx, n) == SubSeq(rx, n + 1, Len(rx))
DecodeUint(rx, maj) ==
    LET p == PeekUint(rx)
    IN  IF p.st # "OK" THEN Got(p.st, <<>>, rx)
        ELSE IF p.maj # maj THEN Got("INVALID", <<>>, rx)
        ELSE Got("OK", p.val, Skipped(rx, p.len))
\* CBOR_DecodeUint8, 16 and 32
InRange(g, fits) == IF g.st = "OK" /\ ~fits THEN [g EXCEPT !.st = "RANGE"] ELSE g
DecodeUintN(rx, bytes) == LET g == DecodeUint(rx, UINT) IN InRange(g, Len(g.val) <= bytes)

\* CBOR_DecodeInt: val is [neg, d] with d the complement when negative.  A negative integer
\* is refused when its int64_t comes out positive, which leaves 2^64 - 1 (it comes out 0).
DecodeInt(rx) ==
    LET p == PeekUint(rx)
        ok == \/ p.maj = UINT /\ ~TopBit(p.val)
              \/ p.maj = NEG /\ (TopBit(p.val) => Not64(p.val) = <<>>)
        val == IF p.maj = NEG /\ TopBit(p.val) THEN [neg |-> FALSE, d |-> Not64(p.val)]
               ELSE [neg |-> p.maj = NEG, d |-> p.val]
    IN  IF p.st # "OK" THEN Got(p.st, [neg |-> FALSE, d |-> <<>>], rx)
        ELSE IF ~ok THEN Got("INVALID", val, rx)
        ELSE Got("OK", val, Skipped(rx, p.len))
\* CBOR_DecodeInt8, 16 and 32
DecodeIntN(rx, bytes) ==
    LET g == DecodeInt(rx)
    IN  InRange(g, Len(g.val.d) < bytes \/ (Len(g.val.d) = bytes /\ g.val.d[1] < 128))

\* CBOR_DecodeBytes and CBOR_DecodeString
DecodeRun(rx, maj) ==
    LET g == DecodeUint(rx, maj)
    IN  IF g.st # "OK" THEN Got(g.st, <<>>, g.rest)
        ELSE IF Below(Digits(Len(g.rest)), g.val) THEN Got("INVALID", <<>>, g.rest)
        ELSE Got("OK", SubSeq(g.rest, 1, Value(g.val)), Skipped(g.rest, Value(g.val)))
DecodeBytes(rx) == DecodeRun(rx, BYTES)
DecodeString(rx) == DecodeRun(rx, TEXT)
DecodeArray(rx) == DecodeUint(rx, ARRAY)
DecodeMap(rx) == DecodeUint(rx, MAP)
DecodeTag(rx) == DecodeUint(rx, TAG)
DecodeBoolean(rx) ==
    IF rx = <<>> THEN Got("EOD", FALSE, rx)
    ELSE IF rx[1] \notin {32 * SIMPLE + FALSE_, 32 * SIMPLE + TRUE_} THEN Got("INVALID", FALSE, Tail(rx))
    ELSE Got("OK", rx[1] % 2 = 1, Tail(rx))
DecodeUUID(rx, size) ==
    LET g == DecodeBytes(rx) IN IF g.st = "OK" /\ Len(g.val) # size THEN [g EXCEPT !.st = "INVALID"] ELSE g

\* CBOR_DecodeFloat and CBOR_DecodeDouble: a value of the head wanted is its bytes; an
\* integer is converted, and the conversion is refused when it is not exact (what a
\* precision of p bits can hold is an integer whose set bits lie within p bits).
Bits(d) == {8 * (Len(d) - i) + b : <<i, b>> \in
               {<<j, c>> \in (1 .. Len(d)) \X (0 .. 7) : (d[j] \div 2 ^ c) % 2 = 1}}
Exact(d, p) == Bits(d) = {} \/ Max(Bits(d)) - Min(Bits(d)) < p
PlusOne(d) == LET e == Pad(d, Len(d) + 1)
                  k == Max({i \in DOMAIN e : e[i] # 255})
              IN  Trim([i \in DOMAIN e |-> IF i < k THEN e[i] ELSE IF i = k THEN e[i] + 1 ELSE 0])
\* A double as a float: its exponent must fit, and the 29 low bits of its mantissa be zero.
ToFloat(g) ==
    LET b == g.val
        e == 16 * (b[1] % 128) + b[2] \div 16 - 1023
    IN  IF g.st # "OK" \/ \A i \in 1 .. 8 : b[i] = 0 THEN g
        ELSE IF e > 127 THEN [g EXCEPT !.st = "RANGE"]
        ELSE IF e < -126 \/ b[6] + b[7] + b[8] > 0 \/ b[5] % 32 > 0 THEN [g EXCEPT !.st = "LOST_PRECISION"]
        ELSE g
Raw(rx, bytes) == IF Len(rx) < 1 + bytes THEN Got("EOD", <<>>, rx)
                  ELSE Got("OK", SubSeq(rx, 2, 1 + bytes), Skipped(rx, 1 + bytes))
DecodeReal(rx, want, bits) ==
    LET g == DecodeInt(rx)
        u == DecodeUint(rx, UINT)
    IN  IF rx = <<>> THEN Got("EOD", <<>>, rx)
        ELSE IF Major(rx[1]) = SIMPLE /\ Info(rx[1]) = FLOAT THEN Raw(rx, 4)
        ELSE IF Major(rx[1]) = SIMPLE /\ Info(rx[1]) = DOUBLE
        THEN IF want = DOUBLE THEN Raw(rx, 8) ELSE ToFloat(Raw(rx, 8))
        ELSE IF Major(rx[1]) = UINT
        THEN IF u.st = "OK" /\ ~Exact(u.val, bits) THEN [u EXCEPT !.st = "LOST_PRECISION"] ELSE u
        ELSE IF Major(rx[1]) = NEG
        THEN IF g.st = "OK" /\ ~Exact(PlusOne(g.val.d), bits) THEN [g EXCEPT !.st = "LOST_PRECISION"] ELSE g
        ELSE Got("INVALID", <<>>, rx)
DecodeFloat(rx) == DecodeReal(rx, FLOAT, 24)
DecodeDouble(rx) == DecodeReal(rx, DOUBLE, 53)

\* CBOR_Peek: the head of the next value, refused when it claims more than there is.
Peek(rx) ==
    LET p == PeekUint(rx)
    IN  IF p.st = "OK" /\ p.maj \in {BYTES, TEXT, ARRAY, MAP} /\ ~Below(p.val, Digits(Len(rx)))
        THEN [p EXCEPT !.st = "INVALID"] ELSE p

\* CBOR_Skip: the bytes after the next value.  A tag is skipped alone, without the value it
\* tags; the elements of arrays and maps are skipped one by one.
RECURSIVE Skip(_), SkipMany(_, _)
SkipMany(rx, n) ==
    IF n = 0 THEN Got("OK", <<>>, rx)
    ELSE IF n > Len(rx) THEN Got("EOD", <<>>, rx)                  \* some element is missing
    ELSE LET g == Skip(rx) IN IF g.st # "OK" THEN g ELSE SkipMany(g.rest, n - 1)
SkipItems(g, n) == IF g.st # "OK" THEN g ELSE SkipMany(g.rest, n)
Times(d, k, most) == IF Len(d) > 2 THEN most ELSE k * Value(d)
Skip(rx) ==
    IF rx = <<>> THEN Got("EOD", <<>>, rx)
    ELSE CASE Major(rx[1]) \in {UINT, NEG, TAG} -> DecodeUint(rx, Major(rx[1]))
           [] Major(rx[1]) \in {BYTES, TEXT} -> DecodeRun(rx, Major(rx[1]))
           [] Major(rx[1]) = ARRAY -> SkipItems(DecodeArray(rx), Times(DecodeArray(rx).val, 1, Len(rx)))
           [] Major(rx[1]) = MAP -> SkipItems(DecodeMap(rx), Times(DecodeMap(rx).val, 2, Len(rx)))
           [] OTHER ->
                IF Info(rx[1]) \in FALSE_ .. NULL_ THEN Got("OK", <<>>, Tail(rx))
                ELSE IF Info(rx[1]) = FLOAT THEN DecodeFloat(rx)
                ELSE IF Info(rx[1]) = DOUBLE THEN DecodeDouble(rx)
                ELSE Got("INVALID", <<>>, rx)

--------------------------------------------------------------------------------
(* Maps with known keys: DPS_ParseMapInit, DPS_ParseMapNext and DPS_ParseMapDone.  needs   *)
(* and wants are the ascending keys still to be found.  key is NoKey when DPS_ParseMapNext *)
(* returns DPS_OK without having found one.                                                *)

NoKey == <<>>
ParseMapInit(rx, needs, wants) ==
    LET g == DecodeMap(rx)
    IN  [rx |-> g.rest, needs |-> needs, wants |-> wants, st |-> g.st, key |-> NoKey,
         entries |-> IF Len(g.val) > 2 THEN Len(rx) ELSE Value(g.val)]
KeyOf(g) == IF g.val.neg THEN - 1 - Value(g.val.d) ELSE Value(g.val.d)

RECURSIVE FindKey(_)
NotFound(m) == LET g == Skip(m.rx) IN FindKey([m EXCEPT !.rx = g.rest, !.st = g.st])
Wanted(m, k) ==
    LET later == SelectSeq(m.wants, LAMBDA w : w >= k)
    IN  IF later # <<>> /\ Head(later) = k THEN [m EXCEPT !.wants = Tail(later), !.key = <<k>>]
        ELSE NotFound([m EXCEPT !.wants = later])
FindKey(m) ==
    IF m.st # "OK" \/ m.entries = 0 \/ (m.needs = <<>> /\ m.wants = <<>>) THEN m
    ELSE LET g == DecodeIntN(m.rx, 4)
             k == KeyOf(g)
             n == [m EXCEPT !.entries = @ - 1, !.rx = g.rest, !.st = g.st]
         IN  IF g.st # "OK" THEN n
             ELSE IF n.needs = <<>> \/ k < Head(n.needs) THEN Wanted(n, k)
             ELSE IF k = Head(n.needs) THEN [n EXCEPT !.needs = Tail(@), !.key = <<k>>]
             ELSE [n EXCEPT !.st = "MISSING"]
MoreNeeded(m) ==
    IF m.st = "OK" /\ m.needs # <<>> /\ m.entries = 0 THEN [m EXCEPT !.st = "MISSING"] ELSE m
ParseMapNext(m) ==
    IF m.st # "OK" THEN m
    ELSE IF m.entries = 0 \/ (m.needs = <<>> /\ m.wants = <<>>) THEN [m EXCEPT !.st = "MISSING"]
    ELSE MoreNeeded(FindKey([m EXCEPT !.key = NoKey]))

RECURSIVE SkipRest(_)
SkipRest(m) ==
    IF m.st # "OK" \/ m.entries = 0 THEN m
    ELSE LET g == DecodeIntN(m.rx, 4)
             v == IF g.st = "OK" THEN Skip(g.rest) ELSE g
         IN  SkipRest([m EXCEPT !.entries = @ - 1, !.rx = v.rest, !.st = v.st])
ParseMapDoneBug(m) == [done |-> m.needs = <<>>, m |-> SkipRest(m)]
\* Whether the map is done, with the entries left behind skipped when it is.
ParseMapDone(m) ==
    IF m.needs # <<>> \/ (m.wants # <<>> /\ m.entries > 0) THEN [done |-> FALSE, m |-> m]
    ELSE IF m.entries = 0 THEN [done |-> TRUE, m |-> m]
    ELSE LET r == SkipRest([m EXCEPT !.st = "OK"]) IN [done |-> r.st = "OK", m |-> r]
================================================================================
