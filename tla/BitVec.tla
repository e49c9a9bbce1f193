------------------------------- MODULE BitVec -------------------------------
(*******************************************************************************)
(* src/src/bitvec.c: Bloom filters, their fuzzy hashes and their wire format.  *)
(* A DPS_BitVector of BitLen bits is the set of the bits that are set; its     *)
(* cached popCount is left out, a value of it that is not -1 being the size of *)
(* the set.  Hashes gives the bits that a string sets (DPS_Sha2, numHashes of  *)
(* its words).                                                                 *)
(*******************************************************************************)
EXTENDS Cbor

CONSTANTS BitLen,        \* config.bitLen
          Hashes(_)      \* string -> subset of 0 .. BitLen - 1

ASSUME BitLenAssumption == BitLen \in Nat /\ BitLen > 0 /\ BitLen % 64 = 0

BitVectors == SUBSET (0 .. BitLen - 1)
Complement(bv) == (0 .. BitLen - 1) \ bv
PopCount(bv) == Cardinality(bv)
\* DPS_BitVectorIncludes: nothing is included in a filter without bits.
Includes(bv1, bv2) == bv1 # {} /\ bv2 \subseteq bv1
Intersection(bv1, bv2) == bv1 \cap bv2
Union(bv1, bv2) == bv1 \cup bv2
BloomInsert(bv, str) == bv \cup Hashes(str)
BloomTest(bv, str) == Hashes(str) \subseteq bv

--------------------------------------------------------------------------------
(* DPS_BitVectorFuzzyHash: the vector squashed into 64 bits, three spreads of it and a     *)
(* bar as long as its popCount.                                                            *)

Rotl(p, r) == p \cup {(b + r) % 64 : b \in p}
Spread(p, rs) == FoldLeft(Rotl, p, rs)
FuzzyHash(bv) ==
    LET s == {b % 64 : b \in bv}
        bar == IF PopCount(bv) > 62 THEN 0 .. 63 ELSE 0 .. PopCount(bv) - 1
        word(i, p) == {64 * i + b : b \in p}
    IN  IF bv = {} THEN {}
        ELSE word(0, Spread(s, <<7, 31>>)) \cup word(1, Spread(s, <<11, 29, 37>>))
             \cup word(2, Spread(s, <<13, 17, 19, 41>>)) \cup word(3, bar)

--------------------------------------------------------------------------------
(* Run-length encoding. *)

CeilLog2(n) == CHOOSE b \in 0 .. 15 : 2 ^ b <= n /\ n < 2 ^ (b + 1)
Zeros(n) == [i \in 1 .. n |-> 0]
LittleEndian(val, n) == [i \in 1 .. n |-> (val \div 2 ^ (i - 1)) % 2]
\* A run of num0 zeros and the one behind it.
EncodeRun(num0) ==
    LET sz == CeilLog2(num0 + 1) IN Zeros(sz) \o <<1>> \o LittleEndian(num0 - (2 ^ sz - 1), sz)
\* The zeros before the i-th bit that is set, in ascending order.
Runs(bv) == LET order == [i \in 1 .. PopCount(bv) |->
                            CHOOSE b \in bv : Cardinality({c \in bv : c < b}) = i - 1]
            IN  [i \in DOMAIN order |-> order[i] - (IF i = 1 THEN 0 ELSE order[i - 1] + 1)]
RLE(bv) == FoldLeft(LAMBDA acc, n : acc \o EncodeRun(n), <<>>, Runs(bv))
\* Packed into bytes, the first bit lowest.
Pack(bits) == [i \in 1 .. (Len(bits) + 7) \div 8 |->
                 FoldLeft(LAMBDA acc, j : acc + (IF 8 * (i - 1) + j <= Len(bits)
                                                 THEN bits[8 * (i - 1) + j] * 2 ^ (j - 1) ELSE 0),
                          0, <<1, 2, 3, 4, 5, 6, 7, 8>>)]
Unpack(bytes) == [i \in 1 .. 8 * Len(bytes) |-> (bytes[(i - 1) \div 8 + 1] \div 2 ^ ((i - 1) % 8)) % 2]

\* RunLengthEncode(bv, buffer, flags) behind a head already written
RunLengthEncode(tx, bv, complement) ==
    LET bits == RLE(IF complement THEN Complement(bv) ELSE bv)
    IN  IF tx.st # "OK" \/ bv = {} THEN tx
        ELSE IF tx.space < BitLen \div 8 \/ Len(bits) > BitLen THEN Fails(tx, "OVERFLOW")
        ELSE Put(tx, Pack(bits))
\* RunLengthDecode: what is left when only zeros follow is padding.
RECURSIVE DecodeRuns(_, _, _)
DecodeRuns(bits, pos, bv) ==
    IF \A i \in DOMAIN bits : bits[i] = 0 THEN [st |-> "OK", bv |-> bv]
    ELSE LET tz == Min({i \in DOMAIN bits : bits[i] = 1}) - 1
             len == SubSeq(bits, tz + 2, IF 2 * tz + 1 > Len(bits) THEN Len(bits) ELSE 2 * tz + 1)
             num0 == FoldLeft(LAMBDA acc, i : acc + len[i] * 2 ^ (i - 1), 0, [i \in DOMAIN len |-> i])
                     + 2 ^ tz - 1
         IN  IF pos + num0 >= BitLen THEN [st |-> "INVALID", bv |-> bv]
             ELSE DecodeRuns(SubSeq(bits, 2 * tz + 2, Len(bits)), pos + num0 + 1, bv \cup {pos + num0})
RunLengthDecode(bytes) == DecodeRuns(Unpack(bytes), 0, {})

--------------------------------------------------------------------------------
(* DPS_BitVectorSerialize and DPS_BitVectorDeserialize: [flags, length, bytes]. *)

RLE_ENCODED == 1
RLE_COMPLEMENT == 2
\* The load factor, 100 times the share of bits set, decides how a vector is encoded.
Flags(bv) == IF 100 * PopCount(bv) + 1 < 30 * BitLen THEN RLE_ENCODED
             ELSE IF 100 * PopCount(bv) + 1 > 70 * BitLen THEN RLE_ENCODED + RLE_COMPLEMENT
             ELSE 0
RawBytes(bv) == Pack([i \in 1 .. BitLen |-> IF i - 1 \in bv THEN 1 ELSE 0])
SerializeHead(tx, flags) == EncodeLength(EncodeLength(tx, flags, UINT), BitLen, UINT)
SerializeRaw(tx, bv) == EncodeBytes(SerializeHead(tx, 0), RawBytes(bv))
SerializeMaxSize == SizeOfLen(Digits(3)) + 2 + 5 + SizeOfString(BitLen \div 8)

SerializeBug(tx, bv) ==
    LET array == EncodeArray(tx, 3)
        head == SerializeHead(array, Flags(bv))
        wrap == StartWrapBytes(head, BitLen \div 8)
    IN  IF Flags(bv) = 0 THEN SerializeRaw(array, bv)
        ELSE EndWrapBytes(RunLengthEncode(wrap, bv, FALSE), Len(head.out), BitLen \div 8)
\* An overflow of the space reserved falls back on the raw encoding; an overflow of the
\* run-length encoding itself is returned.
Serialize(tx, bv) ==
    LET array == EncodeArray(tx, 3)
        head == SerializeHead(array, Flags(bv))
        wrap == StartWrapBytes(head, BitLen \div 8)
    IN  IF array.st # "OK" THEN array
        ELSE IF Flags(bv) = 0 THEN SerializeRaw(array, bv)
        ELSE IF head.st # "OK" THEN head
        ELSE IF wrap.st = "OVERFLOW" THEN SerializeRaw(array, bv)
        ELSE EndWrapBytes(RunLengthEncode(wrap, bv, Flags(bv) >= RLE_COMPLEMENT), Len(head.out), BitLen \div 8)

Failed(st) == [st |-> st, bv |-> {}]
DeserializeBits(flags, g) ==
    LET d == RunLengthDecode(g.val)
    IN  IF g.st # "OK" THEN Failed(g.st)
        ELSE IF flags % 2 = RLE_ENCODED
        THEN [d EXCEPT !.bv = IF d.st = "OK" /\ (flags \div 2) % 2 = 1 THEN Complement(@) ELSE @]
        ELSE IF Len(g.val) # BitLen \div 8 THEN Failed("INVALID")
        ELSE [st |-> "OK", bv |-> {i \in 0 .. BitLen - 1 : Unpack(g.val)[i + 1] = 1}]
Deserialize(rx) ==
    LET a == DecodeArray(rx)
        f == DecodeUint(a.rest, UINT)
        l == DecodeUint(f.rest, UINT)
    IN  IF a.st # "OK" THEN Failed(a.st)
        ELSE IF a.val # <<3>> THEN Failed("INVALID")
        ELSE IF f.st # "OK" THEN Failed(f.st)
        ELSE IF l.st # "OK" THEN Failed(l.st)
        ELSE IF l.val # Digits(BitLen) THEN Failed("INVALID")
        ELSE DeserializeBits(Value(f.val), DecodeBytes(l.rest))

\* Fuzzy hashes are sent raw: DPS_BitVectorSerializeFH and DPS_BitVectorDeserializeFH.
FH_BITVECTOR_LEN == 256
SerializeFH(tx, fh) == EncodeBytes(tx, Pack([i \in 1 .. FH_BITVECTOR_LEN |-> IF i - 1 \in fh THEN 1 ELSE 0]))
DeserializeFH(rx) ==
    LET g == DecodeBytes(rx)
    IN  IF g.st # "OK" THEN Failed(g.st)
        ELSE IF Len(g.val) # FH_BITVECTOR_LEN \div 8 THEN Failed("INVALID")
        ELSE [st |-> "OK", bv |-> {i \in 0 .. FH_BITVECTOR_LEN - 1 : Unpack(g.val)[i + 1] = 1}]
================================================================================
