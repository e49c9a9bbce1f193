-------------------------------- MODULE Json --------------------------------
(*******************************************************************************)
(* src/src/json.c: conversion between JSON text and CBOR.  A text is a         *)
(* sequence of tokens: a structural character, Quote, Space, a literal, a      *)
(* number, a character of a string or a pair of hexadecimal digits.  Nothing   *)
(* is escaped: within a string every character stands for itself.  The         *)
(* character buffer CBOR is converted to is taken to be large enough.          *)
(*******************************************************************************)
EXTENDS Cbor

CONSTANTS Quote, Space, Binary,     \* "  blank  $binary
          Numbers,                  \* token -> the integer it writes, [neg, d] (-1 - d when neg)
          Doubles,                  \* token -> the eight bytes strtod makes of it
          Printed,                  \* bytes of a float or double -> what %f prints, six decimals
          Chars,                    \* token -> the byte it is within a string
          HexPairs                  \* token -> the byte two hexadecimal digits stand for

TokenOf(f, v) == CHOOSE x \in DOMAIN f : f[x] = v
JSON(st, text, tx) == [st |-> st, text |-> text, tx |-> tx]
\* The rest of the buffer after a CBOR encoder was called.
Emit(text, tx) == JSON(tx.st, text, tx)
\* Characters of a string are also blanks, or the end of what can be read, elsewhere.
Are(bytes) == {c \in DOMAIN Chars : Chars[c] \in bytes}
White == {Space} \cup Are({9, 10, 13, 32})
RECURSIVE SkipWS(_)
SkipWS(text) == IF text # <<>> /\ Head(text) \in White THEN SkipWS(Tail(text)) ELSE text

\* ExpectChar
Expect(j, c) ==
    LET text == SkipWS(j.text)
    IN  IF j.st # "OK" THEN j
        ELSE IF text = <<>> THEN [j EXCEPT !.st = "EOD", !.text = text]
        ELSE IF Head(text) # c THEN [j EXCEPT !.st = "INVALID", !.text = text]
        ELSE [j EXCEPT !.text = Tail(text)]

CountStep(acc, c) ==
    IF acc.brackets = 0 /\ acc.braces = 0 THEN acc
    ELSE CASE c = "[" -> [acc EXCEPT !.brackets = @ + 1]
           [] c = "]" -> [acc EXCEPT !.brackets = @ - 1]
           [] c = "{" -> [acc EXCEPT !.braces = @ + 1]
           [] c = "}" -> [acc EXCEPT !.braces = @ - 1]
           [] c = "," -> [acc EXCEPT !.count = IF acc.brackets + acc.braces = 1
                                                  /\ acc.brackets >= 0 /\ acc.braces >= 0 THEN @ + 1 ELSE @]
           [] OTHER -> [acc EXCEPT !.empty = @ /\ c \in White]
Counted(text) ==
    FoldLeft(CountStep, [count |-> 0, empty |-> TRUE, brackets |-> IF Head(text) = "[" THEN 1 ELSE 0,
                         braces |-> IF Head(text) = "[" THEN 0 ELSE 1], Tail(text))
CountItems(text) ==
    LET acc == Counted(text)
    IN  [st |-> IF acc.brackets = 0 /\ acc.braces = 0 THEN "OK" ELSE "INVALID",
         count |-> acc.count + (IF acc.empty THEN 0 ELSE 1)]

\* A string, up to the next quote: a line may not end within it.
ToCBORString(tx, text) ==
    LET body == Tail(text)
        end == {i \in DOMAIN body : body[i] = Quote \/ body[i] \in Are({0, 10, 13})}
        str == SubSeq(body, 1, Min(end) - 1)
    IN  IF end = {} \/ body[Min(end)] # Quote THEN JSON("INVALID", body, tx)
        ELSE Emit(Skipped(body, Min(end)),
                  Put(EncodeLength(tx, Len(str), TEXT), [i \in DOMAIN str |-> Chars[str[i]]]))
\* ToCBORBytes, behind {"$binary"
ToCBORBytes(tx, text) ==
    LET j == Expect(Expect(JSON("OK", text, tx), ":"), Quote)
        end == {i \in DOMAIN j.text : j.text[i] = Quote}
        hex == SubSeq(j.text, 1, Min(end) - 1)
    IN  IF j.st # "OK" THEN j
        ELSE IF end = {} \/ \E i \in DOMAIN hex : hex[i] \notin DOMAIN HexPairs THEN [j EXCEPT !.st = "INVALID"]
        ELSE Expect(Emit(Skipped(j.text, Min(end)), ReserveBytes(tx, [i \in DOMAIN hex |-> HexPairs[hex[i]]])), "}")
\* ToCBORNumber: what the text begins with is tried as a double when a point follows;
\* strtoll gives the least or largest int64_t for an integer that does not fit.
Saturated(d) == IF TopBit(d) THEN <<127, 255, 255, 255, 255, 255, 255, 255>> ELSE d
ToCBORNumber(tx, text) ==
    IF Head(text) \in DOMAIN Doubles THEN Emit(Tail(text), EncodeDouble(tx, Doubles[Head(text)]))
    ELSE Emit(Tail(text), EncodeInt(tx, Numbers[Head(text)].neg, Saturated(Numbers[Head(text)].d)))
\* ExpectStr: a literal ends where a separator follows.
ToCBORLiteral(tx, text) ==
    IF Len(text) > 1 /\ text[2] \notin {",", "[", "]", "{", "}"} \cup White THEN JSON("INVALID", Tail(text), tx)
    ELSE Emit(Tail(text), IF Head(text) = "null" THEN EncodeNull(tx) ELSE EncodeBoolean(tx, Head(text) = "true"))

RECURSIVE ToCBOR(_, _), Elements(_, _), Members(_, _)
Value_(j) == IF j.st # "OK" THEN j ELSE ToCBOR(j.tx, j.text)
Separated(j, n) == IF n > 1 THEN Expect(j, ",") ELSE j
Elements(j, n) == IF n = 0 \/ j.st # "OK" THEN j ELSE Elements(Separated(Value_(j), n), n - 1)
\* A key must be a quoted string, which is pushed back and converted as any value.
Key(j) == LET k == Expect(j, Quote) IN IF k.st # "OK" THEN k ELSE Value_([j EXCEPT !.text = SkipWS(@)])
Members(j, n) ==
    IF n = 0 \/ j.st # "OK" THEN j
    ELSE Members(Separated(Value_(Expect(Key(j), ":")), n), n - 1)
ToCBORArray(tx, text) ==
    LET c == CountItems(text)
    IN  IF c.st # "OK" THEN JSON(c.st, text, tx)
        ELSE Expect(Elements(Emit(Tail(text), EncodeArray(tx, c.count)), c.count), "]")
ToCBORMap(tx, text) ==
    LET c == CountItems(text)
        rest == SkipWS(Tail(text))
        binary == IsPrefix(<<Quote, Binary, Quote>>, rest)
    IN  IF c.st # "OK" THEN JSON(c.st, text, tx)
        ELSE IF binary
        THEN IF c.count = 1 THEN ToCBORBytes(tx, Skipped(rest, 3)) ELSE JSON("INVALID", rest, tx)
        ELSE Expect(Members(Emit(rest, EncodeMap(tx, c.count)), c.count), "}")
ToCBOR(tx, whole) ==
    LET text == SkipWS(whole)
    IN  IF text = <<>> THEN JSON("EOD", text, tx)
        ELSE CASE Head(text) = Quote -> ToCBORString(tx, text)
               [] Head(text) = "[" -> ToCBORArray(tx, text)
               [] Head(text) = "{" -> ToCBORMap(tx, text)
               [] Head(text) \in {"true", "false", "null"} -> ToCBORLiteral(tx, text)
               [] Head(text) \in DOMAIN Numbers \cup DOMAIN Doubles -> ToCBORNumber(tx, text)
               [] OTHER -> JSON("INVALID", text, tx)
\* DPS_JSON2CBOR: only the first value of the text is converted, and none behind a NUL; an
\* empty text is no bytes.
JSON2CBOR(whole, size) ==
    LET nuls == {i \in DOMAIN whole : whole[i] \in Are({0})}
        text == IF nuls = {} THEN whole ELSE SubSeq(whole, 1, Min(nuls) - 1)
        j == ToCBOR(TxBuffer(size), text)
    IN  IF text = <<>> THEN TxBuffer(size) ELSE [j.tx EXCEPT !.st = j.st]

--------------------------------------------------------------------------------
(* DPS_CBOR2JSON. *)

Text(st, out, rest) == [st |-> st, out |-> out, rest |-> rest]
\* Indent: a blank behind a colon, else a new line and the indentation.
Indent(out, pretty) == IF pretty THEN Append(out, Space) ELSE out
ToJSONScalar(out, g, token) == IF g.st # "OK" THEN Text(g.st, out, g.rest) ELSE Text("OK", Append(out, token), g.rest)
\* Every digit of the number: an unsigned one may be more than an int64_t holds.
IntToken(g) == IF g.st = "OK" THEN TokenOf(Numbers, g.val) ELSE Space
UintToken(g) == IF g.st = "OK" THEN TokenOf(Numbers, [neg |-> FALSE, d |-> g.val]) ELSE Space
Unquoted(val, f) == [i \in DOMAIN val |-> TokenOf(f, val[i])]
ToJSONBytes(out, g, pretty) ==
    IF g.st # "OK" THEN Text(g.st, out, g.rest)
    ELSE Text("OK", Append(Indent(Indent(Append(out, "{"), pretty)
                    \o <<Quote, Binary, Quote, ":", Quote>> \o Unquoted(g.val, HexPairs) \o <<Quote>>, pretty), "}"), g.rest)
\* The bytes of the string as they are, quotes and line ends included.
ToJSONString(out, g) ==
    IF g.st # "OK" THEN Text(g.st, out, g.rest)
    ELSE Text("OK", out \o <<Quote>> \o Unquoted(g.val, Chars) \o <<Quote>>, g.rest)

RECURSIVE ToJSON(_, _, _), ToJSONItems(_, _, _, _)
Then(t, c) == IF t.st = "OK" THEN [t EXCEPT !.out = Append(@, c)] ELSE t
Next_(t, pretty) == IF t.st = "OK" THEN ToJSON(t.out, t.rest, pretty) ELSE t
\* n items left, each a value or, in a map, a key and its value
ToJSONItems(t, n, map, pretty) ==
    IF n = 0 \/ t.st # "OK" THEN t
    ELSE LET item == IF map THEN Next_(Then(Next_(t, pretty), ":"), pretty) ELSE Next_(t, pretty)
         IN  ToJSONItems(IF n > 1 THEN Then(item, ",") ELSE item, n - 1, map, pretty)
Enclosed(out, g, map, pretty) ==
    LET t == ToJSONItems(Text("OK", Append(out, IF map THEN "{" ELSE "["), g.rest), Value(g.val), map, pretty)
    IN  IF g.st # "OK" THEN Text(g.st, out, g.rest)
        ELSE Then([t EXCEPT !.out = Indent(@, pretty)], IF map THEN "}" ELSE "]")
\* A float or double has six decimals, whatever its value.
SimpleToken(out, rx) ==
    LET simple == [i \in {FALSE_, TRUE_, NULL_} |-> IF i = FALSE_ THEN "false" ELSE IF i = TRUE_ THEN "true" ELSE "null"]
        g == DecodeDouble(rx)
    IN  IF Info(rx[1]) \in DOMAIN simple THEN ToJSONScalar(out, Skip(rx), simple[Info(rx[1])])
        ELSE IF Info(rx[1]) \in {FLOAT, DOUBLE}
        THEN ToJSONScalar(out, g, IF g.st = "OK" THEN Printed[g.val] ELSE Space)
        ELSE Text("INVALID", out, rx)
ToJSON(before, rx, pretty) ==
    LET out == Indent(before, pretty)
    IN  IF rx = <<>> THEN Text("EOD", before, rx)
        ELSE CASE Major(rx[1]) \in {UINT, TAG} -> ToJSONScalar(out, DecodeUint(rx, UINT), UintToken(DecodeUint(rx, UINT)))
               [] Major(rx[1]) = NEG -> ToJSONScalar(out, DecodeInt(rx), IntToken(DecodeInt(rx)))
               [] Major(rx[1]) = BYTES -> ToJSONBytes(out, DecodeBytes(rx), pretty)
               [] Major(rx[1]) = TEXT -> ToJSONString(out, DecodeString(rx))
               [] Major(rx[1]) = ARRAY -> Enclosed(out, DecodeArray(rx), FALSE, pretty)
               [] Major(rx[1]) = MAP -> Enclosed(out, DecodeMap(rx), TRUE, pretty)
               [] OTHER -> SimpleToken(out, rx)
CBOR2JSON(bytes, pretty) == IF bytes = <<>> THEN Text("OK", <<>>, <<>>) ELSE ToJSON(<<>>, bytes, pretty)
================================================================================
