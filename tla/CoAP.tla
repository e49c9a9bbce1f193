-------------------------------- MODULE CoAP --------------------------------
(*******************************************************************************)
(* src/src/coap.c: the CoAP header that publications sent by multicast carry.  *)
(* An option is [id, val]; buffers are those of module Cbor.                   *)
(*******************************************************************************)
EXTENDS Cbor

EndOfOpts == 255
Version == 1
NonConfirmable == 1
UriPath == 11
ContentFormat == 12

--------------------------------------------------------------------------------
(* CoAP_Compose. *)

\* The size CoAP_Compose allocates, which it reckons apart from what it writes.
More(n) == (IF n > 13 THEN 1 ELSE 0) + (IF n > 269 THEN 1 ELSE 0)
\* optIdLast before the i-th option: it has eight bits, an option id sixteen.
LastId(opts, i) == IF i = 1 THEN 0 ELSE opts[i - 1].id % 256
OptSize(opts, i) ==
    1 + Len(opts[i].val) + More(opts[i].id - LastId(opts, i)) + More(Len(opts[i].val))
ComposeSize(opts, payloadLen) ==
    6 + FoldLeft(LAMBDA acc, i : acc + OptSize(opts, i), 0, [i \in DOMAIN opts |-> i])
      + (IF payloadLen > 0 THEN 1 ELSE 0) + 1

\* The nibble and the extra bytes that stand for a delta or a length, and what is left in
\* the variable afterwards: the code subtracts the base from it.
Short(n) == IF n < 13 THEN [nibble |-> n, more |-> <<>>, left |-> n]
            ELSE IF n < 269 THEN [nibble |-> 13, more |-> <<n - 13>>, left |-> n - 13]
            ELSE [nibble |-> 14, more |-> <<(n - 269) \div 256, (n - 269) % 256>>, left |-> n - 269]
\* One option; last is optIdLast, which is advanced by what is left of the delta.
ComposeOpt(acc, opt) ==
    LET d == Short(opt.id - acc.last)
        l == Short(Len(opt.val))
    IN  [last |-> (acc.last + d.left) % 256,
         out |-> acc.out \o <<16 * d.nibble + l.nibble>> \o d.more \o l.more \o opt.val]
Ascending(opts) == \A i \in DOMAIN opts : LastId(opts, i) <= opts[i].id
ComposeHeader(code, msgId) == <<64 * Version + 16 * NonConfirmable, code, msgId \div 256, msgId % 256>>
Compose(code, opts, payloadLen, msgId) ==
    LET acc == FoldLeft(ComposeOpt, [last |-> 0, out |-> ComposeHeader(code, msgId)], opts)
    IN  IF ~Ascending(opts) THEN [st |-> "ARGS", out |-> <<>>]
        ELSE [st |-> "OK", out |-> acc.out \o (IF payloadLen > 0 THEN <<EndOfOpts>> ELSE <<>>)]

\* CoAP_Wrap
WrapOpts(path, format) == <<[id |-> UriPath, val |-> path], [id |-> ContentFormat, val |-> format]>>
Put_ == 3                                                    \* COAP_CODE(COAP_REQUEST, COAP_PUT)
Wrap(path, format, payload, msgId) == Compose(Put_, WrapOpts(path, format), Len(payload), msgId)

--------------------------------------------------------------------------------
(* CoAP_Parse. *)

\* ParseOpt: size is 0 at the end of the options, -1 when the option is cut short.
LongForm(rx, flag, min) ==
    CASE flag < 13 -> [ok |-> TRUE, n |-> flag, rest |-> rx]
      [] flag = 13 -> IF Len(rx) < min THEN [ok |-> FALSE, n |-> 0, rest |-> rx]
                      ELSE [ok |-> TRUE, n |-> 13 + rx[1], rest |-> Tail(rx)]
      [] OTHER -> IF Len(rx) < 2 THEN [ok |-> FALSE, n |-> 0, rest |-> rx]
                  ELSE [ok |-> TRUE, n |-> 269 + 256 * rx[1] + rx[2], rest |-> Skipped(rx, 2)]
ParseOptBug(rx, prev) ==
    LET d == LongForm(Tail(rx), rx[1] \div 16, 0)
        l == LongForm(d.rest, rx[1] % 16, 1)
    IN  IF Len(rx) < 2 \/ ~d.ok \/ ~l.ok \/ Len(l.rest) < l.n THEN [size |-> -1, rest |-> rx, opt |-> <<>>]
        ELSE [size |-> 1, rest |-> Skipped(l.rest, l.n), opt |-> [id |-> prev + d.n, val |-> SubSeq(l.rest, 1, l.n)]]
ParseOpt(rx, prev) ==
    LET d == LongForm(Tail(rx), rx[1] \div 16, 0)
        l == LongForm(d.rest, rx[1] % 16, 1)
        bad == [size |-> -1, rest |-> rx, opt |-> <<>>]
    IN  IF Len(rx) < 2 THEN bad
        ELSE IF rx[1] \div 16 = 15 \/ rx[1] % 16 = 15 THEN [bad EXCEPT !.size = 0]
        ELSE IF ~d.ok \/ ~l.ok \/ Len(l.rest) < l.n THEN bad
        ELSE [size |-> Len(rx) - Len(l.rest) + l.n, rest |-> Skipped(l.rest, l.n),
              opt |-> [id |-> prev + d.n, val |-> SubSeq(l.rest, 1, l.n)]]

\* One pass over the options: until the buffer is empty, the marker or an error.
RECURSIVE ParseOpts(_, _, _, _)
ParseOpts(rx, prev, keep, opts) ==
    IF rx = <<>> THEN [st |-> "OK", rest |-> rx, opts |-> opts]
    ELSE LET o == ParseOpt(rx, prev)
         IN  IF o.size = 0 THEN [st |-> "OK", rest |-> rx, opts |-> opts]
             ELSE IF o.size < 0 THEN [st |-> "INVALID", rest |-> rx, opts |-> opts]
             ELSE ParseOpts(o.rest, IF keep THEN o.opt.id ELSE 0, keep, Append(opts, o.opt))

\* The options are counted in a first pass and parsed in a second, which starts where the
\* first one stopped.  What is left in the buffer is the payload.
Parsed(st, code, opts, payload) == [st |-> st, code |-> code, opts |-> opts, payload |-> payload]
ParsePayload(rx, code, opts) ==
    IF rx = <<>> THEN Parsed("OK", code, opts, rx)
    ELSE IF Len(rx) < 2 \/ rx[1] # EndOfOpts THEN Parsed("EOD", code, opts, rx)
    ELSE Parsed("OK", code, opts, Tail(rx))
Parse(rx) ==
    IF Len(rx) < 5 THEN Parsed("RESOURCES", 0, <<>>, rx)
    ELSE LET tokenLen == rx[1] % 16
             body == Skipped(rx, 4 + tokenLen)
             count == ParseOpts(body, 0, FALSE, <<>>)
             again == ParseOpts(count.rest, 0, TRUE, <<>>)
         IN  IF Len(rx) - 4 < tokenLen \/ tokenLen > 8 THEN Parsed("INVALID", rx[2], <<>>, Skipped(rx, 4))
             ELSE IF count.st # "OK" THEN Parsed(count.st, rx[2], <<>>, count.rest)
             ELSE IF again.st # "OK" THEN Parsed(again.st, rx[2], again.opts, again.rest)
             ELSE ParsePayload(again.rest, rx[2], again.opts)
================================================================================
