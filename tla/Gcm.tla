--------------------------------- MODULE Gcm ---------------------------------
(***************************************************************************)
(* How Encrypt_GCM feeds a cipher that takes whole blocks from a list of   *)
(* buffers (src/src/gcm.c).  bufs gives the lengths of the buffers; a byte *)
(* is <<b, i>>, the i-th of buffer b; (b, o) stands behind the first o     *)
(* bytes of buffer b.  The result is the updates in order: the bytes read  *)
(* for it and where its output is written.                                 *)
(***************************************************************************)
EXTENDS Integers, Sequences

BlockLen == 16

Bytes(b, o, n) == [i \in 1 .. n |-> <<b, o + i>>]
Least(x, y) == IF x < y THEN x ELSE y

(* BorrowBytes: up to a block, from as many buffers as it takes. *)
BorrowBytesBug(bufs, b, o, len) == Bytes(b, o, Least(bufs[b] - o, BlockLen))
RECURSIVE BorrowBytes(_, _, _, _)
BorrowBytes(bufs, b, o, len) ==
    LET n == Least(bufs[b] - o, BlockLen - len)
    IN  IF len + n = BlockLen \/ b = Len(bufs) THEN Bytes(b, o, n)
        ELSE Bytes(b, o, n) \o BorrowBytes(bufs, b + 1, 0, len + n)

(* ReturnBytes: back to where they were, and on from there. *)
RECURSIVE ReturnBytes(_, _, _, _)
ReturnBytes(bufs, b, o, len) ==
    LET n == Least(bufs[b] - o, len)
        full == o + n = bufs[b]
        b2 == IF full THEN b + 1 ELSE b
        o2 == IF full THEN 0 ELSE o + n
    IN  IF n = len \/ b2 > Len(bufs) THEN [to |-> Bytes(b, o, n), b |-> b2, o |-> o2]
        ELSE LET rest == ReturnBytes(bufs, b2, o2, len - n)
             IN  [rest EXCEPT !.to = Bytes(b, o, n) \o @]

(* The loop of Encrypt_GCM: the whole blocks of a buffer, then one made of *)
(* its last bytes and what is borrowed.                                    *)
RECURSIVE Updates(_, _, _)
Updates(bufs, b, o) ==
    IF b > Len(bufs) THEN <<>>
    ELSE LET len == ((bufs[b] - o) \div BlockLen) * BlockLen
             whole == [read |-> Bytes(b, o, len), to |-> Bytes(b, o, len)]
             read == BorrowBytes(bufs, b, o + len, 0)
             back == ReturnBytes(bufs, b, o + len, Len(read))
         IN  IF o + len = bufs[b] THEN <<whole>> \o Updates(bufs, b + 1, 0)
             ELSE <<whole, [read |-> read, to |-> back.to]>> \o Updates(bufs, back.b, back.o)
==============================================================================
