------------------------------ MODULE Framing ------------------------------
(***************************************************************************)
(* How the stream transports cut a stream into messages                    *)
(* (src/src/pipe/network.c, the same code in src/src/tcp/network.c): a     *)
(* message is preceded by its length as a CBOR integer of one to five      *)
(* bytes, and the reader takes five bytes before it looks, so that it may  *)
(* already hold the first bytes of the message.  The bytes themselves      *)
(* never matter: a byte is its position in the stream, and what a buffer   *)
(* holds is an interval of positions.                                      *)
(***************************************************************************)
EXTENDS Integers, Sequences, SequencesExt, FiniteSetsExt

CONSTANTS Lengths,      \* lengths of messages; DPS sends none under 4 bytes
          MaxMessages,  \* bound: messages of the stream
          Cuts          \* how many bytes a read may deliver, besides all it can; bound:
                        \* never less than a fifth of what is left

VARIABLES sent,         \* lengths of the messages written, in order
          pos,          \* bytes read from the stream so far
          readLen,      \* bytes in lenBuf
          msgBuf,       \* the message being read: its interval of the stream
          received,     \* the messages passed up, as intervals
          failed        \* a length that cannot be decoded was met

framingVars == <<sent, pos, readLen, msgBuf, received, failed>>

NoBuf == [first |-> 0, len |-> 0, got |-> 0]

(* sizeof(lenBuf), CBOR_SIZEOF(uint32_t). *)
MIN_READ_SIZE == 5

(* Bytes CBOR_EncodeUint32 takes for the length n. *)
HeadSize(n) == CASE n < 24 -> 1 [] n >= 24 /\ n < 256 -> 2
                 [] n >= 256 /\ n < 65536 -> 3 [] OTHER -> 5

(* DPS_NetSend writes the length, then the message. *)
FrameSize(n) == HeadSize(n) + n

(* The first byte of frame i of the stream. *)
FrameStart(i) == FoldLeft(LAMBDA p, n : p + FrameSize(n), 0, SubSeq(sent, 1, i - 1))

(* The message whose length starts at byte p of the stream, if one does.   *)
FrameAt(p) == {i \in 1 .. Len(sent) : FrameStart(i) = p}

StreamLen == FrameStart(Len(sent) + 1)

(* AllocBuffer: the bytes the next read may deliver. *)
Room == IF msgBuf.len > 0 THEN msgBuf.len - msgBuf.got ELSE MIN_READ_SIZE - readLen

-----------------------------------------------------------------------------

(* A reader that has read nothing. *)
Fresh == pos = 0 /\ readLen = 0 /\ msgBuf = NoBuf /\ received = <<>> /\ failed = FALSE

Init == sent \in UNION {[1 .. n -> Lengths] : n \in 1 .. MaxMessages} /\ Fresh

OnLengthBug(n) ==
    LET start == pos + n - MIN_READ_SIZE
        len == sent[CHOOSE i \in FrameAt(start) : TRUE]
    IN  [first |-> start + MIN_READ_SIZE, len |-> len, got |-> 0]

(* Five bytes are there: the message starts behind its length, and the     *)
(* bytes left over are copied to its buffer.                               *)
OnLength(n) ==
    LET start == pos + n - MIN_READ_SIZE
        len == sent[CHOOSE i \in FrameAt(start) : TRUE]
    IN  [first |-> start + HeadSize(len), len |-> len,
         got |-> MIN_READ_SIZE - HeadSize(len)]

(* A message that is complete is passed up and the next length is read. *)
Progress(buf) ==
    IF buf.got = buf.len
    THEN received' = Append(received, buf) /\ msgBuf' = NoBuf /\ readLen' = 0
    ELSE received' = received /\ msgBuf' = buf /\ readLen' = MIN_READ_SIZE

(* OnData with n bytes. *)
OnData(n) ==
    /\ ~failed /\ n \in 1 .. Room
    /\ pos' = pos + n
    /\ \/ /\ msgBuf.len > 0
          /\ Progress([msgBuf EXCEPT !.got = @ + n])
          /\ UNCHANGED failed
       \/ /\ msgBuf.len = 0 /\ readLen + n < MIN_READ_SIZE
          /\ readLen' = readLen + n
          /\ UNCHANGED <<msgBuf, received, failed>>
       \/ /\ msgBuf.len = 0 /\ readLen + n = MIN_READ_SIZE
          /\ failed' = (FrameAt(pos + n - MIN_READ_SIZE) = {})
          /\ IF failed' THEN readLen' = 0 /\ UNCHANGED <<msgBuf, received>>
             ELSE Progress(OnLength(n))
    /\ UNCHANGED sent

Next ==
    LET most == Min({Room, StreamLen - pos})
    IN  most > 0 /\ \E n \in {c \in Cuts : c < most /\ most <= 5 * c} \cup {most} : OnData(n)

-----------------------------------------------------------------------------

(* FramesIntact: however the stream is cut, the messages passed up are the *)
(* messages written, whole and in order, none later than the read that     *)
(* completes it; no length is read where none was written.                 *)
FramesIntact ==
    /\ ~failed
    /\ \A i \in 1 .. Len(received) :
           /\ received[i].first = FrameStart(i) + HeadSize(sent[i])
           /\ received[i].len = sent[i]
    /\ \A i \in 1 .. Len(sent) : pos >= FrameStart(i + 1) => Len(received) >= i

=============================================================================
