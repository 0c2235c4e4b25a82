------------------------------ MODULE WsFrames ------------------------------
(***************************************************************************)
(* The frame codec of the bridges (sdk/rust/src/tunnels/client/wsframe.rs):*)
(* encode_ws_frame, and decode_ws_frames on what has arrived of a stream,  *)
(* whatever the chunks it arrives in.  TunnelBridge takes frames as whole. *)
(*                                                                         *)
(* A byte is 0..Base-1.  With Base = 256 the numbers are those of the      *)
(* code: the top bit is 0x80, a length byte of 126 or 127 announces 2 or 8 *)
(* bytes of length.  The runs use a smaller Base, which makes the lengths  *)
(* at which the form changes small: Escape2 and Base * Base instead of 126 *)
(* and 65536.  An opcode is below 16, which the 4 bits that the code keeps *)
(* of the first byte hold.                                                 *)
(***************************************************************************)
EXTENDS Integers, Sequences, FiniteSets

CONSTANTS
    Base,          \* even, at least 8
    ByteXor(_, _), \* exclusive or of two bytes
    Opcodes,       \* opcodes used
    Lengths,       \* lengths of payloads
    MaskKeys,      \* keys a random draw gives
    MaxFrames,     \* bound on the frames sent
    Chunks         \* how many bytes may arrive at once

Byte    == 0..Base - 1
Top     == Base \div 2
Escape2 == Top - 2
Escape8 == Top - 1

\* v without the last k of its bytes.
Shifted(v, k) ==
    LET shifted[i \in 0..k] == IF i = 0 THEN v ELSE shifted[i - 1] \div Base
    IN  shifted[k]

ASSUME WsFramesAssumption ==
    /\ Base \in Nat /\ Base >= 8 /\ Base % 2 = 0 /\ MaxFrames \in Nat
    /\ \A a, b \in Byte : ByteXor(a, b) \in Byte /\ ByteXor(ByteXor(a, b), b) = a
    /\ Opcodes \subseteq {op \in 0..Top - 1 : op < 16} \* 4 bits of the first byte hold one
    /\ MaskKeys \subseteq [1..4 -> Byte]
    /\ Lengths \subseteq {n \in Nat : Shifted(n, 8) = 0} \* 8 bytes hold a length
    /\ Chunks \subseteq Nat \ {0}

\* Numbers of n bytes, the most significant first.
BigEndian(v, n) == [i \in 1..n |-> Shifted(v, n - i) % Base]
FromBigEndian(b) ==
    LET value[i \in 0..Len(b)] == IF i = 0 THEN 0 ELSE Base * value[i - 1] + b[i]
    IN  value[Len(b)]

\* masked ^ key, which is its own inverse
Masked(payload, key) == [i \in 1..Len(payload) |-> ByteXor(payload[i], key[((i - 1) % 4) + 1])]

Flag(b) == IF b THEN Top ELSE 0

\* Mutant: the first form is also used for the length that announces the second.
LengthBytesOffByOne(n, mask) ==
    IF n <= Escape2 THEN <<Flag(mask) + n>>
    ELSE IF n < Base * Base THEN <<Flag(mask) + Escape2>> \o BigEndian(n, 2)
    ELSE <<Flag(mask) + Escape8>> \o BigEndian(n, 8)

LengthBytes(n, mask) ==
    IF n < Escape2 THEN <<Flag(mask) + n>>
    ELSE IF n < Base * Base THEN <<Flag(mask) + Escape2>> \o BigEndian(n, 2)
    ELSE <<Flag(mask) + Escape8>> \o BigEndian(n, 8)

\* encode_ws_frame with the key it draws, of no length if it does not mask.
Encode(opcode, payload, key, fin) ==
    <<Flag(fin) + opcode>> \o LengthBytes(Len(payload), key # <<>>) \o key
        \o (IF key = <<>> THEN payload ELSE Masked(payload, key))

-----------------------------------------------------------------------------
(* Decoding.                                                               *)

\* Length of the fields behind the first two bytes.
Extended(buf) == LET n == buf[2] % Top IN IF n = Escape2 THEN 2 ELSE IF n = Escape8 THEN 8 ELSE 0
KeyLen(buf)   == IF buf[2] >= Top THEN 4 ELSE 0
HeadLen(buf)  == 2 + Extended(buf) + KeyLen(buf)

PayloadLen(buf) == IF Extended(buf) = 0 THEN buf[2] % Top
                   ELSE FromBigEndian(SubSeq(buf, 3, 2 + Extended(buf)))

\* Bytes of the frame at the head of buf: its fields are looked at when they are there.
HasFrame(buf) ==
    /\ Len(buf) >= 2
    /\ Len(buf) >= HeadLen(buf)
    /\ Len(buf) >= HeadLen(buf) + PayloadLen(buf)

FrameEnd(buf) == HeadLen(buf) + PayloadLen(buf)

FirstFrame(buf) ==
    LET start == HeadLen(buf)
        body  == SubSeq(buf, start + 1, FrameEnd(buf)) IN
    [opcode  |-> buf[1] % Top, fin |-> buf[1] >= Top,
     payload |-> IF KeyLen(buf) = 0 THEN body
                 ELSE Masked(body, SubSeq(buf, start - 3, start))]

Rest(buf) == SubSeq(buf, FrameEnd(buf) + 1, Len(buf))

\* A turn of the loop of decode_ws_frames, which ends where there is no whole frame.
Turn(d) ==
    IF HasFrame(d.left)
    THEN [frames |-> Append(d.frames, FirstFrame(d.left)), left |-> Rest(d.left)]
    ELSE d

\* The frames that are complete, and what stays in the buffer.  A frame has 2 bytes at
\* least, so the loop ends within Len(buf) turns.
Decode(buf) ==
    LET turns[n \in 0..Len(buf)] ==
            IF n = 0 THEN [frames |-> <<>>, left |-> buf] ELSE Turn(turns[n - 1])
    IN  turns[CHOOSE n \in 0..Len(buf) : ~HasFrame(turns[n].left)]

-----------------------------------------------------------------------------
VARIABLES
    sent,    \* frames sent: [opcode, fin, payload]
    ends,    \* where each ends in the stream
    stream,  \* bytes that have not arrived yet
    arrived, \* how many have
    buf,     \* the receiver's buffer
    received \* frames it has decoded

frameVars == <<sent, ends, stream, arrived, buf, received>>

FramesInit ==
    /\ sent = <<>> /\ ends = <<>> /\ stream = <<>> /\ arrived = 0
    /\ buf = <<>> /\ received = <<>>

\* A frame whose payload tells its bytes apart.
Payload(n) == [i \in 1..n |-> (i + 2 * Len(sent)) % Base]

Send ==
    /\ Len(sent) < MaxFrames
    /\ \E opcode \in Opcodes, fin \in BOOLEAN, n \in Lengths, key \in MaskKeys \cup {<<>>} :
          LET bytes == Encode(opcode, Payload(n), key, fin) IN
             /\ sent' = Append(sent, [opcode |-> opcode, fin |-> fin, payload |-> Payload(n)])
             /\ stream' = stream \o bytes
             /\ ends' = Append(ends, arrived + Len(stream) + Len(bytes))
    /\ UNCHANGED <<arrived, buf, received>>

\* A chunk arrives and is decoded.
Arrive ==
    /\ \E n \in Chunks :
          /\ n <= Len(stream)
          /\ LET decoded == Decode(buf \o SubSeq(stream, 1, n)) IN
                /\ buf' = decoded.left
                /\ received' = received \o decoded.frames
          /\ stream' = SubSeq(stream, n + 1, Len(stream))
          /\ arrived' = arrived + n
    /\ UNCHANGED <<sent, ends>>

FramesNext == Send \/ Arrive

FramesSpec == FramesInit /\ [][FramesNext]_frameVars

-----------------------------------------------------------------------------
FramesTypeOK ==
    /\ Len(sent) <= MaxFrames /\ Len(ends) = Len(sent) /\ Len(received) <= Len(sent)
    /\ \A b \in {stream, buf} : \A i \in 1..Len(b) : b[i] \in Byte
    /\ arrived \in Nat

\* The receiver has exactly the frames whose last byte has arrived, in order and as
\* they were sent: no chunk, length, mask or fragment makes it lose, hold back, invent
\* or misread one.
DecodesWhatArrived ==
    received = SubSeq(sent, 1, Cardinality({i \in 1..Len(ends) : ends[i] <= arrived}))
=============================================================================
