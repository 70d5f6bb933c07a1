------------------------------- MODULE WsFrame -------------------------------
(***************************************************************************)
(* The header of a frame, byte by byte: CWsMsgParse::EncodeMsg writes the  *)
(* one of an answer, CWsMsgParse::TryDecodeLen reads the one of a frame a  *)
(* client sent.  Here one frame goes over the wire: its header is written, *)
(* by the server or by a client, and is then read by TryDecodeLen.         *)
(*                                                                         *)
(* The values of the geometry a header decodes to (payloadOffset,          *)
(* expectsize) are compared with those of WsStream, which WsMsgParse       *)
(* computes with.  Only headers are kept: payloads are copied as they are. *)
(***************************************************************************)
EXTENDS Integers, WsStream

CONSTANTS PayloadLens,  \* payload lengths of the frames
          Types         \* frame types

ASSUME PayloadLensAssumption == PayloadLens \subseteq Nat
ASSUME TypesAssumption == Types \subseteq 0 .. 15

VARIABLES sent,         \* the frame on its way, a Frame of WsStream
          header,       \* the bytes of its header
          frame,        \* what TryDecodeLen made of them, a tagWsMsgFrame
          stage         \* "idle", "encoded" or "decoded"

frameVars == <<sent, header, frame, stage>>

Byte == 0 .. 255

-----------------------------------------------------------------------------
\* The bits of n from bit 32 on.
HighWord(n) == (n \div 65536) \div 65536

\* The four bytes of the low word of n, in network order.
WordBytes(n) ==
    <<(n \div 16777216) % 256, (n \div 65536) % 256, (n \div 256) % 256, n % 256>>

\* The value of the four bytes, and of the two bytes, from position i on.
Ntohl(h, i) == h[i] * 16777216 + h[i + 1] * 65536 + h[i + 2] * 256 + h[i + 3]
Ntohs(h, i) == h[i] * 256 + h[i + 1]

\* Mutant: the second byte of a 16-bit length is written first.
LengthBytes_Swapped(n) ==
    IF n <= 125 THEN <<n>>
    ELSE IF n <= 65535 THEN <<126, n % 256, (n \div 256) % 256>>
    ELSE <<127>> \o WordBytes(HighWord(n)) \o WordBytes(n)

\* The length bytes that EncodeMsg writes.
LengthBytes(n) ==
    IF n <= 125 THEN <<n>>
    ELSE IF n <= 65535 THEN <<126, (n \div 256) % 256, n % 256>>
    ELSE <<127>> \o WordBytes(HighWord(n)) \o WordBytes(n)

\* The size EncodeMsg allocates for a frame; the payload goes to its end.
FrameSize(n) == n + 1 + (IF n <= 125 THEN 1 ELSE IF n <= 65535 THEN 3 ELSE 9)

\* The header EncodeMsg writes: FIN set, no mask.
EncodedHeader(iFrameType, n) == <<128 + iFrameType>> \o LengthBytes(n)

\* Mutant: the mask is not taken into account for the size.
TryDecodeLen_NoMask(h) ==
    LET seven == h[2] % 128
        ext == IF seven = 126 THEN 2 ELSE IF seven = 127 THEN 8 ELSE 0
        len == IF ext = 2 THEN Ntohs(h, 3) ELSE IF ext = 8 THEN Ntohl(h, 7) ELSE seven
        mask == IF h[2] >= 128 THEN 1 ELSE 0
    IN [frameType     |-> h[1] % 16,
        mask          |-> mask,
        payloadOffset |-> 2 + ext + 4 * mask,
        payloadLength |-> len,
        expectsize    |-> WS_MIN_MSG_EXPECT_LEN + ext + len]

\* What TryDecodeLen makes of the bytes h of a header.  It reads only the low
\* word of a 64-bit length.  (A length of 0 it refuses: see WsMsgParse.)
TryDecodeLen(h) ==
    LET seven == h[2] % 128
        ext == IF seven = 126 THEN 2 ELSE IF seven = 127 THEN 8 ELSE 0
        len == IF ext = 2 THEN Ntohs(h, 3) ELSE IF ext = 8 THEN Ntohl(h, 7) ELSE seven
        mask == IF h[2] >= 128 THEN 1 ELSE 0
    IN [frameType     |-> h[1] % 16,
        mask          |-> mask,
        payloadOffset |-> 2 + ext + 4 * mask,
        payloadLength |-> len,
        expectsize    |-> WS_MIN_MSG_EXPECT_LEN + ext + len + 4 * mask]

\* bFin of DecodeMsg.
Fin(h) == h[1] >= 128

-----------------------------------------------------------------------------
\* The forms in which RFC 6455 lets a client write a length.
Fits(n, ext) == \/ ext = 0 /\ n <= 125
                \/ ext = 2 /\ n > 125 /\ n <= 65535
                \/ ext = 8 /\ n > 65535

\* The header of a client's frame (the key itself is payload to TryDecodeLen).
ClientHeader(f) ==
    <<(IF f.fin THEN 128 ELSE 0) + f.op>>
    \o <<(IF f.mask = 4 THEN 128 ELSE 0)
         + (IF f.ext = 0 THEN f.len ELSE IF f.ext = 2 THEN 126 ELSE 127)>>
    \o (IF f.ext = 0 THEN <<>>
        ELSE IF f.ext = 2 THEN <<(f.len \div 256) % 256, f.len % 256>>
        ELSE WordBytes(HighWord(f.len)) \o WordBytes(f.len))

-----------------------------------------------------------------------------
None == [frameType |-> 0, mask |-> 0, payloadOffset |-> 0, payloadLength |-> 0,
         expectsize |-> 0]

FrameInit ==
    /\ sent = [fin |-> TRUE, op |-> 0, ext |-> 0, mask |-> 0, len |-> 0]
    /\ header = <<>>
    /\ frame = None
    /\ stage = "idle"

\* EncodeMsg; it refuses an empty message.
EncodeMsg(iFrameType, n) ==
    /\ stage = "idle"
    /\ n > 0
    /\ header' = EncodedHeader(iFrameType, n)
    /\ sent' = [fin |-> TRUE, op |-> iFrameType, mask |-> 0, len |-> n,
                ext |-> Len(LengthBytes(n)) - 1]
    /\ stage' = "encoded"
    /\ UNCHANGED frame

ClientSends(f) ==
    /\ stage = "idle"
    /\ Fits(f.len, f.ext)
    /\ header' = ClientHeader(f)
    /\ sent' = f
    /\ stage' = "encoded"
    /\ UNCHANGED frame

Decode ==
    /\ stage = "encoded"
    /\ frame' = TryDecodeLen(header)
    /\ stage' = "decoded"
    /\ UNCHANGED <<sent, header>>

ClientFrames ==
    [fin : BOOLEAN, op : Types, ext : {0, 2, 8}, mask : {0, 4}, len : PayloadLens]

FrameNext ==
    \/ \E iFrameType \in Types, n \in PayloadLens : EncodeMsg(iFrameType, n)
    \/ \E f \in ClientFrames : ClientSends(f)
    \/ Decode

FrameSpec == FrameInit /\ [][FrameNext]_frameVars

-----------------------------------------------------------------------------
FrameTypeOK ==
    /\ sent \in Frame
    /\ header \in Seq(Byte)
    /\ stage \in {"idle", "encoded", "decoded"}
    /\ \A field \in DOMAIN frame : frame[field] \in Nat

\* A frame is read as it was written, by a client or by EncodeMsg: the length
\* and the FIN bit, for every length below 2^32.
ReadAsWritten ==
    stage = "decoded" /\ HighWord(sent.len) = 0 =>
        /\ frame.payloadLength = sent.len
        /\ frame.frameType = sent.op
        /\ Fin(header) = sent.fin

\* TryDecodeLen computes where the payload starts and where the frame ends in
\* two separate sums; they agree with each other and with the layout of the
\* frame, so the next frame is looked for where it is.
GeometryAgrees ==
    stage = "decoded" /\ HighWord(sent.len) = 0 =>
        /\ frame.payloadOffset = PayloadOffset(sent)
        /\ frame.expectsize = Size(sent)

\* The header EncodeMsg writes fills the room it left in front of the payload.
RoomForHeader ==
    stage # "idle" /\ sent.mask = 0 => Len(header) = FrameSize(sent.len) - sent.len
==============================================================================
