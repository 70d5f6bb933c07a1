------------------------------ MODULE WsStream ------------------------------
(***************************************************************************)
(* The byte stream that one client sends once the connection is upgraded,  *)
(* as a sequence of frames laid end to end, and the messages these frames  *)
(* carry.  A byte is a position in the stream.                             *)
(*                                                                         *)
(* A frame is a record                                                     *)
(*    fin   the FIN bit                                                    *)
(*    op    the frame type (WS_FRAMETYPE of wsprotocol.h)                  *)
(*    ext   extended length bytes: 0, 2 or 8                               *)
(*    mask  bytes of the masking key: 0 or 4                               *)
(*    len   payload length                                                 *)
(***************************************************************************)
EXTENDS Naturals, Sequences, SequencesExt

WS_MIN_MSG_EXPECT_LEN == 2

WS_FRAME_CONTINUATION == 0
WS_FRAME_TEXT == 1
WS_FRAME_BINARY == 2
WS_FRAME_CLOSING == 8
WS_FRAME_PING == 9
WS_FRAME_PONG == 10

Control == {WS_FRAME_CLOSING, WS_FRAME_PING, WS_FRAME_PONG}

Frame == [fin : BOOLEAN, op : 0 .. 15, ext : {0, 2, 8}, mask : {0, 4}, len : Nat]

PayloadOffset(f) == WS_MIN_MSG_EXPECT_LEN + f.ext + f.mask

Size(f) == PayloadOffset(f) + f.len

\* The sum of the first k of a list of numbers.
SumOf(numbers, k) ==
    LET sum[i \in 0 .. Len(numbers)] == IF i = 0 THEN 0 ELSE sum[i - 1] + numbers[i]
    IN sum[k]

\* The position after the first k frames of s, and the payload bytes in them.
EndOf(s, k) == SumOf([i \in 1 .. Len(s) |-> Size(s[i])], k)
PayloadUpTo(s, k) == SumOf([i \in 1 .. Len(s) |-> s[i].len], k)

StartOf(s, k) == EndOf(s, k - 1)

\* The frame that starts at position p, if one does.
StartsAt(s, p) == {k \in 1 .. Len(s) : StartOf(s, k) = p}

-----------------------------------------------------------------------------
(* The payload bytes of a frame: its index, the byte's index in the payload *)
(* and whether the byte is plain (not, or no longer, XORed with the key).  *)

Payload(s, k, plain) == [i \in 1 .. s[k].len |-> [frame |-> k, at |-> i, plain |-> plain]]

\* The frames that end a message, in order, among the first k.
FinalFramesUpTo(s, k) ==
    LET final[i \in 0 .. Len(s)] ==
            IF i = 0 THEN <<>>
            ELSE IF s[i].fin THEN Append(final[i - 1], i) ELSE final[i - 1]
    IN final[k]

FinalFrames(s) == FinalFramesUpTo(s, Len(s))

\* The j-th message of s: the frames after the (j-1)-th final frame up to
\* the j-th.
Message(s, j) ==
    LET final == FinalFrames(s)
        first == IF j = 1 THEN 1 ELSE final[j - 1] + 1
    IN [type  |-> s[first].op,
        bytes |-> FlattenSeq([i \in 1 .. final[j] - first + 1 |->
                                 Payload(s, first + i - 1, TRUE)])]

Messages(s) == [j \in 1 .. Len(FinalFrames(s)) |-> Message(s, j)]

\* Where the j-th message ends.
MessageEnd(s, j) == EndOf(s, FinalFrames(s)[j])

-----------------------------------------------------------------------------
(* The streams RFC 6455 allows: a message is one unfragmented frame or a   *)
(* first frame and continuations; control frames are not fragmented but    *)
(* may come between the fragments of a message; a payload may be empty.    *)

\* Frame k lies between the fragments of a message.
Inside(s, k) ==
    \E i \in 1 .. k - 1 :
        /\ s[i].op \notin Control
        /\ ~s[i].fin
        /\ \A j \in i + 1 .. k - 1 : s[j].op \in Control

Legal(s) ==
    \A k \in 1 .. Len(s) :
        IF s[k].op \in Control
        THEN s[k].fin
        ELSE s[k].op = WS_FRAME_CONTINUATION <=> Inside(s, k)

\* Frames the decoder has trouble with: no payload, or a control frame that
\* interrupts a message.
Empty(s, k) == s[k].len = 0
Interrupts(s, k) == s[k].op \in Control /\ Inside(s, k)

Smooth(s) == \A k \in 1 .. Len(s) : ~Empty(s, k) /\ ~Interrupts(s, k)
==============================================================================
