---------------------------- MODULE MCWsMsgParse ----------------------------
(* Streams of up to MaxFrames frames for the model checking of WsMsgParse. *)
EXTENDS WsMsgParse

\* Shapes of a frame: a masked short one (three header lengths occur: 2, 4
\* and 6 bytes), one with a 16-bit length, and one with no payload.
Short == [ext |-> 0, mask |-> 4, len |-> 2]
Long  == [ext |-> 2, mask |-> 0, len |-> 1]
Wide  == [ext |-> 8, mask |-> 4, len |-> 1]
Void  == [ext |-> 0, mask |-> 0, len |-> 0]

Framed(shape, fin, op) ==
    [fin |-> fin, op |-> op, ext |-> shape.ext, mask |-> shape.mask, len |-> shape.len]

FramesOf(shapes, ops) == {Framed(h, fin, op) : h \in shapes, fin \in BOOLEAN, op \in ops}

StreamsOf(frames, n) == {s \in UNION {[1 .. k -> frames] : k \in 1 .. n} : Legal(s)}

Ops == {WS_FRAME_CONTINUATION, WS_FRAME_TEXT, WS_FRAME_PING}

\* Every legal stream of up to three frames of these shapes, the empty
\* payload in the control frames only.
LegalStreams ==
    StreamsOf(FramesOf({Short, Long}, Ops) \cup {Framed(Void, TRUE, WS_FRAME_PING)}, 3)

\* Up to two frames, with the longest length field too.
WideStreams == {s \in StreamsOf(FramesOf({Short, Wide}, Ops), 2) : Smooth(s)}

AllStreams == LegalStreams \cup WideStreams
==============================================================================
