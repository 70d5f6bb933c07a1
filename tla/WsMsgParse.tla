----------------------------- MODULE WsMsgParse -----------------------------
(***************************************************************************)
(* The frame decoder of one connection: CWsMsgParse::DecodeMsg on the      *)
(* tagWsMsgCache of a CWsInput, and the loop of CWsInput::ParseMsg that    *)
(* calls it and hands the messages over.  All of it runs on the            *)
(* connection's task thread; bytes come to the cache only between two runs *)
(* of ParseMsg, in whatever pieces the receive path (WsInput) moved.       *)
(*                                                                         *)
(* A byte is a position in the stream, so the header TryDecodeLen decodes  *)
(* at an offset of the buffer is that of the frame that starts there, with *)
(* one exception.  DecodeMsg asks for two bytes only before it decodes a   *)
(* header, and TryDecodeLen then reads the extended length whether it has  *)
(* arrived or not: what lies beyond GetBuffLen() is whatever the buffer    *)
(* held before.  The length it then computes is any of StaleLens.          *)
(***************************************************************************)
EXTENDS WsStream

CONSTANTS Streams,      \* the frame sequences a client may send
          StaleLens,    \* lengths computed from bytes that did not arrive
          MaxDelivered  \* bound: messages handed over in one behaviour

ASSUME StreamsAssumption == Streams \subseteq Seq(Frame)
ASSUME StaleLensAssumption == StaleLens \subseteq Nat

VARIABLES stream,           \* the frames this client sends
          base,             \* bytes of the stream removed from the buffer
          bufLen,           \* pBuffer->GetBuffLen()
          iCurFrameIndex,   \* where the next frame to scan starts
          iCurFrameLen,     \* its size, when it is known to be incomplete
          iTotalFrameLen,   \* payload bytes of the frames scanned
          iComplete,        \* a final frame was scanned and not extracted
          mpMsg,            \* CWsInput::mpMsg: <<>> or <<message>>
          pc,               \* where the task thread is
          iRet,             \* result of DecodeMsg
          iOffset,          \* DecodeMsg's extraction loop: frame,
          iPayloadOffset,   \*    and payload offset
          delivered,        \* messages handed to CWsHandlerMgr::ProcMsg
          cut,              \* history: frames decoded with a cut header
          failed            \* history: lines whose assertion failed

cache == <<iCurFrameIndex, iCurFrameLen, iTotalFrameLen, iComplete>>
extraction == <<iOffset, iPayloadOffset>>
vars == <<stream, base, bufLen, cache, mpMsg, pc, iRet, extraction,
          delivered, cut, failed>>

Init == /\ stream \in Streams
        /\ base = 0
        /\ bufLen = 0
        /\ iCurFrameIndex = 0
        /\ iCurFrameLen = 0
        /\ iTotalFrameLen = 0
        /\ iComplete = FALSE
        /\ mpMsg = <<>>
        /\ pc = "wait"
        /\ iRet = 0
        /\ iOffset = 0
        /\ iPayloadOffset = 0
        /\ delivered = <<>>
        /\ cut = {}
        /\ failed = {}

StreamLen == EndOf(stream, Len(stream))

\* The frame at an offset of the buffer.
FrameIndex(offset) == CHOOSE k \in StartsAt(stream, base + offset) : TRUE
FrameAt(offset) == stream[FrameIndex(offset)]

\* The bytes of the extended length at an offset have arrived.
LengthArrived(offset) ==
    bufLen >= offset + WS_MIN_MSG_EXPECT_LEN + FrameAt(offset).ext

\* The values TryDecodeLen may give payloadLength.
DecodedLens(offset) ==
    IF LengthArrived(offset) THEN {FrameAt(offset).len} ELSE StaleLens

\* expectsize, for a decoded payload length.
ExpectSize(offset, len) == PayloadOffset(FrameAt(offset)) + len

-----------------------------------------------------------------------------
\* CWsInput::ProcMsg moved n more bytes to the cache and calls ParseMsg.
\* With no new bytes ParseMsg finds the cache as the last call left it.
Arrive(n) ==
    /\ pc = "wait"
    /\ base + bufLen + n <= StreamLen
    /\ bufLen' = bufLen + n
    /\ pc' = "check"
    /\ UNCHANGED <<stream, base, cache, mpMsg, iRet, extraction, delivered, cut, failed>>

\* Mutant: a frame that ends at the last byte of the buffer is not there yet.
CheckLen_Strict ==
    /\ pc = "check"
    /\ iRet' = 0
    /\ pc' = IF iCurFrameLen # 0 /\ iCurFrameLen + iCurFrameIndex >= bufLen
             THEN "wait" ELSE "scan"
    /\ UNCHANGED <<stream, base, bufLen, cache, mpMsg, extraction, delivered, cut, failed>>

\* DecodeMsg begins: nothing to do while the known size has not arrived.
CheckLen ==
    /\ pc = "check"
    /\ iRet' = 0
    /\ pc' = IF iCurFrameLen + iCurFrameIndex > bufLen THEN "wait" ELSE "scan"
    /\ UNCHANGED <<stream, base, bufLen, cache, mpMsg, extraction, delivered, cut, failed>>

\* The scan loop is left.
EndScan(complete) ==
    /\ pc' = IF complete THEN "extract" ELSE "wait"
    /\ iOffset' = 0
    /\ iPayloadOffset' = 0

ScanDone ==
    /\ pc = "scan"
    /\ bufLen < WS_MIN_MSG_EXPECT_LEN + iCurFrameIndex
    /\ EndScan(iComplete)
    /\ UNCHANGED <<stream, base, bufLen, cache, mpMsg, iRet, delivered, cut, failed>>

\* What the scan loop does with a header, up to the decoded length.
ScanHeader(len) ==
    /\ pc = "scan"
    /\ bufLen >= WS_MIN_MSG_EXPECT_LEN + iCurFrameIndex
    /\ len \in DecodedLens(iCurFrameIndex)
    /\ cut' = IF LengthArrived(iCurFrameIndex)
              THEN cut ELSE cut \cup {FrameIndex(iCurFrameIndex)}
    /\ UNCHANGED <<stream, base, bufLen, mpMsg, delivered>>

\* TryDecodeLen refuses a payload of no bytes: DecodeMsg returns iRet, and
\* nothing was consumed.
ScanEmpty ==
    /\ ScanHeader(0)
    /\ failed' = failed \cup {118}
    /\ pc' = IF iRet = 0 THEN "wait" ELSE "deliver"
    /\ UNCHANGED <<cache, iRet, extraction>>

ScanIncomplete(len) ==
    /\ ScanHeader(len)
    /\ len > 0
    /\ ExpectSize(iCurFrameIndex, len) + iCurFrameIndex > bufLen
    /\ iCurFrameLen' = ExpectSize(iCurFrameIndex, len)
    /\ EndScan(iComplete)
    /\ UNCHANGED <<iCurFrameIndex, iTotalFrameLen, iComplete, iRet, failed>>

\* Mutant: the length of the header is taken for that of the frame.
ScanFrame_NoMask(len) ==
    /\ ScanHeader(len)
    /\ len > 0
    /\ LET size == 2 + FrameAt(iCurFrameIndex).ext + len
           fin == FrameAt(iCurFrameIndex).fin
       IN /\ size + iCurFrameIndex <= bufLen
          /\ iCurFrameIndex' = iCurFrameIndex + size
          /\ iTotalFrameLen' = iTotalFrameLen + len
          /\ iCurFrameLen' = 0
          /\ iComplete' = (iComplete \/ fin)
          /\ iRet' = IF fin THEN 1 ELSE iRet
          /\ IF fin THEN EndScan(TRUE) ELSE UNCHANGED <<pc, extraction>>
    /\ UNCHANGED failed

\* A whole frame is in the buffer: it is counted, and a final frame ends the
\* scan.
ScanFrame(len) ==
    /\ ScanHeader(len)
    /\ len > 0
    /\ LET size == ExpectSize(iCurFrameIndex, len)
           fin == FrameAt(iCurFrameIndex).fin
       IN /\ size + iCurFrameIndex <= bufLen
          /\ iCurFrameIndex' = iCurFrameIndex + size
          /\ iTotalFrameLen' = iTotalFrameLen + len
          /\ iCurFrameLen' = 0
          /\ iComplete' = (iComplete \/ fin)
          /\ iRet' = IF fin THEN 1 ELSE iRet
          /\ IF fin THEN EndScan(TRUE) ELSE UNCHANGED <<pc, extraction>>
    /\ UNCHANGED failed

-----------------------------------------------------------------------------
(* The extraction of the message of the frames scanned. *)

NewMsg == [type |-> 0, bytes |-> <<>>]
TmpMsg == IF mpMsg = <<>> THEN NewMsg ELSE mpMsg[1]

\* XOR len bytes of the message, from an offset, with the key of frame k:
\* right for the bytes of the payload of k, and for no others.
Unmask(bytes, offset, k) ==
    [i \in 1 .. Len(bytes) |->
        IF i \in offset + 1 .. offset + stream[k].len
        THEN [bytes[i] EXCEPT !.plain = (bytes[i].frame = k /\ bytes[i].at = i - offset
                                         /\ ~bytes[i].plain)]
        ELSE bytes[i]]

\* The loop of the extraction goes on.
Extracting == pc = "extract" /\ iCurFrameIndex > iOffset /\ iPayloadOffset <= iTotalFrameLen

\* The type of the message once the frame at iOffset was looked at.
TypeWith(f) == IF TmpMsg.type = 0 THEN f.op ELSE TmpMsg.type

\* Mutant: the frames of the message given up on are removed all the same.
ExtractGiveUp_Drops ==
    /\ Extracting
    /\ LET f == FrameAt(iOffset)
       IN /\ f.op \notin {TypeWith(f), WS_FRAME_CONTINUATION}
          /\ mpMsg' = <<[TmpMsg EXCEPT !.type = TypeWith(f)]>>
    /\ failed' = failed \cup {152}
    /\ iRet' = 1
    /\ pc' = "deliver"
    /\ iComplete' = FALSE
    /\ base' = base + iCurFrameIndex
    /\ bufLen' = bufLen - iCurFrameIndex
    /\ iCurFrameIndex' = 0
    /\ iTotalFrameLen' = 0
    /\ UNCHANGED <<stream, iCurFrameLen, extraction, delivered, cut>>

\* TryDecodeLen refuses a header (line 147), or the frame has another type
\* (line 152): DecodeMsg gives up with result 1.  The frames stay in the
\* buffer and iComplete stays set.
ExtractGiveUp ==
    /\ Extracting
    /\ LET f == FrameAt(iOffset)
           refused == 0 \in DecodedLens(iOffset)
       IN /\ refused \/ f.op \notin {TypeWith(f), WS_FRAME_CONTINUATION}
          /\ mpMsg' = <<IF refused THEN TmpMsg ELSE [TmpMsg EXCEPT !.type = TypeWith(f)]>>
          /\ failed' = failed \cup {IF refused THEN 147 ELSE 152}
    /\ iRet' = 1
    /\ pc' = "deliver"
    /\ UNCHANGED <<stream, base, bufLen, cache, extraction, delivered, cut>>

\* Mutant: the payload of every fragment is unmasked at the start of the message.
ExtractFrame_AtZero(len) ==
    /\ Extracting
    /\ len \in DecodedLens(iOffset) \ {0}
    /\ LET f == FrameAt(iOffset)
           k == FrameIndex(iOffset)
           appended == TmpMsg.bytes \o Payload(stream, k, f.mask = 0)
       IN /\ f.op \in {TypeWith(f), WS_FRAME_CONTINUATION}
          /\ mpMsg' = <<[type  |-> TypeWith(f),
                         bytes |-> IF f.mask = 0 THEN appended ELSE Unmask(appended, 0, k)]>>
    /\ iOffset' = iOffset + ExpectSize(iOffset, len)
    /\ iPayloadOffset' = iPayloadOffset + len
    /\ UNCHANGED <<stream, base, bufLen, cache, pc, iRet, delivered, cut, failed>>

ExtractFrame(len) ==
    /\ Extracting
    /\ len \in DecodedLens(iOffset) \ {0}
    /\ LET f == FrameAt(iOffset)
           k == FrameIndex(iOffset)
           appended == TmpMsg.bytes \o Payload(stream, k, f.mask = 0)
       IN /\ f.op \in {TypeWith(f), WS_FRAME_CONTINUATION}
          /\ mpMsg' = <<[type  |-> TypeWith(f),
                         bytes |-> IF f.mask = 0 THEN appended
                                   ELSE Unmask(appended, iPayloadOffset, k)]>>
    /\ iOffset' = iOffset + ExpectSize(iOffset, len)
    /\ iPayloadOffset' = iPayloadOffset + len
    /\ UNCHANGED <<stream, base, bufLen, cache, pc, iRet, delivered, cut, failed>>

ExtractDone == pc = "extract" /\ ~Extracting

\* The message has the length the scan counted.
LengthMatches == mpMsg # <<>> /\ Len(TmpMsg.bytes) = iTotalFrameLen

\* It does not: the assertion of line 167 gives up.
MismatchedLength ==
    /\ failed' = failed \cup {167}
    /\ iRet' = 1
    /\ pc' = "deliver"
    /\ UNCHANGED <<base, bufLen, cache>>

\* The extracted frames are removed from the front of the buffer.
RemoveFrames ==
    /\ iComplete' = FALSE
    /\ iCurFrameIndex' = iCurFrameIndex - iOffset
    /\ base' = base + iOffset
    /\ bufLen' = bufLen - iOffset
    /\ iTotalFrameLen' = iTotalFrameLen - iPayloadOffset
    /\ iCurFrameLen' = 0
    /\ pc' = IF iRet = 0 THEN "wait" ELSE "deliver"
    /\ UNCHANGED <<iRet, failed>>

Finish ==
    /\ ExtractDone
    /\ IF LengthMatches THEN RemoveFrames ELSE MismatchedLength
    /\ UNCHANGED <<stream, mpMsg, extraction, delivered, cut>>

-----------------------------------------------------------------------------
\* Mutant: mpMsg still points to the message that was handed over.
Deliver_Keeps ==
    /\ pc = "deliver"
    /\ Len(delivered) < MaxDelivered
    /\ delivered' = delivered \o mpMsg
    /\ pc' = "check"
    /\ UNCHANGED <<stream, base, bufLen, cache, mpMsg, iRet, extraction, cut, failed>>

\* ParseMsg hands the message over and calls DecodeMsg again.
Deliver ==
    /\ pc = "deliver"
    /\ Len(delivered) < MaxDelivered
    /\ delivered' = delivered \o mpMsg
    /\ mpMsg' = <<>>
    /\ pc' = "check"
    /\ UNCHANGED <<stream, base, bufLen, cache, iRet, extraction, cut, failed>>

-----------------------------------------------------------------------------
\* A length no behaviour of TryDecodeLen exceeds.
Lens == {stream[k].len : k \in 1 .. Len(stream)} \cup StaleLens

Scan == \/ CheckLen
        \/ ScanDone
        \/ ScanEmpty
        \/ \E len \in Lens : ScanIncomplete(len)
        \/ \E len \in Lens : ScanFrame(len)

Extract == \/ ExtractGiveUp
           \/ \E len \in Lens : ExtractFrame(len)
           \/ Finish

Next == \/ \E n \in 1 .. StreamLen : Arrive(n)
        \/ Scan
        \/ Extract
        \/ Deliver

\* The task thread runs DecodeMsg to its end; nothing makes bytes arrive.
Spec == Init /\ [][Next]_vars /\ WF_vars(Scan \/ Extract \/ Deliver)

-----------------------------------------------------------------------------
TypeOK ==
    /\ stream \in Streams
    /\ {base, bufLen, iCurFrameIndex, iCurFrameLen, iTotalFrameLen} \subseteq Nat
    /\ {iOffset, iPayloadOffset} \subseteq Nat
    /\ iComplete \in BOOLEAN
    /\ iRet \in {0, 1}
    /\ pc \in {"wait", "check", "scan", "extract", "deliver"}
    /\ Len(mpMsg) <= 1
    /\ cut \subseteq 1 .. Len(stream)
    /\ failed \subseteq {118, 147, 152, 167}

\* The next frame to scan, and the next to extract, start where a frame of the
\* stream does, and the buffer never ends before a frame that was scanned.
AtBoundaries ==
    LET boundaries == {EndOf(stream, k) : k \in 0 .. Len(stream)}
    IN /\ base + iCurFrameIndex \in boundaries
       /\ pc = "extract" => base + iOffset \in boundaries /\ iOffset <= iCurFrameIndex
       /\ iCurFrameIndex <= bufLen

\* iTotalFrameLen is the payload of exactly the frames scanned and not yet
\* removed, so the assertion on the length of the message (line 167) does not
\* fail, nor the one on a header scanned before (line 147).
TotalIsScanned ==
    /\ \A b, c \in 0 .. Len(stream) :
           EndOf(stream, b) = base /\ EndOf(stream, c) = base + iCurFrameIndex =>
               PayloadUpTo(stream, b) + iTotalFrameLen = PayloadUpTo(stream, c)
    /\ failed \cap {147, 167} = {}

\* Between two reads the decoder may wait on a size larger than that of the
\* frame at hand only if it decoded that frame's header before all of it had
\* arrived.  (It may then wait long after the frame is complete.)
OverestimateNeedsCut ==
    pc = "wait" /\ iCurFrameLen # 0 =>
        \/ iCurFrameLen = Size(FrameAt(iCurFrameIndex))
        \/ FrameIndex(iCurFrameIndex) \in cut

\* The decoder never loses the frame boundaries, however the stream is cut into
\* reads: its counters are in step with the buffer and with each other.
InSync == TypeOK /\ AtBoundaries /\ TotalIsScanned /\ OverestimateNeedsCut

\* The frame at iCurFrameIndex is complete, and DecodeMsg left it there.
Stalled ==
    /\ base + iCurFrameIndex < StreamLen
    /\ Size(FrameAt(iCurFrameIndex)) + iCurFrameIndex <= bufLen

\* Each return to the event loop leaves a complete frame behind that was not
\* scanned only for a cut header or an empty payload, and a complete message
\* that was scanned only for the assertion on frame types.
WaitsForGoodReason ==
    pc = "wait" =>
        /\ Stalled => LET k == FrameIndex(iCurFrameIndex) IN k \in cut \/ Empty(stream, k)
        /\ iComplete => 152 \in failed

\* Up to the first frame the decoder has trouble with, the messages handed
\* over are those of the stream: whole, unmasked, in order.
DeliveredInOrder ==
    \A j \in 1 .. Len(delivered) :
        LET final == FinalFrames(stream)
        IN (\A k \in 1 .. Len(stream) :
               (j > Len(final) \/ k <= final[j]) => ~Empty(stream, k) /\ ~Interrupts(stream, k))
           => j <= Len(final) /\ delivered[j] = Message(stream, j)

\* Two assertions that give up on a frame leave it where it is, whatever
\* arrives: after a control frame between fragments nothing is removed from
\* the buffer any more, and no frame behind an empty payload is looked at.
JamIsForever ==
    [][/\ 152 \in failed => base' = base
       /\ (\E k \in StartsAt(stream, base + iCurFrameIndex) : Empty(stream, k))
            => base' + iCurFrameIndex' = base + iCurFrameIndex]_vars

\* Every message whose last byte arrived is handed over, unless a cut header
\* made the decoder wait for bytes that are not part of the frame.
EventuallyDelivered ==
    \A j \in 1 .. MaxDelivered :
        (Smooth(stream) /\ j <= Len(FinalFrames(stream)) /\ MessageEnd(stream, j) <= base + bufLen)
            ~> (Len(delivered) >= j \/ cut # {})

\* Streams with the frames the decoder has trouble with promise nothing: they
\* count as streams of which nothing has arrived.
InOrder == INSTANCE MsgStream
               WITH arrived   <- IF Smooth(stream) THEN base + bufLen ELSE 0,
                    delivered <- IF Smooth(stream) THEN delivered ELSE <<>>

\* On streams without the frames it has trouble with, the decoder hands over
\* the messages whole, unmasked, in order and exactly once.
ImplementsMsgStream == InOrder!Spec
==============================================================================
