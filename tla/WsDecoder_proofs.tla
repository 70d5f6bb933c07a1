-------------------------- MODULE WsDecoder_proofs --------------------------
(***************************************************************************)
(* CWsMsgParse, for every length and every stream of frames.               *)
(*                                                                         *)
(* First the frame codec (WsFrame): a header is read as it was written.    *)
(* The inductive invariant says that the header on the wire, whoever wrote *)
(* it, is the one RFC 6455 prescribes for the frame.                       *)
(*                                                                         *)
(* Then the decoder (WsMsgParse), in two layers.  Sync(b, c) says that the *)
(* first b frames of the stream were removed from the buffer and the first *)
(* c were scanned, and ties every counter of the cache to b and c; it is   *)
(* inductive for every stream.  Whole(b, c) adds, for a legal stream, that *)
(* the messages handed over are those of the first b frames, and that the  *)
(* next one is being put together or is interrupted by a control frame.    *)
(***************************************************************************)
EXTENDS WsFrame, WsMsgParse, SequenceTheorems, WellFoundedInduction, TLAPS

-----------------------------------------------------------------------------
(* The frame codec. *)

\* Ntohl takes back the four bytes that the low word was split into.
LEMMA WordValue ==
  ASSUME NEW n \in Nat, HighWord(n) = 0
  PROVE  ((n \div 16777216) % 256) * 16777216 + ((n \div 65536) % 256) * 65536
           + ((n \div 256) % 256) * 256 + (n % 256) = n
<1> DEFINE a == n \div 256
<1> DEFINE b == n \div 65536
<1> DEFINE c == n \div 16777216
<1>1. a \in Nat /\ b \in Nat /\ c \in Nat
  BY SMT
<1>2. 256 * a + (n % 256) = n
  BY SMT
<1>3. 256 * b + (a % 256) = a
  BY SMT
<1>4. 256 * c + (b % 256) = b
  BY SMT
<1>5. b < 65536
  BY SMT DEF HighWord
<1>6. c % 256 = c
  BY <1>1, <1>4, <1>5, SMT
<1>7. (n % 256) \in Nat /\ (a % 256) \in Nat /\ (b % 256) \in Nat
  BY <1>1, SMT
<1> HIDE DEF a, b, c
<1>8. c * 16777216 + (b % 256) * 65536 + (a % 256) * 256 + (n % 256) = n
  BY <1>1, <1>2, <1>3, <1>4, <1>7, SMT
<1>9. QED
  BY <1>6, <1>8 DEF a, b, c

LEMMA HalfWordValue ==
  ASSUME NEW n \in Nat, n <= 65535
  PROVE  ((n \div 256) % 256) * 256 + (n % 256) = n
<1> DEFINE a == n \div 256
<1>1. a \in Nat /\ 256 * a + (n % 256) = n
  BY SMT
<1>2. a < 256
  BY SMT
<1>3. a % 256 = a /\ (n % 256) \in Nat
  BY <1>1, <1>2, SMT
<1> HIDE DEF a
<1>4. a * 256 + (n % 256) = n
  BY <1>1, <1>3, SMT
<1>5. QED
  BY <1>3, <1>4 DEF a

\* The header EncodeMsg writes is the one RFC 6455 prescribes for an unmasked
\* final frame, in its shortest form, whatever the length.
LEMMA EncodedIsLegal ==
  ASSUME NEW t \in 0 .. 15, NEW n \in Nat, NEW f,
         f = [fin |-> TRUE, op |-> t, mask |-> 0, len |-> n,
              ext |-> Len(LengthBytes(n)) - 1]
  PROVE  /\ f \in Frame
         /\ Fits(f.len, f.ext)
         /\ EncodedHeader(t, n) = ClientHeader(f)
<1>1. f \in [fin : BOOLEAN, op : 0 .. 15, ext : {0, 2, 8}, mask : {0, 4}, len : Nat]
      /\ Fits(f.len, f.ext)
  <2>1. /\ n <= 125 => Len(LengthBytes(n)) = 1
        /\ n > 125 /\ n <= 65535 => Len(LengthBytes(n)) = 3
        /\ n > 65535 => Len(LengthBytes(n)) = 9
    BY SMT DEF LengthBytes, WordBytes
  <2>2. QED
    BY <2>1, SMT DEF Fits
<1>2. CASE n <= 125
  <2>1. f.ext = 0 /\ LengthBytes(n) = <<n>>
    BY <1>2, SMT DEF LengthBytes
  <2>2. QED
    BY <1>1, <1>2, <2>1, SMT DEF Frame, EncodedHeader, ClientHeader
<1>3. CASE n > 125 /\ n <= 65535
  <2>1. f.ext = 2 /\ LengthBytes(n) = <<126, (n \div 256) % 256, n % 256>>
    BY <1>3, SMT DEF LengthBytes
  <2>2. QED
    BY <1>1, <1>3, <2>1, SMT DEF Frame, EncodedHeader, ClientHeader
<1>4. CASE n > 65535
  <2>1. LengthBytes(n) = <<127>> \o WordBytes(HighWord(n)) \o WordBytes(n)
    BY <1>4, SMT DEF LengthBytes
  <2>2. f.ext = 8
    BY <2>1, SMT DEF WordBytes
  <2> DEFINE hi == WordBytes(HighWord(n))
             lo == WordBytes(n)
  <2>3. ClientHeader(f) = <<128 + t>> \o <<127>> \o (hi \o lo)
    <3>1. f.fin = TRUE /\ f.op = t /\ f.mask = 0 /\ f.len = n
      OBVIOUS
    <3>2. (IF f.fin THEN 128 ELSE 0) + f.op = 128 + t
      BY <3>1, SMT
    <3>3. 0 # 4 /\ 8 # 0 /\ 8 # 2 /\ 0 + 127 = 127
      BY SMT
    <3>4. (IF f.mask = 4 THEN 128 ELSE 0) + (IF f.ext = 0 THEN f.len ELSE IF f.ext = 2 THEN 126 ELSE 127) = 127
      BY <2>2, <3>1, <3>3, Zenon
    <3>5. QED
      BY <2>2, <3>1, <3>2, <3>3, <3>4, ZenonT(30) DEF ClientHeader
  <2>4. EncodedHeader(t, n) = <<128 + t>> \o (<<127>> \o hi \o lo)
    BY <2>1, Zenon DEF EncodedHeader
  <2>5. EncodedHeader(t, n) = ClientHeader(f)
    <3>1. hi \in Seq(Nat) /\ lo \in Seq(Nat) /\ <<127>> \in Seq(Nat) /\ <<128 + t>> \in Seq(Nat)
      BY SMT DEF WordBytes, HighWord
    <3> HIDE DEF hi, lo
    <3>2. hi \o lo \in Seq(Nat)
      BY <3>1, ConcatProperties
    <3>3. (<<127>> \o hi) \o lo = <<127>> \o (hi \o lo)
      BY <3>1, ConcatAssociative
    <3>4. <<128 + t>> \o (<<127>> \o (hi \o lo)) = (<<128 + t>> \o <<127>>) \o (hi \o lo)
      BY <3>1, <3>2, ConcatAssociative
    <3>5. QED
      BY <2>3, <2>4, <3>3, <3>4
  <2>6. QED
    BY <1>1, <2>5 DEF Frame
<1>5. QED
  BY <1>2, <1>3, <1>4

\* TryDecodeLen reads a legal header as it was written.
LEMMA LegalIsRead ==
  ASSUME NEW f \in Frame, Fits(f.len, f.ext), HighWord(f.len) = 0,
         NEW h, h = ClientHeader(f),
         NEW d, d = TryDecodeLen(h)
  PROVE  /\ d.payloadLength = f.len
         /\ d.frameType = f.op
         /\ Fin(h) = f.fin
         /\ d.payloadOffset = PayloadOffset(f)
         /\ d.expectsize = Size(f)
<1> USE DEF Frame
<1>1. CASE f.ext = 0
  BY <1>1, SMT DEF Fits, ClientHeader, TryDecodeLen, Fin, PayloadOffset, Size, WS_MIN_MSG_EXPECT_LEN
<1>2. CASE f.ext = 2
  <2>1. /\ h[1] = (IF f.fin THEN 128 ELSE 0) + f.op
        /\ h[2] = (IF f.mask = 4 THEN 128 ELSE 0) + 126
        /\ h[3] = (f.len \div 256) % 256
        /\ h[4] = f.len % 256
    BY <1>2, SMT DEF ClientHeader
  <2>2. Ntohs(h, 3) = f.len
    <3>1. f.len \in Nat /\ f.len <= 65535
      BY <1>2, SMT DEF Fits
    <3>2. Ntohs(h, 3) = ((f.len \div 256) % 256) * 256 + (f.len % 256)
      BY <2>1, SMT DEF Ntohs
    <3>3. QED
      BY <3>1, <3>2, HalfWordValue
  <2>3. QED
    BY <1>2, <2>1, <2>2, SMT DEF TryDecodeLen, Fin, PayloadOffset, Size, WS_MIN_MSG_EXPECT_LEN
<1>3. CASE f.ext = 8
  <2>1. /\ h[7] = (f.len \div 16777216) % 256
        /\ h[8] = (f.len \div 65536) % 256
        /\ h[9] = (f.len \div 256) % 256
        /\ h[10] = f.len % 256
    BY <1>3, SMT DEF ClientHeader, WordBytes
  <2>2. Ntohl(h, 7) = f.len
    BY <2>1, WordValue, SMT DEF Ntohl
  <2>3. h[1] = (IF f.fin THEN 128 ELSE 0) + f.op /\ h[2] = (IF f.mask = 4 THEN 128 ELSE 0) + 127
    BY <1>3, SMT DEF ClientHeader, WordBytes
  <2>4. QED
    BY <1>3, <2>2, <2>3, SMT DEF TryDecodeLen, Fin, PayloadOffset, Size, WS_MIN_MSG_EXPECT_LEN
<1>4. QED
  BY <1>1, <1>2, <1>3

-----------------------------------------------------------------------------
\* The header on the wire is a legal one, and the frame was read from it.
FrameInv ==
    /\ sent \in Frame
    /\ stage \in {"idle", "encoded", "decoded"}
    /\ stage # "idle" => Fits(sent.len, sent.ext) /\ header = ClientHeader(sent)
    /\ stage = "decoded" => frame = TryDecodeLen(header)

LEMMA FrameInvariance == FrameSpec => []FrameInv
<1>1. FrameInit => FrameInv
  BY DEF FrameInit, FrameInv, Frame
<1>2. FrameInv /\ [FrameNext]_frameVars => FrameInv'
  <2> SUFFICES ASSUME FrameInv, [FrameNext]_frameVars PROVE FrameInv'
    OBVIOUS
  <2>1. ASSUME NEW t \in Types, NEW n \in PayloadLens, EncodeMsg(t, n) PROVE FrameInv'
    <3>1. t \in 0 .. 15 /\ n \in Nat
      BY PayloadLensAssumption, TypesAssumption
    <3>2. /\ sent' = [fin |-> TRUE, op |-> t, mask |-> 0, len |-> n,
                      ext |-> Len(LengthBytes(n)) - 1]
          /\ header' = EncodedHeader(t, n)
          /\ stage' = "encoded"
      BY <2>1 DEF EncodeMsg
    <3>3. sent' \in Frame /\ Fits(sent'.len, sent'.ext) /\ header' = ClientHeader(sent')
      BY <3>1, <3>2, EncodedIsLegal
    <3>4. QED
      BY <3>2, <3>3 DEF FrameInv
  <2>2. ASSUME NEW f \in ClientFrames, ClientSends(f) PROVE FrameInv'
    <3>1. f \in Frame
      BY PayloadLensAssumption, TypesAssumption DEF ClientFrames, Frame
    <3>2. QED
      BY <2>2, <3>1 DEF ClientSends, FrameInv
  <2>3. CASE Decode
    BY <2>3 DEF Decode, FrameInv
  <2>4. CASE UNCHANGED frameVars
    BY <2>4 DEF frameVars, FrameInv
  <2>5. QED
    BY <2>1, <2>2, <2>3, <2>4 DEF FrameNext
<1>3. QED
  BY <1>1, <1>2, PTL DEF FrameSpec

\* The length, the type and the FIN bit are read as they were written.
THEOREM HeadersSurvive == FrameSpec => []ReadAsWritten
<1>1. FrameInv => ReadAsWritten
  BY LegalIsRead DEF FrameInv, ReadAsWritten
<1>2. QED
  BY <1>1, FrameInvariance, PTL

\* The two sums of TryDecodeLen agree with each other and with the frame.
THEOREM GeometryIsRight == FrameSpec => []GeometryAgrees
<1>1. FrameInv => GeometryAgrees
  BY LegalIsRead DEF FrameInv, GeometryAgrees
<1>2. QED
  BY <1>1, FrameInvariance, PTL
\* The bytes of a header, however long.
LEMMA HeaderBytes ==
  ASSUME NEW f \in Frame, Fits(f.len, f.ext)
  PROVE  /\ ClientHeader(f) \in Seq(Byte)
         /\ Len(ClientHeader(f)) = 2 + f.ext
<1> USE DEF Frame, Byte
<1>1. (f.len % 256) \in Byte /\ ((f.len \div 256) % 256) \in Byte
  BY SMT
<1>2. CASE f.ext = 0
  BY <1>2, SMT DEF Fits, ClientHeader
<1>3. CASE f.ext = 2
  BY <1>1, <1>3, SMT DEF ClientHeader
<1>4. CASE f.ext = 8
  <2>1. ASSUME NEW n \in Nat PROVE WordBytes(n) \in Seq(Byte) /\ Len(WordBytes(n)) = 4
    BY SMT DEF WordBytes
  <2>2. HighWord(f.len) \in Nat
    BY SMT DEF HighWord
  <2> DEFINE hi == WordBytes(HighWord(f.len))
             lo == WordBytes(f.len)
             a == (IF f.fin THEN 128 ELSE 0) + f.op
             b == (IF f.mask = 4 THEN 128 ELSE 0) + 127
  <2>3. hi \in Seq(Byte) /\ lo \in Seq(Byte) /\ Len(hi) = 4 /\ Len(lo) = 4
    BY <2>1, <2>2
  <2>4. a \in Byte /\ b \in Byte
    BY SMT
  <2>5. ClientHeader(f) = (<<a>> \o <<b>>) \o (hi \o lo)
    <3>1. (IF f.ext = 0 THEN f.len ELSE IF f.ext = 2 THEN 126 ELSE 127) = 127
      BY <1>4, SMT
    <3>2. f.ext # 0 /\ f.ext # 2
      BY <1>4, SMT
    <3>3. QED
      BY <3>1, <3>2, ZenonT(30) DEF ClientHeader
  <2> HIDE DEF hi, lo, a, b
  <2>6. hi \o lo \in Seq(Byte) /\ Len(hi \o lo) = 8
    <3>1. hi \o lo \in Seq(Byte) /\ Len(hi \o lo) = Len(hi) + Len(lo)
      BY <2>3, ConcatProperties
    <3>2. QED
      BY <2>3, <3>1, SMT
  <2>7. <<a>> \o <<b>> \in Seq(Byte) /\ Len(<<a>> \o <<b>>) = 2
    BY <2>4, SMT
  <2>8. QED
    BY <1>4, <2>5, <2>6, <2>7, ConcatProperties, SMT
<1>5. QED
  BY <1>2, <1>3, <1>4

\* Whatever legal header it gets, TryDecodeLen makes numbers of it: it reads no
\* byte beyond its end.
LEMMA DecodedNumbers ==
  ASSUME NEW f \in Frame, Fits(f.len, f.ext), NEW h, h = ClientHeader(f)
  PROVE  \A field \in DOMAIN TryDecodeLen(h) : TryDecodeLen(h)[field] \in Nat
<1>1. h \in Seq(Byte) /\ Len(h) = 2 + f.ext
  BY HeaderBytes
<1>2. f.ext \in {0, 2, 8}
  BY DEF Frame
<1>3. \A i \in 1 .. Len(h) : h[i] \in 0 .. 255
  BY <1>1, ElementOfSeq DEF Byte
<1>4. /\ h[2] % 128 = 126 => f.ext = 2
      /\ h[2] % 128 = 127 => f.ext = 8
  <2>1. CASE f.ext = 0
    <3>1. h[2] = (IF f.mask = 4 THEN 128 ELSE 0) + f.len
      BY <2>1, SMT DEF ClientHeader, Frame
    <3>2. f.len \in 0 .. 125
      BY <2>1, SMT DEF Fits, Frame
    <3>3. QED
      BY <3>1, <3>2, SMT
  <2>2. CASE f.ext = 2
    BY <2>2, SMT DEF ClientHeader, Frame
  <2>3. CASE f.ext = 8
    <3>1. h[2] = (IF f.mask = 4 THEN 128 ELSE 0) + 127
      BY <2>3, SMT DEF ClientHeader, WordBytes, Frame
    <3>2. QED
      BY <2>3, <3>1, SMT
  <2>4. QED
    BY <1>2, <2>1, <2>2, <2>3
<1>5. h[1] % 16 \in Nat /\ h[2] % 128 \in Nat
  <2>1. 1 \in 1 .. Len(h) /\ 2 \in 1 .. Len(h)
    BY <1>1, <1>2
  <2>2. h[1] \in 0 .. 255 /\ h[2] \in 0 .. 255
    BY <1>3, <2>1
  <2>3. QED
    BY <2>2, SMT
<1>6. f.ext = 2 => Ntohs(h, 3) \in Nat
  <2> SUFFICES ASSUME f.ext = 2 PROVE Ntohs(h, 3) \in Nat
    OBVIOUS
  <2>0. 3 \in 1 .. Len(h) /\ 4 \in 1 .. Len(h)
    BY <1>1
  <2>1. PICK a, b \in 0 .. 255 : h[3] = a /\ h[4] = b
    BY <1>3, <2>0, ZenonT(30)
  <2>2. Ntohs(h, 3) = a * 256 + b
    BY <2>1, SMT DEF Ntohs
  <2>3. QED
    BY <2>2, SMT
<1>7. f.ext = 8 => Ntohl(h, 7) \in Nat
  <2> SUFFICES ASSUME f.ext = 8 PROVE Ntohl(h, 7) \in Nat
    OBVIOUS
  <2>0. /\ 7 \in 1 .. Len(h) /\ 8 \in 1 .. Len(h)
        /\ 9 \in 1 .. Len(h) /\ 10 \in 1 .. Len(h)
    BY <1>1
  <2>1. PICK a, b, c, d \in 0 .. 255 : h[7] = a /\ h[8] = b /\ h[9] = c /\ h[10] = d
    BY <1>3, <2>0, ZenonT(30)
  <2>2. Ntohl(h, 7) = a * 16777216 + b * 65536 + c * 256 + d
    BY <2>1, SMT DEF Ntohl
  <2>3. QED
    BY <2>2, SMT
<1>8. QED
  BY <1>4, <1>5, <1>6, <1>7, SMT DEF TryDecodeLen, WS_MIN_MSG_EXPECT_LEN

\* Before it is decoded a frame is the one of the initial state.
LEMMA NotDecoded == FrameSpec => [](stage # "decoded" => frame = None)
<1>1. FrameInit => (stage # "decoded" => frame = None)
  BY DEF FrameInit
<1>2. (stage # "decoded" => frame = None) /\ [FrameNext]_frameVars => (stage # "decoded" => frame = None)'
  BY DEF FrameNext, EncodeMsg, ClientSends, Decode, frameVars
<1>3. QED
  BY <1>1, <1>2, PTL DEF FrameSpec

\* A header is a sequence of bytes, and what is read from it is numbers.
THEOREM HeadersTyped == FrameSpec => []FrameTypeOK
<1>1. FrameInv /\ (stage # "decoded" => frame = None) /\ (stage = "idle" => header = <<>>) => FrameTypeOK
  <2> SUFFICES ASSUME FrameInv, stage # "decoded" => frame = None, stage = "idle" => header = <<>>
               PROVE  FrameTypeOK
    OBVIOUS
  <2>1. header \in Seq(Byte)
    <3>1. CASE stage = "idle"
      BY <3>1
    <3>2. CASE stage # "idle"
      BY <3>2, HeaderBytes DEF FrameInv
    <3>3. QED
      BY <3>1, <3>2
  <2>2. \A field \in DOMAIN frame : frame[field] \in Nat
    <3>1. CASE stage = "decoded"
      BY <3>1, DecodedNumbers DEF FrameInv
    <3>2. CASE stage # "decoded"
      BY <3>2, SMT DEF None
    <3>3. QED
      BY <3>1, <3>2
  <2>3. QED
    BY <2>1, <2>2 DEF FrameInv, FrameTypeOK
<1>2. FrameSpec => [](stage = "idle" => header = <<>>)
  <2>1. FrameInit => (stage = "idle" => header = <<>>)
    BY DEF FrameInit
  <2>2. (stage = "idle" => header = <<>>) /\ [FrameNext]_frameVars => (stage = "idle" => header = <<>>)'
    BY DEF FrameNext, EncodeMsg, ClientSends, Decode, frameVars
  <2>3. QED
    BY <2>1, <2>2, PTL DEF FrameSpec
<1>3. QED
  BY <1>1, <1>2, NotDecoded, FrameInvariance, PTL

\* The header that EncodeMsg writes fills exactly the room that it left in front
\* of the payload (the size of the buffer, WsMsgParse.cpp:14-25), for every length.
THEOREM HeaderFits == FrameSpec => []RoomForHeader
<1>1. FrameInv => RoomForHeader
  <2> SUFFICES ASSUME FrameInv, stage # "idle", sent.mask = 0
               PROVE  Len(header) = FrameSize(sent.len) - sent.len
    BY DEF RoomForHeader
  <2>1. Len(header) = 2 + sent.ext /\ Fits(sent.len, sent.ext) /\ sent.len \in Nat
    BY HeaderBytes DEF FrameInv, Frame
  <2>2. QED
    BY <2>1, SMT DEF Fits, FrameSize
<1>2. QED
  BY <1>1, FrameInvariance, PTL

-----------------------------------------------------------------------------
(* The decoder: recursive functions of the stream. *)

\* Induction up to a number, for a property given as a set.
LEMMA UpTo ==
  ASSUME NEW n \in Nat, NEW T, 0 \in T,
         \A i \in 0 .. n - 1 : i \in T => i + 1 \in T
  PROVE  \A i \in 0 .. n : i \in T
<1> DEFINE Below == {ss \in Nat \X Nat : ss[1] < ss[2]}
           S == {i \in 0 .. n : i \notin T}
<1>1. IsWellFoundedOn(Below, Nat)
  BY NatLessThanWellFounded DEF OpToRel
<1> HIDE DEF Below
<1>2. SUFFICES ASSUME S # {} PROVE FALSE
  OBVIOUS
<1>3. S \subseteq Nat
  OBVIOUS
<1>4. PICK x \in S : \A y \in S : ~ (<<y, x>> \in Below)
  BY <1>1, <1>2, <1>3, WFMin
<1>5. x \in 0 .. n /\ x \notin T /\ x # 0
  OBVIOUS
<1>6. x - 1 \in 0 .. n - 1 /\ x - 1 \in Nat /\ x \in Nat /\ x - 1 < x /\ (x - 1) + 1 = x
  BY <1>5
<1>7. x - 1 \in T
  <2>1. <<x - 1, x>> \in Below
    BY <1>6 DEF Below
  <2> QED BY <1>4, <1>6, <2>1
<1> QED BY <1>5, <1>6, <1>7

\* Steps that follow one another from a first value have values in between.
StepsIn(V, n) == [1 .. n -> [V -> V]]
Follows(f, V, n, v, step) ==
    f \in [0 .. n -> V] /\ f[0] = v /\ \A i \in 1 .. n : f[i] = step[i][f[i - 1]]

\* There is a list of values that follows the steps.
LEMMA Iterates ==
  ASSUME NEW n, n \in Nat, NEW V, NEW v, v \in V, NEW step, step \in StepsIn(V, n)
  PROVE  \E f : Follows(f, V, n, v, step)
<1> USE DEF Follows
<1> DEFINE Runs(m, f) == f \in [0 .. m -> V] /\ f[0] = v /\ \A i \in 1 .. m : f[i] = step[i][f[i - 1]]
           T == {m \in 0 .. n : \E f : Runs(m, f)}
<1>0. step \in [1 .. n -> [V -> V]]
  BY DEF StepsIn
<1>1. 0 \in T
  <2> DEFINE f == [i \in 0 .. 0 |-> v]
  <2>1. f \in [0 .. 0 -> V] /\ f[0] = v /\ 1 .. 0 = {}
    OBVIOUS
  <2> HIDE DEF f
  <2>2. Runs(0, f)
    BY <2>1
  <2>3. 0 \in 0 .. n
    OBVIOUS
  <2> HIDE DEF Runs
  <2> QED BY <2>2, <2>3
<1>2. ASSUME NEW m \in 0 .. n - 1, m \in T PROVE m + 1 \in T
  <2>1. PICK f : Runs(m, f)
    BY <1>2
  <2>2. m \in Nat /\ m + 1 \in 1 .. n /\ m + 1 \in 0 .. n /\ m \in 0 .. m
    OBVIOUS
  <2> DEFINE e == step[m + 1][f[m]]
             g == [i \in 0 .. m + 1 |-> IF i <= m THEN f[i] ELSE e]
  <2>3. e \in V
    BY <1>0, <2>1, <2>2
  <2>4. g \in [0 .. m + 1 -> V] /\ g[0] = v
    BY <2>1, <2>2, <2>3
  <2>5. ASSUME NEW i \in 1 .. m + 1 PROVE g[i] = step[i][g[i - 1]]
    <3>1. i - 1 \in 0 .. m /\ i - 1 \in 0 .. m + 1 /\ i \in 0 .. m + 1 /\ i - 1 <= m
      BY <2>2
    <3>2. g[i - 1] = f[i - 1]
      BY <3>1
    <3>3. CASE i <= m
      BY <2>1, <2>2, <3>1, <3>2, <3>3
    <3>4. CASE i = m + 1
      <4>1. g[i] = e /\ i - 1 = m
        BY <2>2, <3>1, <3>4
      <4> HIDE DEF g
      <4> QED BY <3>2, <3>4, <4>1
    <3> QED BY <2>2, <3>3, <3>4
  <2> HIDE DEF g
  <2>6. Runs(m + 1, g)
    BY <2>4, <2>5
  <2> HIDE DEF Runs
  <2> QED BY <2>2, <2>6
<1> HIDE DEF T
<1>3. \A m \in 0 .. n : m \in T
  BY <1>1, <1>2, UpTo
<1>4. n \in T
  BY <1>3
<1> QED BY <1>4 DEF T

\* Sums, one number after the other.
LEMMA SumSteps ==
  ASSUME NEW d \in Seq(Nat)
  PROVE  /\ SumOf(d, 0) = 0
         /\ \A k \in 1 .. Len(d) : SumOf(d, k) = SumOf(d, k - 1) + d[k]
         /\ \A k \in 0 .. Len(d) : SumOf(d, k) \in Nat
<1> DEFINE n == Len(d)
           Body(h) == [i \in 0 .. n |-> IF i = 0 THEN 0 ELSE h[i - 1] + d[i]]
           step == [i \in 1 .. n |-> [m \in Nat |-> m + d[i]]]
           c == CHOOSE h : h = Body(h)
           T == {i \in 0 .. n : c[i] \in Nat}
<1>1. n \in Nat /\ \A i \in 1 .. n : d[i] \in Nat
  OBVIOUS
<1>2. /\ step \in [1 .. n -> [Nat -> Nat]]
      /\ \A i \in 1 .. n : \A m \in Nat : step[i][m] = m + d[i]
  BY <1>1
<1> HIDE DEF step, n
<1>3. \E f : Follows(f, Nat, n, 0, step)
  <2>1. step \in StepsIn(Nat, n)
    BY <1>2 DEF StepsIn
  <2>2. 0 \in Nat
    OBVIOUS
  <2> QED BY <1>1, <2>1, <2>2, Iterates
<1>3a. PICK f : f \in [0 .. n -> Nat] /\ f[0] = 0 /\ \A i \in 1 .. n : f[i] = step[i][f[i - 1]]
  BY <1>3 DEF Follows
<1>4. ASSUME NEW i \in 1 .. n PROVE f[i] = f[i - 1] + d[i]
  <2>1. i - 1 \in 0 .. n /\ f[i - 1] \in Nat
    BY <1>1, <1>3a
  <2>2. f[i] = step[i][f[i - 1]]
    BY <1>3a
  <2> QED BY <1>2, <2>1, <2>2
<1>5. f = Body(f)
  BY <1>1, <1>3a, <1>4
<1>6. c = Body(c)
  BY <1>5
<1>7. \A k : SumOf(d, k) = c[k]
  BY DEF SumOf, n
<1> HIDE DEF c
<1>8. c[0] = 0 /\ \A i \in 1 .. n : c[i] = c[i - 1] + d[i]
  BY <1>1, <1>6
<1>9. 0 \in T
  BY <1>1, <1>8
<1>10. ASSUME NEW i \in 0 .. n - 1, i \in T PROVE i + 1 \in T
  <2>1. i + 1 \in 1 .. n /\ i + 1 \in 0 .. n /\ (i + 1) - 1 = i
    BY <1>1
  <2>2. c[i + 1] = c[i] + d[i + 1]
    BY <1>8, <2>1
  <2> QED BY <1>1, <1>10, <2>1, <2>2
<1>11. \A i \in 0 .. n : i \in T
  <2> HIDE DEF T
  <2> QED BY <1>1, <1>9, <1>10, UpTo
<1> QED BY <1>1, <1>7, <1>8, <1>11 DEF n

\* The frames end one after the other.
LEMMA EndSteps ==
  ASSUME NEW s \in Seq(Frame)
  PROVE  /\ EndOf(s, 0) = 0 /\ PayloadUpTo(s, 0) = 0
         /\ \A k \in 0 .. Len(s) : EndOf(s, k) \in Nat /\ PayloadUpTo(s, k) \in Nat
         /\ \A k \in 1 .. Len(s) :
               /\ s[k] \in Frame /\ s[k].len \in Nat /\ Size(s[k]) \in Nat
               /\ PayloadOffset(s[k]) \in Nat /\ Size(s[k]) = PayloadOffset(s[k]) + s[k].len
               /\ PayloadOffset(s[k]) >= 2 + s[k].ext /\ s[k].ext \in {0, 2, 8}
               /\ EndOf(s, k) = EndOf(s, k - 1) + Size(s[k])
               /\ PayloadUpTo(s, k) = PayloadUpTo(s, k - 1) + s[k].len
<1> DEFINE n == Len(s)
           d == [k \in 1 .. n |-> Size(s[k])]
           p == [k \in 1 .. n |-> s[k].len]
<1>1. n \in Nat /\ \A k \in 1 .. n : s[k] \in Frame
  OBVIOUS
<1>2. ASSUME NEW f \in Frame
      PROVE  /\ f.len \in Nat /\ Size(f) \in Nat /\ PayloadOffset(f) \in Nat
             /\ Size(f) = PayloadOffset(f) + f.len
             /\ PayloadOffset(f) >= 2 + f.ext /\ f.ext \in {0, 2, 8}
  <2>1. f.len \in Nat /\ f.ext \in {0, 2, 8} /\ f.mask \in {0, 4}
    BY DEF Frame
  <2> QED BY <2>1 DEF Size, PayloadOffset, WS_MIN_MSG_EXPECT_LEN
<1>3. /\ d \in Seq(Nat) /\ Len(d) = n /\ \A k \in 1 .. n : d[k] = Size(s[k])
      /\ p \in Seq(Nat) /\ Len(p) = n /\ \A k \in 1 .. n : p[k] = s[k].len
  BY <1>1, <1>2
<1>4. \A k : EndOf(s, k) = SumOf(d, k) /\ PayloadUpTo(s, k) = SumOf(p, k)
  BY DEF EndOf, PayloadUpTo
<1> HIDE DEF d, p
<1>5. /\ SumOf(d, 0) = 0
      /\ \A k \in 1 .. n : SumOf(d, k) = SumOf(d, k - 1) + d[k]
      /\ \A k \in 0 .. n : SumOf(d, k) \in Nat
  BY <1>3, SumSteps
<1>6. /\ SumOf(p, 0) = 0
      /\ \A k \in 1 .. n : SumOf(p, k) = SumOf(p, k - 1) + p[k]
      /\ \A k \in 0 .. n : SumOf(p, k) \in Nat
  BY <1>3, SumSteps
<1>7. ASSUME NEW k \in 1 .. n
      PROVE  /\ EndOf(s, k) = EndOf(s, k - 1) + Size(s[k])
             /\ PayloadUpTo(s, k) = PayloadUpTo(s, k - 1) + s[k].len
  BY <1>3, <1>4, <1>5, <1>6
<1>8. /\ EndOf(s, 0) = 0 /\ PayloadUpTo(s, 0) = 0
      /\ \A k \in 0 .. n : EndOf(s, k) \in Nat /\ PayloadUpTo(s, k) \in Nat
  BY <1>4, <1>5, <1>6
<1> QED BY <1>1, <1>2, <1>7, <1>8

\* A later frame ends later; so a position where a frame ends says which.
LEMMA EndsGrow ==
  ASSUME NEW s \in Seq(Frame), NEW j \in 0 .. Len(s), NEW k \in 0 .. Len(s)
  PROVE  /\ j < k => EndOf(s, j) < EndOf(s, k)
         /\ EndOf(s, j) = EndOf(s, k) => j = k
<1> DEFINE n == Len(s)
           e == [i \in 0 .. n |-> EndOf(s, i)]
           T == {i \in 0 .. n : \A h \in 0 .. n : h < i => e[h] < e[i]}
<1>1. n \in Nat /\ \A i \in 0 .. n : e[i] \in Nat
  BY EndSteps
<1>2. \A i \in 1 .. n : e[i - 1] < e[i]
  <2> SUFFICES ASSUME NEW i \in 1 .. n PROVE e[i - 1] < e[i]
    OBVIOUS
  <2>1. /\ EndOf(s, i) = EndOf(s, i - 1) + Size(s[i]) /\ Size(s[i]) \in Nat
        /\ Size(s[i]) = PayloadOffset(s[i]) + s[i].len /\ s[i].len \in Nat
        /\ PayloadOffset(s[i]) \in Nat /\ PayloadOffset(s[i]) >= 2 + s[i].ext
        /\ s[i].ext \in {0, 2, 8}
    BY EndSteps
  <2>2. Size(s[i]) >= 2
    BY <2>1
  <2>3. i - 1 \in 0 .. n /\ i \in 0 .. n
    BY <1>1
  <2>4. e[i] = e[i - 1] + Size(s[i]) /\ e[i - 1] \in Nat
    BY <1>1, <2>1, <2>3
  <2> HIDE DEF e
  <2> QED BY <2>1, <2>2, <2>4
<1>3. \A i \in 0 .. n : e[i] = EndOf(s, i)
  OBVIOUS
<1> HIDE DEF e
<1>4. 0 \in T
  BY <1>1
<1>5. ASSUME NEW i \in 0 .. n - 1, i \in T PROVE i + 1 \in T
  <2>1. i \in 0 .. n /\ i + 1 \in 1 .. n /\ (i + 1) - 1 = i /\ i + 1 \in 0 .. n
    BY <1>1
  <2>2. e[i] < e[i + 1] /\ e[i] \in Nat /\ e[i + 1] \in Nat
    BY <1>1, <1>2, <2>1
  <2>3. ASSUME NEW h \in 0 .. n, h < i + 1 PROVE e[h] < e[i + 1]
    <3>1. CASE h = i
      BY <2>2, <3>1
    <3>2. CASE h < i
      BY <1>1, <1>5, <2>2, <3>2
    <3> QED BY <2>1, <2>3, <3>1, <3>2
  <2> QED BY <2>1, <2>3
<1>6. \A i \in 0 .. n : i \in T
  <2> HIDE DEF T
  <2> QED BY <1>1, <1>4, <1>5, UpTo
<1>7. /\ j < k => e[j] < e[k]
      /\ k < j => e[k] < e[j]
  BY <1>6
<1> QED BY <1>1, <1>3, <1>7

\* The frame behind the first c starts where they end, and no other does.
LEMMA NextStarts ==
  ASSUME NEW s \in Seq(Frame), NEW c \in 0 .. Len(s)
  PROVE  /\ c < Len(s) => StartsAt(s, EndOf(s, c)) = {c + 1}
         /\ c = Len(s) => StartsAt(s, EndOf(s, c)) = {}
<1>1. Len(s) \in Nat
  OBVIOUS
<1>2. ASSUME NEW k \in 1 .. Len(s) PROVE StartOf(s, k) = EndOf(s, c) <=> k = c + 1
  <2>1. k - 1 \in 0 .. Len(s)
    BY <1>1
  <2>2. EndOf(s, k - 1) = EndOf(s, c) => k - 1 = c
    BY <2>1, EndsGrow
  <2>3. k - 1 = c <=> k = c + 1
    BY <1>1
  <2> QED BY <2>2, <2>3 DEF StartOf
<1>3. StartsAt(s, EndOf(s, c)) = {k \in 1 .. Len(s) : k = c + 1}
  BY <1>2 DEF StartsAt
<1>4. c < Len(s) <=> c + 1 \in 1 .. Len(s)
  BY <1>1
<1> QED BY <1>1, <1>3, <1>4

-----------------------------------------------------------------------------
(* The decoder's counters. *)

PayloadByte == [frame : Nat, at : Nat, plain : BOOLEAN]
Msg == [type : 0 .. 15, bytes : Seq(PayloadByte)]

Typed ==
    /\ stream \in Streams
    /\ base \in Nat /\ bufLen \in Nat /\ iCurFrameIndex \in Nat
    /\ iCurFrameLen \in Nat /\ iTotalFrameLen \in Nat
    /\ iOffset \in Nat /\ iPayloadOffset \in Nat
    /\ iComplete \in BOOLEAN /\ iRet \in {0, 1}
    /\ pc \in {"wait", "check", "scan", "extract", "deliver"}
    /\ mpMsg = <<>> \/ \E m \in Msg : mpMsg = <<m>>
    /\ delivered \in Seq(Msg)
    /\ cut \subseteq 1 .. Len(stream) /\ failed \subseteq {118, 152}

\* The frames scanned and not yet removed are those after the first b up to
\* the c-th, with a payload each.
Scanned(b, c) ==
    /\ b \in 0 .. Len(stream) /\ c \in b .. Len(stream)
    /\ base = EndOf(stream, b) /\ base + iCurFrameIndex = EndOf(stream, c)
    /\ PayloadUpTo(stream, b) + iTotalFrameLen = PayloadUpTo(stream, c)
    /\ \A k \in b + 1 .. c : stream[k].len > 0

InBuffer == iCurFrameIndex <= bufLen /\ base + bufLen <= StreamLen

\* The size waited for is that of the next frame, unless its header was cut.
Expected(c) ==
    iCurFrameLen # 0 =>
        c < Len(stream) /\ (iCurFrameLen = Size(stream[c + 1]) \/ c + 1 \in cut)

\* The first frame not scanned is left there for a good reason.
Left(c) ==
    pc = "wait" /\ c < Len(stream) /\ EndOf(stream, c + 1) <= base + bufLen =>
        c + 1 \in cut \/ stream[c + 1].len = 0

\* Two of the frames have different types, other than that of a continuation.
Mixed(b, c) ==
    \E i, j \in b + 1 .. c :
        /\ stream[i].op # stream[j].op
        /\ stream[i].op # WS_FRAME_CONTINUATION /\ stream[j].op # WS_FRAME_CONTINUATION

\* The frames after the first b up to the e-th are in the message, which has
\* the type of those that have one.
Extracted(b, e) ==
    /\ base + iOffset = EndOf(stream, e)
    /\ PayloadUpTo(stream, b) + iPayloadOffset = PayloadUpTo(stream, e)
    /\ mpMsg = <<>> => e = b
    /\ Len(TmpMsg.bytes) = iPayloadOffset
    /\ \A i \in b + 1 .. e : stream[i].op \in {TmpMsg.type, WS_FRAME_CONTINUATION}
    /\ TmpMsg.type # 0 => \E i \in b + 1 .. e : stream[i].op = TmpMsg.type

\* A message is made only while it is extracted, and iComplete without a
\* final frame in this call is left over from an assertion on frame types.
InHand(b, c) ==
    /\ pc = "scan" => iRet = 0
    /\ pc \in {"wait", "check", "scan"} => mpMsg = <<>>
    /\ pc = "deliver" => mpMsg # <<>>
    /\ iComplete => b < c
    /\ pc = "extract" => iComplete /\ \E e \in b .. c : Extracted(b, e)
    /\ iComplete => 152 \in failed \/ (pc = "extract" /\ iRet = 1)
    /\ 152 \in failed => iComplete /\ Mixed(b, c)

Sync(b, c) ==
    Typed /\ Scanned(b, c) /\ InBuffer /\ Expected(c) /\ Left(c) /\ InHand(b, c)

SyncInv == \E b, c \in 0 .. Len(stream) : Sync(b, c)

\* What is known of the numbers in Sync.
LEMMA Known ==
  ASSUME NEW b \in 0 .. Len(stream), NEW c \in 0 .. Len(stream), Typed, Scanned(b, c), InBuffer
  PROVE  /\ stream \in Seq(Frame) /\ Len(stream) \in Nat /\ b \in Nat /\ c \in Nat /\ b <= c
         /\ c <= Len(stream)
         /\ base \in Nat /\ iCurFrameIndex \in Nat /\ bufLen \in Nat
         /\ base = EndOf(stream, b) /\ base + iCurFrameIndex = EndOf(stream, c)
         /\ StreamLen = EndOf(stream, Len(stream)) /\ StreamLen \in Nat
         /\ iCurFrameIndex <= bufLen /\ base + bufLen <= StreamLen
<1>1. stream \in Seq(Frame) /\ Len(stream) \in Nat
  BY StreamsAssumption DEF Typed
<1>2. Len(stream) \in 0 .. Len(stream)
  BY <1>1
<1>3. StreamLen = EndOf(stream, Len(stream)) /\ StreamLen \in Nat
  BY <1>1, <1>2, EndSteps DEF StreamLen
<1> QED BY <1>1, <1>3 DEF Typed, Scanned, InBuffer

\* The frame TryDecodeLen decodes where the first k frames end.
LEMMA FrameThere ==
  ASSUME stream \in Seq(Frame), NEW o \in Nat, NEW k \in 0 .. Len(stream),
         base + o = EndOf(stream, k), k < Len(stream)
  PROVE  /\ FrameIndex(o) = k + 1 /\ FrameAt(o) = stream[k + 1] /\ k + 1 \in 1 .. Len(stream)
         /\ EndOf(stream, k + 1) = EndOf(stream, k) + Size(stream[k + 1])
         /\ PayloadUpTo(stream, k + 1) = PayloadUpTo(stream, k) + stream[k + 1].len
         /\ Size(stream[k + 1]) = PayloadOffset(stream[k + 1]) + stream[k + 1].len
         /\ stream[k + 1] \in Frame /\ stream[k + 1].len \in Nat
         /\ PayloadOffset(stream[k + 1]) \in Nat
         /\ PayloadOffset(stream[k + 1]) >= 2 + stream[k + 1].ext
         /\ stream[k + 1].ext \in {0, 2, 8}
         /\ EndOf(stream, k) \in Nat /\ PayloadUpTo(stream, k) \in Nat
         /\ EndOf(stream, k + 1) \in Nat /\ PayloadUpTo(stream, k + 1) \in Nat
<1>1. StartsAt(stream, EndOf(stream, k)) = {k + 1}
  BY NextStarts
<1>2. FrameIndex(o) = k + 1
  BY <1>1 DEF FrameIndex
<1>3. k + 1 \in 1 .. Len(stream) /\ k + 1 \in 0 .. Len(stream) /\ (k + 1) - 1 = k
  OBVIOUS
<1> DEFINE m == k + 1
<1> HIDE DEF m
<1>4. m \in 1 .. Len(stream) /\ m \in 0 .. Len(stream) /\ m - 1 = k
  BY <1>3 DEF m
<1>5. /\ EndOf(stream, m) = EndOf(stream, m - 1) + Size(stream[m])
      /\ PayloadUpTo(stream, m) = PayloadUpTo(stream, m - 1) + stream[m].len
      /\ Size(stream[m]) = PayloadOffset(stream[m]) + stream[m].len
      /\ stream[m] \in Frame /\ stream[m].len \in Nat /\ PayloadOffset(stream[m]) \in Nat
      /\ PayloadOffset(stream[m]) >= 2 + stream[m].ext /\ stream[m].ext \in {0, 2, 8}
  BY <1>4, EndSteps
<1>6. /\ EndOf(stream, k) \in Nat /\ PayloadUpTo(stream, k) \in Nat
      /\ EndOf(stream, m) \in Nat /\ PayloadUpTo(stream, m) \in Nat
  BY <1>4, EndSteps
<1> QED BY <1>2, <1>4, <1>5, <1>6 DEF FrameAt, m

\* The header that the scan looks at is that of the next frame.
LEMMA ScanSees ==
  ASSUME NEW b \in 0 .. Len(stream), NEW c \in 0 .. Len(stream), Typed, Scanned(b, c), InBuffer,
         bufLen >= WS_MIN_MSG_EXPECT_LEN + iCurFrameIndex
  PROVE  c < Len(stream)
<1>1. CASE c = Len(stream)
  BY <1>1, Known DEF WS_MIN_MSG_EXPECT_LEN
<1> QED BY <1>1, Known

\* A read, and the entry of DecodeMsg.
LEMMA ArriveSync ==
  ASSUME NEW b \in 0 .. Len(stream), NEW c \in 0 .. Len(stream), Sync(b, c),
         NEW n \in 1 .. StreamLen, Arrive(n)
  PROVE  Sync(b, c)'
<1>1. /\ pc = "wait" /\ base + bufLen + n <= StreamLen /\ bufLen' = bufLen + n /\ pc' = "check"
      /\ UNCHANGED <<stream, base, iCurFrameIndex, iCurFrameLen, iTotalFrameLen, iComplete, mpMsg,
                     iRet, iOffset, iPayloadOffset, delivered, cut, failed>>
  BY DEF Arrive, cache, extraction
<1>2. StreamLen' = StreamLen /\ n \in Nat
  BY <1>1, Known DEF StreamLen, Sync
<1>3. Typed' /\ Scanned(b, c)' /\ Expected(c)' /\ Left(c)' /\ InHand(b, c)'
  <2>1. Typed'
    BY <1>1, <1>2 DEF Sync, Typed
  <2>2. Scanned(b, c)' /\ Expected(c)' /\ Left(c)'
    BY <1>1 DEF Sync, Scanned, Expected, Left
  <2>3. InHand(b, c)'
    BY <1>1 DEF Sync, InHand, Mixed
  <2> QED BY <2>1, <2>2, <2>3
<1>4. InBuffer'
  BY <1>1, <1>2, Known DEF Sync, InBuffer
<1> QED BY <1>3, <1>4 DEF Sync

\* DecodeMsg begins, and a frame that is there is not left for its size.
LEMMA CheckSync ==
  ASSUME NEW b \in 0 .. Len(stream), NEW c \in 0 .. Len(stream), Sync(b, c), CheckLen
  PROVE  Sync(b, c)'
<1>1. /\ pc = "check" /\ iRet' = 0
      /\ pc' = IF iCurFrameLen + iCurFrameIndex > bufLen THEN "wait" ELSE "scan"
      /\ UNCHANGED <<stream, base, bufLen, iCurFrameIndex, iCurFrameLen, iTotalFrameLen, iComplete,
                     mpMsg, iOffset, iPayloadOffset, delivered, cut, failed>>
  BY DEF CheckLen, cache, extraction
<1>2. StreamLen' = StreamLen
  BY <1>1 DEF StreamLen
<1>3. Typed' /\ Scanned(b, c)' /\ Expected(c)' /\ InHand(b, c)' /\ InBuffer'
  <2>1. pc' \in {"wait", "scan"} /\ iRet' \in {0, 1}
    BY <1>1
  <2>2. Typed'
    BY <1>1, <2>1 DEF Sync, Typed
  <2>3. Scanned(b, c)' /\ Expected(c)' /\ InBuffer'
    BY <1>1, <1>2 DEF Sync, Scanned, Expected, InBuffer
  <2>4. InHand(b, c)'
    BY <1>1, <2>1 DEF Sync, InHand, Mixed
  <2> QED BY <2>2, <2>3, <2>4
<1>4. Left(c)'
  <2> SUFFICES ASSUME pc' = "wait", c < Len(stream), EndOf(stream, c + 1) <= base + bufLen
               PROVE  c + 1 \in cut
    BY <1>1 DEF Left
  <2>1. iCurFrameLen + iCurFrameIndex > bufLen /\ iCurFrameLen \in Nat
    BY <1>1 DEF Sync, Typed
  <2>2. iCurFrameLen # 0
    BY <2>1, Known DEF Sync
  <2>3. iCurFrameLen = Size(stream[c + 1]) \/ c + 1 \in cut
    BY <2>2 DEF Sync, Expected
  <2>4. EndOf(stream, c + 1) = EndOf(stream, c) + Size(stream[c + 1])
        /\ EndOf(stream, c) = base + iCurFrameIndex
    BY Known, FrameThere DEF Sync
  <2> QED BY <2>1, <2>3, <2>4, Known DEF Sync
<1> QED BY <1>3, <1>4 DEF Sync

\* The extraction starts at the front of the buffer, with no message.
LEMMA ExtractionStarts ==
  ASSUME NEW b \in 0 .. Len(stream), base = EndOf(stream, b), stream \in Seq(Frame),
         UNCHANGED <<stream, base>>, mpMsg' = <<>>, iOffset' = 0, iPayloadOffset' = 0
  PROVE  Extracted(b, b)'
<1>1. TmpMsg' = NewMsg
  BY DEF TmpMsg, NewMsg
<1>2. TmpMsg'.type = 0 /\ Len(TmpMsg'.bytes) = 0
  BY <1>1 DEF NewMsg
<1>3. EndOf(stream, b) \in Nat /\ PayloadUpTo(stream, b) \in Nat /\ Len(stream) \in Nat
  BY EndSteps
<1>4. \A i \in b + 1 .. b : FALSE
  BY <1>3
<1> QED BY <1>2, <1>3, <1>4 DEF Extracted

\* What the scan leaves alone, and what leaving the scan loop does.
LEMMA ScanLeft ==
  ASSUME NEW b \in 0 .. Len(stream), NEW c \in 0 .. Len(stream), Sync(b, c), pc = "scan",
         UNCHANGED <<stream, base, bufLen, mpMsg, delivered, iCurFrameIndex, iTotalFrameLen,
                     iComplete, iRet>>,
         cut' \subseteq 1 .. Len(stream), cut \subseteq cut', failed' \subseteq {118, 152},
         152 \in failed' <=> 152 \in failed,
         iCurFrameLen' \in Nat, Expected(c)', Left(c)',
         \/ pc' = "wait" /\ iOffset' \in Nat /\ iPayloadOffset' \in Nat
         \/ pc' = "extract" /\ iComplete /\ iOffset' = 0 /\ iPayloadOffset' = 0
  PROVE  Sync(b, c)'
<1>1. pc' \in {"wait", "extract"} /\ iOffset' \in Nat /\ iPayloadOffset' \in Nat
  OBVIOUS
<1>2. Typed'
  BY <1>1 DEF Sync, Typed
<1>3. StreamLen' = StreamLen /\ Scanned(b, c)' /\ InBuffer'
  BY DEF Sync, Scanned, InBuffer, StreamLen
<1>4. mpMsg = <<>> /\ iRet = 0 /\ (iComplete => b < c /\ 152 \in failed)
      /\ (152 \in failed => iComplete /\ Mixed(b, c))
  BY DEF Sync, InHand
<1>5. pc' = "extract" => \E e \in b .. c : Extracted(b, e)'
  <2> SUFFICES ASSUME pc' = "extract" PROVE \E e \in b .. c : Extracted(b, e)'
    OBVIOUS
  <2>1. b \in b .. c
    BY Known DEF Sync
  <2>2. /\ base = EndOf(stream, b) /\ stream \in Seq(Frame)
        /\ mpMsg' = <<>> /\ iOffset' = 0 /\ iPayloadOffset' = 0
    BY <1>4, Known DEF Sync
  <2>3. Extracted(b, b)'
    BY <2>2, ExtractionStarts
  <2> QED BY <2>1, <2>3
<1>6. InHand(b, c)'
  BY <1>1, <1>4, <1>5 DEF InHand, Mixed
<1> QED BY <1>2, <1>3, <1>6 DEF Sync

\* Less than a header is left to scan.
LEMMA ScanDoneSync ==
  ASSUME NEW b \in 0 .. Len(stream), NEW c \in 0 .. Len(stream), Sync(b, c), ScanDone
  PROVE  Sync(b, c)'
<1>1. /\ pc = "scan" /\ bufLen < WS_MIN_MSG_EXPECT_LEN + iCurFrameIndex
      /\ pc' = (IF iComplete THEN "extract" ELSE "wait") /\ iOffset' = 0 /\ iPayloadOffset' = 0
      /\ UNCHANGED <<stream, base, bufLen, iCurFrameIndex, iCurFrameLen, iTotalFrameLen, iComplete,
                     mpMsg, iRet, delivered, cut, failed>>
  BY DEF ScanDone, EndScan, cache
<1>2. Left(c)'
  <2> SUFFICES ASSUME c < Len(stream), EndOf(stream, c + 1) <= base + bufLen PROVE FALSE
    BY <1>1 DEF Left
  <2>1. /\ EndOf(stream, c + 1) = EndOf(stream, c) + Size(stream[c + 1])
        /\ Size(stream[c + 1]) = PayloadOffset(stream[c + 1]) + stream[c + 1].len
        /\ PayloadOffset(stream[c + 1]) >= 2 + stream[c + 1].ext
        /\ PayloadOffset(stream[c + 1]) \in Nat
        /\ stream[c + 1].ext \in {0, 2, 8} /\ stream[c + 1].len \in Nat
    BY Known, FrameThere DEF Sync
  <2>2. Size(stream[c + 1]) >= 2 /\ Size(stream[c + 1]) \in Nat
    BY <2>1
  <2>3. EndOf(stream, c) + 2 > base + bufLen
    BY <1>1, Known DEF Sync, WS_MIN_MSG_EXPECT_LEN
  <2> QED BY <2>1, <2>2, <2>3, Known DEF Sync
<1>3. Expected(c)' /\ iCurFrameLen' \in Nat /\ cut' \subseteq 1 .. Len(stream)
      /\ failed' \subseteq {118, 152}
  BY <1>1 DEF Sync, Expected, Typed
<1> QED BY <1>1, <1>2, <1>3, ScanLeft

\* A header that is scanned, up to the length decoded from it.
LEMMA HeaderSeen ==
  ASSUME NEW b \in 0 .. Len(stream), NEW c \in 0 .. Len(stream), Sync(b, c),
         NEW len, ScanHeader(len)
  PROVE  /\ c < Len(stream) /\ pc = "scan"
         /\ FrameIndex(iCurFrameIndex) = c + 1 /\ FrameAt(iCurFrameIndex) = stream[c + 1]
         /\ ExpectSize(iCurFrameIndex, len) = PayloadOffset(stream[c + 1]) + len
         /\ len \in Nat /\ cut \subseteq cut' /\ cut' \subseteq 1 .. Len(stream)
         /\ len = stream[c + 1].len \/ c + 1 \in cut'
         /\ bufLen >= iCurFrameIndex + 2 + stream[c + 1].ext => len = stream[c + 1].len
<1>1. c < Len(stream) /\ pc = "scan"
  BY ScanSees DEF Sync, ScanHeader
<1>2. FrameIndex(iCurFrameIndex) = c + 1 /\ FrameAt(iCurFrameIndex) = stream[c + 1]
      /\ stream[c + 1].len \in Nat /\ c + 1 \in 1 .. Len(stream)
  BY <1>1, Known, FrameThere DEF Sync
<1>3. ExpectSize(iCurFrameIndex, len) = PayloadOffset(stream[c + 1]) + len
  BY <1>2 DEF ExpectSize
<1>4. CASE LengthArrived(iCurFrameIndex)
  <2>1. cut' = cut /\ len = stream[c + 1].len
    BY <1>2, <1>4 DEF ScanHeader, DecodedLens
  <2> QED BY <1>1, <1>2, <1>3, <2>1 DEF Sync, Typed
<1>5. CASE ~LengthArrived(iCurFrameIndex)
  <2>1. cut' = cut \cup {c + 1} /\ len \in StaleLens
    BY <1>2, <1>5 DEF ScanHeader, DecodedLens
  <2>2. ~ (bufLen >= iCurFrameIndex + 2 + stream[c + 1].ext)
    BY <1>2, <1>5 DEF LengthArrived, WS_MIN_MSG_EXPECT_LEN
  <2>3. len \in Nat /\ cut \subseteq 1 .. Len(stream)
    BY <2>1, StaleLensAssumption DEF Sync, Typed
  <2> QED BY <1>1, <1>2, <1>3, <2>1, <2>2, <2>3
<1> QED BY <1>4, <1>5

\* The payload of the frame at hand is empty, or its header says so in bytes
\* that did not arrive: the decoder stays in front of it.
LEMMA ScanEmptySync ==
  ASSUME NEW b \in 0 .. Len(stream), NEW c \in 0 .. Len(stream), Sync(b, c), ScanEmpty
  PROVE  Sync(b, c)'
<1>1. /\ ScanHeader(0) /\ failed' = failed \cup {118}
      /\ pc' = (IF iRet = 0 THEN "wait" ELSE "deliver")
      /\ UNCHANGED <<stream, base, bufLen, iCurFrameIndex, iCurFrameLen, iTotalFrameLen, iComplete,
                     mpMsg, iRet, iOffset, iPayloadOffset, delivered>>
  BY DEF ScanEmpty, ScanHeader, cache, extraction
<1>2. /\ c < Len(stream) /\ pc = "scan" /\ cut \subseteq cut' /\ cut' \subseteq 1 .. Len(stream)
      /\ 0 = stream[c + 1].len \/ c + 1 \in cut'
  BY <1>1, HeaderSeen
<1>3. pc' = "wait"
  BY <1>1, <1>2 DEF Sync, InHand
<1>4. Expected(c)' /\ Left(c)'
  BY <1>1, <1>2 DEF Sync, Expected, Left
<1>5. iCurFrameLen' \in Nat /\ iOffset' \in Nat /\ iPayloadOffset' \in Nat
      /\ failed' \subseteq {118, 152} /\ (152 \in failed' <=> 152 \in failed)
  BY <1>1 DEF Sync, Typed
<1> QED BY <1>1, <1>2, <1>3, <1>4, <1>5, ScanLeft

\* The frame at hand is not complete, or its header was cut.
LEMMA ScanIncompleteSync ==
  ASSUME NEW b \in 0 .. Len(stream), NEW c \in 0 .. Len(stream), Sync(b, c),
         NEW len, ScanIncomplete(len)
  PROVE  Sync(b, c)'
<1>0. /\ base \in Nat /\ iCurFrameIndex \in Nat /\ bufLen \in Nat /\ b \in Nat /\ c \in Nat /\ b <= c
      /\ base + iCurFrameIndex = EndOf(stream, c) /\ iCurFrameIndex <= bufLen
      /\ iTotalFrameLen \in Nat /\ Len(stream) \in Nat
  BY Known DEF Sync, Typed
<1>1. /\ ScanHeader(len) /\ ExpectSize(iCurFrameIndex, len) + iCurFrameIndex > bufLen
      /\ iCurFrameLen' = ExpectSize(iCurFrameIndex, len)
      /\ pc' = (IF iComplete THEN "extract" ELSE "wait") /\ iOffset' = 0 /\ iPayloadOffset' = 0
      /\ UNCHANGED <<stream, base, bufLen, iCurFrameIndex, iTotalFrameLen, iComplete,
                     mpMsg, iRet, delivered, failed>>
  BY DEF ScanIncomplete, ScanHeader, EndScan
<1>2. /\ c < Len(stream) /\ pc = "scan" /\ cut \subseteq cut' /\ cut' \subseteq 1 .. Len(stream)
      /\ ExpectSize(iCurFrameIndex, len) = PayloadOffset(stream[c + 1]) + len /\ len \in Nat
      /\ len = stream[c + 1].len \/ c + 1 \in cut'
  BY <1>1, HeaderSeen
<1>3. /\ EndOf(stream, c + 1) = EndOf(stream, c) + Size(stream[c + 1])
      /\ Size(stream[c + 1]) = PayloadOffset(stream[c + 1]) + stream[c + 1].len
      /\ PayloadOffset(stream[c + 1]) \in Nat /\ stream[c + 1].len \in Nat
  BY <1>2, Known, FrameThere DEF Sync
<1>4. Expected(c)' /\ iCurFrameLen' \in Nat
  BY <1>1, <1>2, <1>3 DEF Expected
<1>5. Left(c)'
  <2>1. ASSUME c + 1 \notin cut' PROVE EndOf(stream, c + 1) > base + bufLen
    <3>1. len = stream[c + 1].len
      BY <1>2, <2>1
    <3>2. Size(stream[c + 1]) + iCurFrameIndex > bufLen
      BY <1>1, <1>2, <1>3, <3>1
    <3>3. Size(stream[c + 1]) \in Nat
      BY <1>3
    <3> QED BY <1>0, <1>3, <3>2, <3>3
  <2>2. EndOf(stream, c + 1) \in Nat /\ base + bufLen \in Nat
    <3>1. c + 1 \in 0 .. Len(stream) /\ stream \in Seq(Frame)
      BY <1>0, <1>2, Known DEF Sync
    <3>2. EndOf(stream, c + 1) \in Nat
      BY <3>1, EndSteps
    <3> QED BY <1>0, <3>2
  <2>3. EndOf(stream, c + 1) <= base + bufLen => c + 1 \in cut'
    BY <2>1, <2>2
  <2> QED BY <1>1, <2>3 DEF Left
<1>6. failed' \subseteq {118, 152}
  BY <1>1 DEF Sync, Typed
<1> QED BY <1>1, <1>2, <1>4, <1>5, <1>6, ScanLeft

\* The next frame is scanned.
LEMMA ScanFrameSync ==
  ASSUME NEW b \in 0 .. Len(stream), NEW c \in 0 .. Len(stream), Sync(b, c),
         NEW len, ScanFrame(len)
  PROVE  /\ c < Len(stream) /\ Sync(b, c + 1)' /\ iComplete' = (iComplete \/ stream[c + 1].fin)
         /\ pc' = (IF stream[c + 1].fin THEN "extract" ELSE "scan")
         /\ iRet' = (IF stream[c + 1].fin THEN 1 ELSE iRet)
<1> DEFINE f == stream[c + 1]
<1>0. /\ base \in Nat /\ iCurFrameIndex \in Nat /\ bufLen \in Nat /\ b \in Nat /\ c \in Nat /\ b <= c
      /\ base + iCurFrameIndex = EndOf(stream, c) /\ iCurFrameIndex <= bufLen
      /\ iTotalFrameLen \in Nat /\ Len(stream) \in Nat
  BY Known DEF Sync, Typed
<1>1. /\ ScanHeader(len) /\ len > 0
      /\ ExpectSize(iCurFrameIndex, len) + iCurFrameIndex <= bufLen
      /\ iCurFrameIndex' = iCurFrameIndex + ExpectSize(iCurFrameIndex, len)
      /\ iTotalFrameLen' = iTotalFrameLen + len /\ iCurFrameLen' = 0
      /\ iComplete' = (iComplete \/ FrameAt(iCurFrameIndex).fin)
      /\ iRet' = (IF FrameAt(iCurFrameIndex).fin THEN 1 ELSE iRet)
      /\ IF FrameAt(iCurFrameIndex).fin THEN EndScan(TRUE) ELSE UNCHANGED <<pc, extraction>>
      /\ UNCHANGED <<stream, base, bufLen, mpMsg, delivered, failed>>
  BY DEF ScanFrame, ScanHeader
<1>2. /\ c < Len(stream) /\ pc = "scan" /\ cut \subseteq cut' /\ cut' \subseteq 1 .. Len(stream)
      /\ ExpectSize(iCurFrameIndex, len) = PayloadOffset(f) + len /\ len \in Nat
      /\ FrameAt(iCurFrameIndex) = f
      /\ bufLen >= iCurFrameIndex + 2 + f.ext => len = f.len
  BY <1>1, HeaderSeen
<1>3. /\ EndOf(stream, c + 1) = EndOf(stream, c) + Size(f)
      /\ PayloadUpTo(stream, c + 1) = PayloadUpTo(stream, c) + f.len
      /\ Size(f) = PayloadOffset(f) + f.len /\ f.len \in Nat
      /\ PayloadOffset(f) \in Nat /\ PayloadOffset(f) >= 2 + f.ext /\ f.ext \in {0, 2, 8}
      /\ f \in Frame /\ EndOf(stream, c) \in Nat /\ PayloadUpTo(stream, c) \in Nat
      /\ iCurFrameIndex \in Nat /\ bufLen \in Nat /\ iTotalFrameLen \in Nat
  <2>1. /\ stream \in Seq(Frame) /\ iCurFrameIndex \in Nat /\ bufLen \in Nat
        /\ base + iCurFrameIndex = EndOf(stream, c)
    BY Known DEF Sync
  <2>2. iTotalFrameLen \in Nat
    BY DEF Sync, Typed
  <2>3. /\ EndOf(stream, c + 1) = EndOf(stream, c) + Size(f)
        /\ PayloadUpTo(stream, c + 1) = PayloadUpTo(stream, c) + f.len
        /\ Size(f) = PayloadOffset(f) + f.len /\ f.len \in Nat
        /\ PayloadOffset(f) \in Nat /\ PayloadOffset(f) >= 2 + f.ext /\ f.ext \in {0, 2, 8}
        /\ f \in Frame
    BY <1>2, <2>1, FrameThere
  <2>4. EndOf(stream, c) \in Nat /\ PayloadUpTo(stream, c) \in Nat
    BY <2>1, EndSteps
  <2> QED BY <2>1, <2>2, <2>3, <2>4
<1>4. len = f.len
  <2> HIDE DEF f
  <2>1. PayloadOffset(f) + len + iCurFrameIndex <= bufLen
    BY <1>1, <1>2
  <2>2. PayloadOffset(f) \in Nat /\ PayloadOffset(f) >= 2 + f.ext /\ f.ext \in Nat
    <3>1. PayloadOffset(f) \in Nat /\ PayloadOffset(f) >= 2 + f.ext /\ f.ext \in {0, 2, 8}
      BY <1>3
    <3> QED BY <3>1
  <2>3. len \in Nat /\ bufLen \in Nat /\ iCurFrameIndex \in Nat
    BY <1>0, <1>2
  <2>4. bufLen >= iCurFrameIndex + 2 + f.ext
    BY <2>1, <2>2, <2>3
  <2> QED BY <1>2, <2>4
<1>5. f.fin \in BOOLEAN
  BY <1>3 DEF Frame
<1>6. /\ f.fin => pc' = "extract" /\ iOffset' = 0 /\ iPayloadOffset' = 0
      /\ ~f.fin => pc' = "scan" /\ iOffset' = iOffset /\ iPayloadOffset' = iPayloadOffset
  BY <1>1, <1>2 DEF EndScan, extraction
<1>7. /\ iComplete' = (iComplete \/ f.fin) /\ iRet' = (IF f.fin THEN 1 ELSE iRet)
      /\ iCurFrameIndex' = iCurFrameIndex + Size(f) /\ iTotalFrameLen' = iTotalFrameLen + f.len
      /\ iCurFrameIndex' <= bufLen /\ Size(f) \in Nat
  <2> HIDE DEF f
  <2>1. ExpectSize(iCurFrameIndex, len) = Size(f) /\ FrameAt(iCurFrameIndex) = f
    BY <1>2, <1>3, <1>4
  <2>2. /\ iComplete' = (iComplete \/ f.fin) /\ iRet' = (IF f.fin THEN 1 ELSE iRet)
        /\ iCurFrameIndex' = iCurFrameIndex + Size(f) /\ Size(f) + iCurFrameIndex <= bufLen
    BY <1>1, <2>1
  <2>3. iTotalFrameLen' = iTotalFrameLen + f.len
    BY <1>1, <1>4
  <2>4. Size(f) \in Nat
    BY <1>3
  <2>5. iCurFrameIndex' <= bufLen
    BY <1>0, <2>2, <2>4
  <2> QED BY <2>2, <2>3, <2>4, <2>5
<1> HIDE DEF f
<1>8. Typed'
  <2>1. iCurFrameIndex' \in Nat /\ iTotalFrameLen' \in Nat
    <3>1. f.len \in Nat
      BY <1>3
    <3>2. /\ iCurFrameIndex' = iCurFrameIndex + Size(f) /\ Size(f) \in Nat
          /\ iTotalFrameLen' = iTotalFrameLen + f.len
      BY <1>7
    <3>3. iCurFrameIndex \in Nat /\ iTotalFrameLen \in Nat
      BY <1>0
    <3> QED BY <3>1, <3>2, <3>3
  <2>2. iComplete' \in BOOLEAN /\ iRet' \in {0, 1}
    BY <1>5, <1>7 DEF Sync, Typed
  <2>3. iOffset' \in Nat /\ iPayloadOffset' \in Nat
        /\ pc' \in {"wait", "check", "scan", "extract", "deliver"}
    BY <1>5, <1>6 DEF Sync, Typed
  <2> QED BY <1>1, <1>2, <2>1, <2>2, <2>3 DEF Sync, Typed
<1>9. Scanned(b, c + 1)'
  <2>1. b \in 0 .. Len(stream) /\ c + 1 \in b .. Len(stream) /\ b + 1 .. c + 1 = (b + 1 .. c) \cup {c + 1}
    BY <1>2, Known DEF Sync
  <2>2. base + iCurFrameIndex' = EndOf(stream, c + 1)
    <3>1. EndOf(stream, c + 1) = EndOf(stream, c) + Size(f)
      BY <1>3
    <3> QED BY <1>0, <1>7, <3>1
  <2>3. PayloadUpTo(stream, b) + iTotalFrameLen' = PayloadUpTo(stream, c + 1)
    <3>1. PayloadUpTo(stream, b) \in Nat
      BY Known, EndSteps DEF Sync
    <3>2. PayloadUpTo(stream, b) + iTotalFrameLen = PayloadUpTo(stream, c)
      BY DEF Sync, Scanned
    <3>3. PayloadUpTo(stream, c + 1) = PayloadUpTo(stream, c) + f.len /\ f.len \in Nat
      BY <1>3
    <3>4. iTotalFrameLen \in Nat /\ iTotalFrameLen' = iTotalFrameLen + f.len
      BY <1>0, <1>7
    <3> QED BY <3>1, <3>2, <3>3, <3>4
  <2>4. \A k \in b + 1 .. c + 1 : stream[k].len > 0
    BY <1>1, <1>4, <2>1 DEF Sync, Scanned, f
  <2> QED BY <1>1, <2>1, <2>2, <2>3, <2>4 DEF Sync, Scanned
<1>10. InBuffer' /\ Expected(c + 1)' /\ Left(c + 1)' /\ StreamLen' = StreamLen
  BY <1>1, <1>5, <1>6, <1>7, Known DEF Sync, InBuffer, Expected, Left, StreamLen
<1>11. InHand(b, c + 1)'
  <2>1. mpMsg = <<>> /\ iRet = 0 /\ (iComplete => b < c /\ 152 \in failed)
        /\ (152 \in failed => iComplete /\ Mixed(b, c))
    BY <1>2 DEF Sync, InHand
  <2>2. 152 \in failed => Mixed(b, c + 1)'
    BY <1>1, <2>1, Known DEF Mixed, Sync
  <2>3. b < c + 1 /\ b \in b .. c + 1
    BY Known DEF Sync
  <2>4. f.fin => Extracted(b, b)'
    <3> SUFFICES ASSUME f.fin PROVE Extracted(b, b)'
      OBVIOUS
    <3>1. /\ base = EndOf(stream, b) /\ stream \in Seq(Frame) /\ UNCHANGED <<stream, base>>
          /\ mpMsg' = <<>> /\ iOffset' = 0 /\ iPayloadOffset' = 0
      BY <1>1, <1>6, <2>1, Known DEF Sync
    <3> QED BY <3>1, ExtractionStarts
  <2>5. CASE f.fin
    BY <1>1, <1>6, <1>7, <2>1, <2>2, <2>3, <2>4, <2>5 DEF InHand
  <2>6. CASE ~f.fin
    BY <1>1, <1>6, <1>7, <2>1, <2>2, <2>3, <2>6 DEF InHand
  <2> QED BY <2>5, <2>6
<1> QED BY <1>2, <1>5, <1>6, <1>7, <1>8, <1>9, <1>10, <1>11 DEF Sync, f

\* Payloads add up: the first k frames have no more than the first j, for
\* k up to j.
LEMMA PayloadsGrow ==
  ASSUME NEW s \in Seq(Frame), NEW k \in 0 .. Len(s), NEW j \in 0 .. Len(s), k <= j
  PROVE  PayloadUpTo(s, k) <= PayloadUpTo(s, j)
<1> DEFINE n == Len(s)
           p == [i \in 0 .. n |-> PayloadUpTo(s, i)]
           T == {i \in 0 .. n : \A h \in 0 .. n : h <= i => p[h] <= p[i]}
<1>1. n \in Nat /\ \A i \in 0 .. n : p[i] \in Nat /\ p[i] = PayloadUpTo(s, i)
  BY EndSteps
<1>2. \A i \in 1 .. n : p[i - 1] <= p[i]
  <2> SUFFICES ASSUME NEW i \in 1 .. n PROVE p[i - 1] <= p[i]
    OBVIOUS
  <2>1. PayloadUpTo(s, i) = PayloadUpTo(s, i - 1) + s[i].len /\ s[i].len \in Nat
    BY EndSteps
  <2>2. i - 1 \in 0 .. n /\ i \in 0 .. n
    BY <1>1
  <2>3. p[i] = p[i - 1] + s[i].len /\ p[i - 1] \in Nat
    BY <1>1, <2>1, <2>2
  <2> HIDE DEF p
  <2> QED BY <2>1, <2>3
<1> HIDE DEF p
<1>3. 0 \in T
  BY <1>1
<1>4. ASSUME NEW i \in 0 .. n - 1, i \in T PROVE i + 1 \in T
  <2>1. i \in 0 .. n /\ i + 1 \in 1 .. n /\ (i + 1) - 1 = i /\ i + 1 \in 0 .. n
    BY <1>1
  <2>2. p[i] <= p[i + 1] /\ p[i] \in Nat /\ p[i + 1] \in Nat
    BY <1>1, <1>2, <2>1
  <2>3. ASSUME NEW h \in 0 .. n, h <= i + 1 PROVE p[h] <= p[i + 1]
    <3>1. CASE h = i + 1
      BY <2>2, <3>1
    <3>2. CASE h <= i
      BY <1>1, <1>4, <2>2, <3>2
    <3> QED BY <2>1, <2>3, <3>1, <3>2
  <2> QED BY <2>1, <2>3
<1>5. \A i \in 0 .. n : i \in T
  <2> HIDE DEF T
  <2> QED BY <1>1, <1>3, <1>4, UpTo
<1>6. p[k] <= p[j]
  BY <1>5
<1> QED BY <1>1, <1>6

\* The loop of the extraction goes on until every frame scanned is in the
\* message.
LEMMA ExtractingUpTo ==
  ASSUME NEW b \in 0 .. Len(stream), NEW c \in 0 .. Len(stream), Sync(b, c), pc = "extract",
         NEW e \in b .. c, Extracted(b, e)
  PROVE  /\ Extracting <=> e < c
         /\ e = c => iOffset = iCurFrameIndex /\ iPayloadOffset = iTotalFrameLen
<1>1. /\ e \in 0 .. Len(stream) /\ stream \in Seq(Frame) /\ e \in Nat /\ c \in Nat /\ e <= c
      /\ base \in Nat /\ iCurFrameIndex \in Nat /\ base + iCurFrameIndex = EndOf(stream, c)
  BY Known DEF Sync
<1>2. iOffset \in Nat /\ iPayloadOffset \in Nat /\ iTotalFrameLen \in Nat
  BY DEF Sync, Typed
<1>3. /\ EndOf(stream, e) = base + iOffset
      /\ PayloadUpTo(stream, b) + iPayloadOffset = PayloadUpTo(stream, e)
      /\ PayloadUpTo(stream, b) + iTotalFrameLen = PayloadUpTo(stream, c)
  BY DEF Sync, Scanned, Extracted
<1>4. PayloadUpTo(stream, b) \in Nat /\ PayloadUpTo(stream, e) \in Nat /\ PayloadUpTo(stream, c) \in Nat
  BY <1>1, EndSteps
<1>5. PayloadUpTo(stream, e) <= PayloadUpTo(stream, c)
  BY <1>1, PayloadsGrow
<1>6. iPayloadOffset <= iTotalFrameLen
  BY <1>2, <1>3, <1>4, <1>5
<1>7. e < c => EndOf(stream, e) < EndOf(stream, c)
  BY <1>1, EndsGrow
<1>8. e < c => iOffset < iCurFrameIndex
  BY <1>1, <1>2, <1>3, <1>7
<1>9. e = c => iOffset = iCurFrameIndex /\ iPayloadOffset = iTotalFrameLen
  BY <1>1, <1>2, <1>3, <1>4
<1> QED BY <1>1, <1>2, <1>6, <1>8, <1>9 DEF Extracting

\* The header that the extraction looks at was decoded before, by the scan.
LEMMA ExtractSees ==
  ASSUME NEW b \in 0 .. Len(stream), NEW c \in 0 .. Len(stream), Sync(b, c), pc = "extract",
         NEW e \in b .. c, Extracted(b, e), e < c
  PROVE  /\ e \in 0 .. Len(stream) /\ e < Len(stream) /\ e + 1 \in b + 1 .. c
         /\ FrameIndex(iOffset) = e + 1 /\ FrameAt(iOffset) = stream[e + 1]
         /\ e + 1 \in 1 .. Len(stream) /\ stream[e + 1] \in Frame
         /\ DecodedLens(iOffset) = {stream[e + 1].len} /\ stream[e + 1].len \in Nat \ {0}
         /\ EndOf(stream, e + 1) = EndOf(stream, e) + Size(stream[e + 1])
         /\ PayloadUpTo(stream, e + 1) = PayloadUpTo(stream, e) + stream[e + 1].len
         /\ ExpectSize(iOffset, stream[e + 1].len) = Size(stream[e + 1])
         /\ Size(stream[e + 1]) \in Nat /\ PayloadUpTo(stream, e) \in Nat
<1> DEFINE f == stream[e + 1]
<1>1. /\ e \in 0 .. Len(stream) /\ e < Len(stream) /\ stream \in Seq(Frame) /\ e \in Nat
      /\ c \in Nat /\ e + 1 <= c /\ e + 1 \in b + 1 .. c /\ e + 1 \in 0 .. Len(stream)
      /\ base \in Nat /\ iCurFrameIndex \in Nat /\ bufLen \in Nat /\ iCurFrameIndex <= bufLen
      /\ base + iCurFrameIndex = EndOf(stream, c)
  BY Known DEF Sync
<1>2. iOffset \in Nat /\ EndOf(stream, e) = base + iOffset
  BY DEF Sync, Typed, Extracted
<1>3. /\ FrameIndex(iOffset) = e + 1 /\ FrameAt(iOffset) = f /\ e + 1 \in 1 .. Len(stream)
      /\ EndOf(stream, e + 1) = EndOf(stream, e) + Size(f)
      /\ PayloadUpTo(stream, e + 1) = PayloadUpTo(stream, e) + f.len
      /\ Size(f) = PayloadOffset(f) + f.len
      /\ f \in Frame /\ f.len \in Nat /\ PayloadOffset(f) \in Nat
      /\ PayloadOffset(f) >= 2 + f.ext /\ f.ext \in {0, 2, 8}
      /\ PayloadUpTo(stream, e) \in Nat /\ EndOf(stream, e + 1) \in Nat
  BY <1>1, <1>2, FrameThere
<1>4. f.len # 0
  BY <1>1, <1>3 DEF Sync, Scanned
<1>5. EndOf(stream, e + 1) <= EndOf(stream, c)
  <2>1. CASE e + 1 = c
    BY <1>3, <2>1
  <2>2. CASE e + 1 < c
    <3>1. EndOf(stream, c) \in Nat
      BY <1>1
    <3> QED BY <1>1, <1>3, <2>2, <3>1, EndsGrow
  <2> QED BY <1>1, <2>1, <2>2
<1>6. Size(f) \in Nat /\ ExpectSize(iOffset, f.len) = Size(f)
  BY <1>3 DEF ExpectSize
<1>7. LengthArrived(iOffset)
  <2> HIDE DEF f
  <2>1. iOffset + Size(f) <= bufLen
    <3>1. base + iOffset + Size(f) <= base + iCurFrameIndex
      BY <1>1, <1>2, <1>3, <1>5
    <3> QED BY <1>1, <1>2, <1>6, <3>1
  <2>2. Size(f) >= 2 + f.ext /\ f.ext \in Nat
    <3>1. /\ Size(f) = PayloadOffset(f) + f.len /\ f.len \in Nat /\ PayloadOffset(f) \in Nat
          /\ PayloadOffset(f) >= 2 + f.ext /\ f.ext \in Nat
      BY <1>3
    <3> QED BY <3>1
  <2>3. bufLen >= iOffset + 2 + f.ext
    BY <1>1, <1>2, <1>6, <2>1, <2>2
  <2> QED BY <1>3, <2>3 DEF LengthArrived, WS_MIN_MSG_EXPECT_LEN
<1>8. DecodedLens(iOffset) = {f.len}
  BY <1>3, <1>7 DEF DecodedLens
<1> QED BY <1>1, <1>3, <1>4, <1>6, <1>8

\* The message made so far.
LEMMA TmpMsgType ==
  ASSUME Typed
  PROVE  TmpMsg \in Msg
<1>1. NewMsg \in Msg
  BY EmptySeq DEF NewMsg, Msg
<1>2. ASSUME NEW m \in Msg, mpMsg = <<m>> PROVE TmpMsg = m
  <2>1. mpMsg # <<>> /\ mpMsg[1] = m
    BY <1>2
  <2> QED BY <2>1 DEF TmpMsg
<1> QED BY <1>1, <1>2 DEF Typed, TmpMsg

\* Plain bytes of a frame.
LEMMA PayloadType ==
  ASSUME NEW s, s \in Seq(Frame), NEW k \in 1 .. Len(s), NEW plain \in BOOLEAN
  PROVE  /\ Payload(s, k, plain) \in Seq(PayloadByte)
         /\ Len(Payload(s, k, plain)) = s[k].len /\ s[k].len \in Nat
         /\ \A i \in 1 .. s[k].len :
               Payload(s, k, plain)[i] = [frame |-> k, at |-> i, plain |-> plain]
<1>1. s[k].len \in Nat /\ k \in Nat
  BY EndSteps
<1>2. \A i \in 1 .. s[k].len : [frame |-> k, at |-> i, plain |-> plain] \in PayloadByte
  BY <1>1 DEF PayloadByte
<1> QED BY <1>1, <1>2 DEF Payload

\* XORing the payload that was appended last, at its place, makes it plain and
\* leaves the bytes in front of it alone.
LEMMA Unmasked ==
  ASSUME stream \in Seq(Frame), NEW k \in 1 .. Len(stream), NEW bytes \in Seq(PayloadByte)
  PROVE  Unmask(bytes \o Payload(stream, k, FALSE), Len(bytes), k) = bytes \o Payload(stream, k, TRUE)
<1> DEFINE masked == Payload(stream, k, FALSE)
           clear == Payload(stream, k, TRUE)
           l == stream[k].len
           n == Len(bytes)
           a == bytes \o masked
           z == bytes \o clear
           u == Unmask(a, n, k)
<1>1. /\ masked \in Seq(PayloadByte) /\ Len(masked) = l /\ l \in Nat
      /\ \A i \in 1 .. l : masked[i] = [frame |-> k, at |-> i, plain |-> FALSE]
      /\ clear \in Seq(PayloadByte) /\ Len(clear) = l
      /\ \A i \in 1 .. l : clear[i] = [frame |-> k, at |-> i, plain |-> TRUE]
  BY PayloadType
<1>2. n \in Nat /\ k \in Nat
  OBVIOUS
<1> HIDE DEF masked, clear
<1>3. /\ a \in Seq(PayloadByte) /\ Len(a) = n + l
      /\ (\A i \in 1 .. n : a[i] = bytes[i]) /\ \A i \in 1 .. l : a[n + i] = masked[i]
  <2>1. bytes \in Seq(PayloadByte) /\ masked \in Seq(PayloadByte)
    BY <1>1
  <2>2. /\ a \in Seq(PayloadByte) /\ Len(a) = Len(bytes) + Len(masked)
        /\ \A i \in 1 .. Len(bytes) + Len(masked) :
              a[i] = IF i <= Len(bytes) THEN bytes[i] ELSE masked[i - Len(bytes)]
    BY <2>1, ConcatProperties
  <2> HIDE DEF a
  <2>3. ASSUME NEW i \in 1 .. l PROVE a[n + i] = masked[i]
    <3>1. n + i \in 1 .. n + l /\ ~(n + i <= n) /\ (n + i) - n = i
      BY <1>1, <1>2
    <3> QED BY <1>1, <2>2, <3>1
  <2>4. ASSUME NEW i \in 1 .. n PROVE a[i] = bytes[i]
    <3>1. i \in 1 .. n + l /\ i <= n
      BY <1>1, <1>2
    <3> QED BY <1>1, <2>2, <3>1
  <2> QED BY <1>1, <2>2, <2>3, <2>4
<1>4. /\ z \in Seq(PayloadByte) /\ Len(z) = n + l
      /\ (\A i \in 1 .. n : z[i] = bytes[i]) /\ \A i \in 1 .. l : z[n + i] = clear[i]
  <2>1. bytes \in Seq(PayloadByte) /\ clear \in Seq(PayloadByte)
    BY <1>1
  <2>2. /\ z \in Seq(PayloadByte) /\ Len(z) = Len(bytes) + Len(clear)
        /\ \A i \in 1 .. Len(bytes) + Len(clear) :
              z[i] = IF i <= Len(bytes) THEN bytes[i] ELSE clear[i - Len(bytes)]
    BY <2>1, ConcatProperties
  <2> HIDE DEF z
  <2>3. ASSUME NEW i \in 1 .. l PROVE z[n + i] = clear[i]
    <3>1. n + i \in 1 .. n + l /\ ~(n + i <= n) /\ (n + i) - n = i
      BY <1>1, <1>2
    <3> QED BY <1>1, <2>2, <3>1
  <2>4. ASSUME NEW i \in 1 .. n PROVE z[i] = bytes[i]
    <3>1. i \in 1 .. n + l /\ i <= n
      BY <1>1, <1>2
    <3> QED BY <1>1, <2>2, <3>1
  <2> QED BY <1>1, <2>2, <2>3, <2>4
<1> HIDE DEF a, z
<1>5. u = [i \in 1 .. n + l |->
             IF i \in n + 1 .. n + l
             THEN [a[i] EXCEPT !.plain = (a[i].frame = k /\ a[i].at = i - n /\ ~a[i].plain)]
             ELSE a[i]]
  BY <1>3, Zenon DEF Unmask, u, n, l
<1> HIDE DEF u, n, l
<1>6. ASSUME NEW i \in 1 .. n + l PROVE u[i] = z[i]
  <2>1. CASE i <= n
    <3>1. i \in 1 .. n /\ i \notin n + 1 .. n + l
      BY <1>1, <1>2, <2>1
    <3> QED BY <1>3, <1>4, <1>5, <3>1
  <2>2. CASE i > n
    <3>1. i - n \in 1 .. l /\ i \in n + 1 .. n + l /\ n + (i - n) = i
      BY <1>1, <1>2, <2>2
    <3>2. a[i] = masked[i - n] /\ z[i] = clear[i - n]
      BY <1>3, <1>4, <3>1
    <3>3. /\ a[i] = [frame |-> k, at |-> i - n, plain |-> FALSE]
          /\ z[i] = [frame |-> k, at |-> i - n, plain |-> TRUE]
      BY <1>1, <3>1, <3>2
    <3>4. (a[i].frame = k /\ a[i].at = i - n /\ ~a[i].plain) = TRUE
      BY <3>3
    <3>5. u[i] = [a[i] EXCEPT !.plain = (a[i].frame = k /\ a[i].at = i - n /\ ~a[i].plain)]
      BY <1>5, <3>1
    <3>6. u[i] = [a[i] EXCEPT !.plain = TRUE]
      BY <3>4, <3>5
    <3>7. u[i] = [frame |-> k, at |-> i - n, plain |-> TRUE]
      <4> DEFINE old == a[i]
                 new == u[i]
      <4>1. old = [frame |-> k, at |-> i - n, plain |-> FALSE] /\ new = [old EXCEPT !.plain = TRUE]
        BY <3>3, <3>6
      <4> HIDE DEF old, new
      <4>2. new = [frame |-> k, at |-> i - n, plain |-> TRUE]
        BY <4>1
      <4> QED BY <4>2 DEF new
    <3> QED BY <3>3, <3>7
  <2> QED BY <1>1, <1>2, <2>1, <2>2
<1>7. u \in Seq(PayloadByte) /\ Len(u) = n + l
  <2>1. \A i \in 1 .. n + l : z[i] \in PayloadByte
    BY <1>4
  <2>2. u = [i \in 1 .. n + l |-> u[i]]
    BY <1>5
  <2>3. n + l \in Nat
    BY <1>1, <1>2
  <2> QED BY <1>6, <2>1, <2>2, <2>3
<1>8. u = z
  BY <1>4, <1>6, <1>7, SeqEqual
<1> QED BY <1>8 DEF u, z, a, n, masked, clear

\* The assertion on frame types fails: line 147 is not reached, as the header
\* was decoded before.
LEMMA GiveUpSync ==
  ASSUME NEW b \in 0 .. Len(stream), NEW c \in 0 .. Len(stream), Sync(b, c), ExtractGiveUp
  PROVE  /\ Sync(b, c)' /\ Mixed(b, c) /\ iComplete /\ 152 \in failed'
         /\ \E e \in b .. c : /\ e < c /\ Extracted(b, e) /\ TmpMsg.type # 0
                              /\ stream[e + 1].op \notin {TmpMsg.type, WS_FRAME_CONTINUATION}
<1>1. /\ Extracting /\ pc = "extract" /\ iRet' = 1 /\ pc' = "deliver"
      /\ UNCHANGED <<stream, base, bufLen, iCurFrameIndex, iCurFrameLen, iTotalFrameLen, iComplete,
                     iOffset, iPayloadOffset, delivered, cut>>
  BY DEF ExtractGiveUp, Extracting, cache, extraction
<1>2. PICK e \in b .. c : Extracted(b, e)
  BY <1>1 DEF Sync, InHand
<1>3. e < c
  BY <1>1, <1>2, ExtractingUpTo
<1> DEFINE f == stream[e + 1]
<1>4. FrameAt(iOffset) = f /\ DecodedLens(iOffset) = {f.len} /\ f.len # 0 /\ f \in Frame
      /\ e + 1 \in b + 1 .. c /\ e \in 0 .. Len(stream)
  BY <1>1, <1>2, <1>3, ExtractSees
<1>5. TmpMsg \in Msg
  BY TmpMsgType DEF Sync
<1>6. /\ f.op \notin {TypeWith(f), WS_FRAME_CONTINUATION}
      /\ mpMsg' = <<[TmpMsg EXCEPT !.type = TypeWith(f)]>>
      /\ failed' = failed \cup {152}
  BY <1>4 DEF ExtractGiveUp
<1>7. TmpMsg.type # 0 /\ TypeWith(f) = TmpMsg.type
  BY <1>6 DEF TypeWith
<1>8. Mixed(b, c)
  <2>1. PICK i \in b + 1 .. e : stream[i].op = TmpMsg.type
    BY <1>2, <1>7 DEF Extracted
  <2>2. i \in b + 1 .. c
    BY <1>2, <1>3, Known DEF Sync
  <2>3. stream[i].op # f.op /\ stream[i].op # WS_FRAME_CONTINUATION /\ f.op # WS_FRAME_CONTINUATION
    BY <1>6, <1>7, <2>1 DEF WS_FRAME_CONTINUATION
  <2> QED BY <1>4, <2>2, <2>3 DEF Mixed
<1>9. iComplete /\ b < c
  BY <1>1 DEF Sync, InHand
<1>10. \E m \in Msg : mpMsg' = <<m>>
  <2>1. [TmpMsg EXCEPT !.type = TypeWith(f)] = TmpMsg
    BY <1>5, <1>7 DEF Msg
  <2> QED BY <1>5, <1>6, <2>1
<1>11. Typed'
  BY <1>1, <1>6, <1>10 DEF Sync, Typed
<1>12. Scanned(b, c)' /\ InBuffer' /\ Expected(c)' /\ Left(c)'
  BY <1>1 DEF Sync, Scanned, InBuffer, StreamLen, Expected, Left
<1>13. mpMsg' # <<>>
  BY <1>10
<1>14. InHand(b, c)'
  BY <1>1, <1>6, <1>8, <1>9, <1>13 DEF InHand, Mixed
<1>15. stream[e + 1].op \notin {TmpMsg.type, WS_FRAME_CONTINUATION}
  BY <1>6, <1>7
<1>16. 152 \in failed'
  BY <1>6
<1> QED BY <1>2, <1>3, <1>7, <1>8, <1>9, <1>11, <1>12, <1>14, <1>15, <1>16 DEF Sync

\* A frame is added to the message: its payload comes to the end, in plain.
LEMMA ExtractFrameSync ==
  ASSUME NEW b \in 0 .. Len(stream), NEW c \in 0 .. Len(stream), Sync(b, c),
         NEW len, ExtractFrame(len), NEW e \in b .. c, Extracted(b, e)
  PROVE  /\ Sync(b, c)' /\ e < c /\ e + 1 \in b .. c /\ Extracted(b, e + 1)'
         /\ pc = "extract"
         /\ mpMsg' = <<[type  |-> IF TmpMsg.type = 0 THEN stream[e + 1].op ELSE TmpMsg.type,
                        bytes |-> TmpMsg.bytes \o Payload(stream, e + 1, TRUE)]>>
<1> DEFINE f == stream[e + 1]
           payload == Payload(stream, e + 1, TRUE)
           m == [type |-> TypeWith(f), bytes |-> TmpMsg.bytes \o payload]
<1>1. /\ Extracting /\ pc = "extract" /\ len \in DecodedLens(iOffset)
      /\ UNCHANGED <<stream, base, bufLen, iCurFrameIndex, iCurFrameLen, iTotalFrameLen, iComplete,
                     pc, iRet, delivered, cut, failed>>
      /\ iOffset' = iOffset + ExpectSize(iOffset, len) /\ iPayloadOffset' = iPayloadOffset + len
  BY DEF ExtractFrame, Extracting, cache
<1>2. e < c
  BY <1>1, ExtractingUpTo
<1>3. /\ FrameIndex(iOffset) = e + 1 /\ FrameAt(iOffset) = f /\ DecodedLens(iOffset) = {f.len}
      /\ e + 1 \in 1 .. Len(stream) /\ f \in Frame /\ f.len \in Nat /\ e + 1 \in b + 1 .. c
      /\ EndOf(stream, e + 1) = EndOf(stream, e) + Size(f)
      /\ PayloadUpTo(stream, e + 1) = PayloadUpTo(stream, e) + f.len
      /\ ExpectSize(iOffset, f.len) = Size(f) /\ Size(f) \in Nat /\ PayloadUpTo(stream, e) \in Nat
  BY <1>1, <1>2, ExtractSees
<1>4. len = f.len
  BY <1>1, <1>3
<1>5. TmpMsg \in Msg /\ stream \in Seq(Frame)
  BY TmpMsgType, Known DEF Sync
<1>6. TmpMsg.bytes \in Seq(PayloadByte) /\ TmpMsg.type \in 0 .. 15
  BY <1>5 DEF Msg
<1>7. /\ payload \in Seq(PayloadByte) /\ Len(payload) = f.len
  BY <1>3, <1>5, PayloadType
<1> DEFINE bytes == TmpMsg.bytes
<1>8. /\ f.op \in {TypeWith(f), WS_FRAME_CONTINUATION}
      /\ mpMsg' = <<[type  |-> TypeWith(f),
                     bytes |-> IF f.mask = 0 THEN bytes \o Payload(stream, e + 1, f.mask = 0)
                               ELSE Unmask(bytes \o Payload(stream, e + 1, f.mask = 0),
                                           iPayloadOffset, e + 1)]>>
  <2> HIDE DEF f
  <2> QED BY <1>3 DEF ExtractFrame
<1>9. mpMsg' = <<m>>
  <2>1. CASE f.mask = 0
    <3>1. (f.mask = 0) = TRUE
      BY <2>1
    <3>2. mpMsg' = <<[type |-> TypeWith(f), bytes |-> bytes \o Payload(stream, e + 1, f.mask = 0)]>>
      BY <1>8, <2>1
    <3> QED BY <3>1, <3>2, Zenon
  <2>2. CASE f.mask # 0
    <3>1. (f.mask = 0) = FALSE
      BY <2>2
    <3>2. mpMsg' = <<[type  |-> TypeWith(f),
                      bytes |-> Unmask(bytes \o Payload(stream, e + 1, f.mask = 0),
                                       iPayloadOffset, e + 1)]>>
      BY <1>8, <2>2
    <3>3. iPayloadOffset = Len(bytes)
      BY DEF Extracted
    <3>4. Unmask(bytes \o Payload(stream, e + 1, FALSE), Len(bytes), e + 1) = bytes \o payload
      <4> DEFINE k == e + 1
                 h == TmpMsg.bytes
      <4>1. k \in 1 .. Len(stream) /\ h \in Seq(PayloadByte)
        BY <1>3, <1>6
      <4> HIDE DEF k, h
      <4>2. Unmask(h \o Payload(stream, k, FALSE), Len(h), k) = h \o Payload(stream, k, TRUE)
        BY <1>5, <4>1, Unmasked
      <4> QED BY <4>2 DEF k, h
    <3>5. Unmask(bytes \o Payload(stream, e + 1, f.mask = 0), iPayloadOffset, e + 1) = bytes \o payload
      BY <3>1, <3>3, <3>4, Zenon
    <3> QED BY <3>2, <3>5, Zenon
  <2> QED BY <2>1, <2>2
<1>10. /\ bytes \o payload \in Seq(PayloadByte)
       /\ Len(bytes \o payload) = Len(bytes) + f.len
  <2> DEFINE h == TmpMsg.bytes
  <2>1. h \in Seq(PayloadByte) /\ payload \in Seq(PayloadByte) /\ Len(payload) = f.len
    BY <1>6, <1>7
  <2> HIDE DEF h, payload, f
  <2>2. h \o payload \in Seq(PayloadByte) /\ Len(h \o payload) = Len(h) + Len(payload)
    BY <2>1, ConcatProperties
  <2> QED BY <2>1, <2>2 DEF h
<1> HIDE DEF payload
<1>11. f.op \in 0 .. 15
  BY <1>3 DEF Frame
<1>12. TypeWith(f) \in 0 .. 15
  BY <1>6, <1>11 DEF TypeWith
<1>13. m \in Msg
  BY <1>10, <1>12 DEF Msg
<1>14. mpMsg' # <<>> /\ TmpMsg' = m
  <2>1. mpMsg' # <<>> /\ mpMsg'[1] = m
    <3> HIDE DEF m
    <3> QED BY <1>9
  <2> HIDE DEF m
  <2> QED BY <2>1 DEF TmpMsg
<1>15. Typed'
  <2>1. iOffset' \in Nat /\ iPayloadOffset' \in Nat
    <3>1. iOffset \in Nat /\ iPayloadOffset \in Nat
      BY DEF Sync, Typed
    <3>2. iOffset' = iOffset + Size(f) /\ iPayloadOffset' = iPayloadOffset + f.len
      BY <1>1, <1>3, <1>4
    <3>3. Size(f) \in Nat /\ f.len \in Nat
      BY <1>3
    <3> HIDE DEF f
    <3> QED BY <3>1, <3>2, <3>3
  <2>2. mpMsg' = <<>> \/ \E x \in Msg : mpMsg' = <<x>>
    BY <1>9, <1>13
  <2> QED BY <1>1, <2>1, <2>2 DEF Sync, Typed
<1>16. Extracted(b, e + 1)'
  <2>1. base + iOffset' = EndOf(stream, e + 1)
    <3>1. base + iOffset = EndOf(stream, e) /\ iOffset \in Nat /\ base \in Nat
      BY DEF Extracted, Sync, Typed
    <3> QED BY <1>1, <1>3, <1>4, <3>1
  <2>2. PayloadUpTo(stream, b) + iPayloadOffset' = PayloadUpTo(stream, e + 1)
    <3>1. PayloadUpTo(stream, b) + iPayloadOffset = PayloadUpTo(stream, e) /\ iPayloadOffset \in Nat
      BY DEF Extracted, Sync, Typed
    <3>2. PayloadUpTo(stream, b) \in Nat
      BY <1>5, EndSteps
    <3> QED BY <1>1, <1>3, <1>4, <3>1, <3>2
  <2>3. Len(TmpMsg'.bytes) = iPayloadOffset'
    <3>1. TmpMsg'.bytes = bytes \o payload
      BY <1>14
    <3>2. Len(bytes) = iPayloadOffset
      BY DEF Extracted
    <3> QED BY <1>1, <1>4, <1>10, <3>1, <3>2
  <2>4. TmpMsg'.type = TypeWith(f)
    BY <1>14
  <2>5. b + 1 .. e + 1 = (b + 1 .. e) \cup {e + 1}
    BY Known DEF Sync
  <2>6. \A i \in b + 1 .. e + 1 : stream[i].op \in {TypeWith(f), WS_FRAME_CONTINUATION}
    <3>1. ASSUME NEW i \in b + 1 .. e PROVE stream[i].op \in {TypeWith(f), WS_FRAME_CONTINUATION}
      <4>1. stream[i].op \in {TmpMsg.type, WS_FRAME_CONTINUATION}
        BY DEF Extracted
      <4> QED BY <4>1 DEF TypeWith, WS_FRAME_CONTINUATION
    <3> QED BY <1>8, <2>5, <3>1 DEF f
  <2>7. TypeWith(f) # 0 => \E i \in b + 1 .. e + 1 : stream[i].op = TypeWith(f)
    <3>1. CASE TmpMsg.type = 0
      <4>1. TypeWith(f) = f.op
        BY <3>1 DEF TypeWith
      <4> QED BY <2>5, <4>1 DEF f
    <3>2. CASE TmpMsg.type # 0
      <4>1. TypeWith(f) = TmpMsg.type
        BY <3>2 DEF TypeWith
      <4>2. \E i \in b + 1 .. e : stream[i].op = TmpMsg.type
        BY <3>2 DEF Extracted
      <4> QED BY <2>5, <4>1, <4>2
    <3> QED BY <3>1, <3>2
  <2> HIDE DEF m
  <2> QED BY <1>1, <1>14, <2>1, <2>2, <2>3, <2>4, <2>6, <2>7 DEF Extracted
<1>17. e + 1 \in b .. c
  BY <1>2, Known DEF Sync
<1>18. Scanned(b, c)' /\ InBuffer' /\ Expected(c)' /\ Left(c)'
  BY <1>1 DEF Sync, Scanned, InBuffer, StreamLen, Expected, Left
<1>19. InHand(b, c)'
  <2>1. \E x \in b .. c : Extracted(b, x)'
    BY <1>16, <1>17
  <2>2. /\ (iComplete => b < c) /\ iComplete /\ (152 \in failed \/ iRet = 1)
        /\ (152 \in failed => Mixed(b, c))
    BY <1>1 DEF Sync, InHand
  <2> QED BY <1>1, <2>1, <2>2 DEF InHand, Mixed
<1>20. m = [type  |-> IF TmpMsg.type = 0 THEN stream[e + 1].op ELSE TmpMsg.type,
            bytes |-> TmpMsg.bytes \o Payload(stream, e + 1, TRUE)]
  BY DEF TypeWith, payload
<1>21. Sync(b, c)'
  BY <1>15, <1>18, <1>19 DEF Sync
<1>22. mpMsg' = <<[type  |-> IF TmpMsg.type = 0 THEN stream[e + 1].op ELSE TmpMsg.type,
                   bytes |-> TmpMsg.bytes \o Payload(stream, e + 1, TRUE)]>>
  <2> HIDE DEF m
  <2> QED BY <1>9, <1>20, Zenon
<1> QED BY <1>1, <1>2, <1>16, <1>17, <1>21, <1>22

\* The message is complete: it has the length the scan counted, for it is of
\* the frames scanned; they are removed and nothing of them is left.
LEMMA FinishSync ==
  ASSUME NEW b \in 0 .. Len(stream), NEW c \in 0 .. Len(stream), Sync(b, c), Finish
  PROVE  /\ Sync(c, c)' /\ Extracted(b, c) /\ ~Mixed(b, c) /\ b < c
         /\ pc = "extract" /\ iRet = 1 /\ pc' = "deliver" /\ ~iComplete' /\ 152 \notin failed
         /\ mpMsg # <<>> /\ base' = base + iCurFrameIndex /\ iCurFrameIndex' = 0
         /\ bufLen' = bufLen - iCurFrameIndex
         /\ UNCHANGED <<stream, mpMsg, delivered, failed>>
<1>1. /\ pc = "extract" /\ ~Extracting
      /\ UNCHANGED <<stream, mpMsg, iOffset, iPayloadOffset, delivered, cut>>
  BY DEF Finish, ExtractDone, extraction
<1>2. PICK e \in b .. c : Extracted(b, e)
  BY <1>1 DEF Sync, InHand
<1>0. /\ b \in Nat /\ c \in Nat /\ b <= c /\ stream \in Seq(Frame) /\ Len(stream) \in Nat
      /\ c <= Len(stream) /\ base \in Nat /\ iCurFrameIndex \in Nat /\ bufLen \in Nat
      /\ base + iCurFrameIndex = EndOf(stream, c) /\ iCurFrameIndex <= bufLen
      /\ base + bufLen <= StreamLen /\ StreamLen \in Nat
  BY Known DEF Sync
<1>3. e = c
  BY <1>0, <1>1, <1>2, ExtractingUpTo
<1>4. Extracted(b, c) /\ iOffset = iCurFrameIndex /\ iPayloadOffset = iTotalFrameLen
  BY <1>1, <1>2, <1>3, ExtractingUpTo
<1>5. ~Mixed(b, c)
  <2> SUFFICES ASSUME NEW i \in b + 1 .. c, NEW j \in b + 1 .. c,
                      stream[i].op # WS_FRAME_CONTINUATION, stream[j].op # WS_FRAME_CONTINUATION
               PROVE  stream[i].op = stream[j].op
    BY DEF Mixed
  <2> QED BY <1>4 DEF Extracted
<1>6. iComplete /\ b < c /\ 152 \notin failed /\ iRet = 1
  BY <1>1, <1>5 DEF Sync, InHand
<1>7. mpMsg # <<>> /\ Len(TmpMsg.bytes) = iTotalFrameLen
  BY <1>0, <1>4, <1>6 DEF Extracted
<1>8. /\ iComplete' = FALSE /\ iCurFrameIndex' = iCurFrameIndex - iOffset /\ base' = base + iOffset
      /\ bufLen' = bufLen - iOffset /\ iTotalFrameLen' = iTotalFrameLen - iPayloadOffset
      /\ iCurFrameLen' = 0 /\ pc' = "deliver" /\ UNCHANGED <<iRet, failed>>
  BY <1>6, <1>7 DEF Finish, LengthMatches, RemoveFrames
<1>9. /\ iCurFrameIndex' = 0 /\ base' = base + iCurFrameIndex /\ bufLen' = bufLen - iCurFrameIndex
      /\ iTotalFrameLen' = 0
  <2>1. iTotalFrameLen \in Nat
    BY DEF Sync, Typed
  <2> QED BY <1>0, <1>4, <1>8, <2>1
<1>10. base' \in Nat /\ bufLen' \in Nat /\ base' + bufLen' = base + bufLen
  BY <1>0, <1>9
<1>11. Typed'
  <2>1. /\ stream' \in Streams /\ delivered' \in Seq(Msg) /\ cut' \subseteq 1 .. Len(stream')
        /\ (mpMsg' = <<>> \/ \E m \in Msg : mpMsg' = <<m>>)
    BY <1>1 DEF Sync, Typed
  <2>2. iOffset' \in Nat /\ iPayloadOffset' \in Nat
    <3>1. iOffset \in Nat /\ iPayloadOffset \in Nat
      BY DEF Sync, Typed
    <3>2. iOffset' = iOffset /\ iPayloadOffset' = iPayloadOffset
      BY <1>1
    <3> QED BY <3>1, <3>2
  <2>3. iRet' \in {0, 1} /\ failed' \subseteq {118, 152}
    <3>1. iRet \in {0, 1} /\ failed \subseteq {118, 152}
      BY DEF Sync, Typed
    <3> QED BY <1>8, <3>1
  <2>4. iCurFrameIndex' \in Nat /\ iCurFrameLen' \in Nat /\ iTotalFrameLen' \in Nat
    <3>1. iCurFrameIndex' = 0 /\ iTotalFrameLen' = 0
      BY <1>9
    <3>2. iCurFrameLen' = 0
      BY <1>8
    <3> QED BY <3>1, <3>2
  <2>5. iComplete' \in BOOLEAN /\ pc' \in {"wait", "check", "scan", "extract", "deliver"}
    <3>1. iComplete' = FALSE /\ pc' = "deliver"
      BY <1>8
    <3> QED BY <3>1
  <2> QED BY <1>10, <2>1, <2>2, <2>3, <2>4, <2>5 DEF Typed
<1>12. Scanned(c, c)'
  <2>1. c \in 0 .. Len(stream) /\ c \in c .. Len(stream) /\ \A k \in c + 1 .. c : FALSE
    BY <1>0
  <2>2. base' = EndOf(stream, c) /\ base' + iCurFrameIndex' = EndOf(stream, c)
    BY <1>0, <1>9
  <2>3. PayloadUpTo(stream, c) + iTotalFrameLen' = PayloadUpTo(stream, c)
    <3>1. PayloadUpTo(stream, c) \in Nat
      BY <1>0, EndSteps
    <3> QED BY <1>9, <3>1
  <2> QED BY <1>1, <2>1, <2>2, <2>3 DEF Scanned
<1>13. InBuffer' /\ Expected(c)' /\ Left(c)'
  <2>1. StreamLen' = StreamLen
    BY <1>1 DEF StreamLen
  <2>2. InBuffer'
    BY <1>0, <1>9, <1>10, <2>1 DEF InBuffer
  <2> QED BY <1>8, <2>2 DEF Expected, Left
<1>14. InHand(c, c)'
  BY <1>1, <1>6, <1>7, <1>8 DEF InHand
<1> QED BY <1>1, <1>4, <1>5, <1>6, <1>7, <1>8, <1>9, <1>11, <1>12, <1>13, <1>14 DEF Sync

\* The message is handed over.
LEMMA DeliverSync ==
  ASSUME NEW b \in 0 .. Len(stream), NEW c \in 0 .. Len(stream), Sync(b, c), Deliver
  PROVE  Sync(b, c)'
<1>1. /\ pc = "deliver" /\ delivered' = delivered \o mpMsg /\ mpMsg' = <<>> /\ pc' = "check"
      /\ UNCHANGED <<stream, base, bufLen, iCurFrameIndex, iCurFrameLen, iTotalFrameLen, iComplete,
                     iRet, iOffset, iPayloadOffset, cut, failed>>
  BY DEF Deliver, cache, extraction
<1>2. delivered' \in Seq(Msg)
  <2>1. PICK m \in Msg : mpMsg = <<m>>
    BY <1>1 DEF Sync, Typed, InHand
  <2>2. delivered \in Seq(Msg) /\ mpMsg \in Seq(Msg)
    BY <2>1 DEF Sync, Typed
  <2> QED BY <1>1, <2>2, ConcatProperties
<1>3. Typed'
  BY <1>1, <1>2 DEF Sync, Typed
<1>4. Scanned(b, c)' /\ InBuffer' /\ Expected(c)' /\ Left(c)'
  BY <1>1 DEF Sync, Scanned, InBuffer, StreamLen, Expected, Left
<1>5. InHand(b, c)'
  BY <1>1 DEF Sync, InHand, Mixed
<1> QED BY <1>3, <1>4, <1>5 DEF Sync

\* A step that changes nothing.
LEMMA SameSync ==
  ASSUME NEW b \in 0 .. Len(stream), NEW c \in 0 .. Len(stream), Sync(b, c), UNCHANGED vars
  PROVE  Sync(b, c)'
<1>1. UNCHANGED <<stream, base, bufLen, iCurFrameIndex, iCurFrameLen, iTotalFrameLen, iComplete,
                  mpMsg, pc, iRet, iOffset, iPayloadOffset, delivered, cut, failed>>
  BY DEF vars, cache, extraction
<1>2. Typed' /\ Scanned(b, c)' /\ InBuffer' /\ Expected(c)' /\ Left(c)'
  BY <1>1 DEF Sync, Typed, Scanned, InBuffer, StreamLen, Expected, Left
<1>3. InHand(b, c)'
  BY <1>1 DEF Sync, InHand, Mixed, Extracted, TmpMsg
<1> QED BY <1>2, <1>3 DEF Sync

\* At first the buffer is empty and nothing was scanned.
LEMMA InitSync == Init => SyncInv
<1> SUFFICES ASSUME Init PROVE SyncInv
  OBVIOUS
<1>1. /\ stream \in Streams /\ stream \in Seq(Frame) /\ Len(stream) \in Nat
      /\ base = 0 /\ bufLen = 0 /\ iCurFrameIndex = 0 /\ iCurFrameLen = 0
      /\ iTotalFrameLen = 0 /\ iComplete = FALSE /\ mpMsg = <<>> /\ pc = "wait" /\ iRet = 0
      /\ iOffset = 0 /\ iPayloadOffset = 0 /\ delivered = <<>> /\ cut = {} /\ failed = {}
  BY StreamsAssumption DEF Init
<1>2. 0 \in 0 .. Len(stream) /\ Len(stream) \in 0 .. Len(stream)
  BY <1>1
<1>3. EndOf(stream, 0) = 0 /\ PayloadUpTo(stream, 0) = 0 /\ StreamLen \in Nat
  BY <1>1, <1>2, EndSteps DEF StreamLen
<1>4. delivered \in Seq(Msg)
  BY <1>1, EmptySeq
<1>5. Typed
  BY <1>1, <1>4 DEF Typed
<1>6. Scanned(0, 0)
  BY <1>1, <1>2, <1>3 DEF Scanned
<1>7. InBuffer /\ Expected(0)
  BY <1>1, <1>3 DEF InBuffer, Expected
<1>8. Left(0)
  <2> SUFFICES ASSUME 0 < Len(stream), EndOf(stream, 0 + 1) <= base + bufLen PROVE FALSE
    BY DEF Left
  <2>1. 1 \in 0 .. Len(stream) /\ 0 < 1 /\ 0 + 1 = 1
    BY <1>1
  <2>2. EndOf(stream, 0) < EndOf(stream, 1) /\ EndOf(stream, 1) \in Nat
    BY <1>1, <1>2, <2>1, EndsGrow, EndSteps
  <2> QED BY <1>1, <1>3, <2>1, <2>2
<1>9. InHand(0, 0)
  BY <1>1 DEF InHand
<1> QED BY <1>2, <1>5, <1>6, <1>7, <1>8, <1>9 DEF SyncInv, Sync

\* The invariant is inductive: a step for each action.
LEMMA SyncStep ==
  ASSUME SyncInv, [Next]_vars
  PROVE  SyncInv'
<1>1. PICK b \in 0 .. Len(stream), c \in 0 .. Len(stream) : Sync(b, c)
  BY DEF SyncInv
<1>2. stream' = stream
  BY DEF Next, Scan, Extract, Arrive, CheckLen, ScanDone, ScanEmpty, ScanIncomplete, ScanFrame,
         ScanHeader, ExtractGiveUp, ExtractFrame, Finish, Deliver, vars
<1>3. Sync(b, c)' => SyncInv'
  BY <1>2 DEF SyncInv
<1>4. ASSUME NEW n \in 1 .. StreamLen, Arrive(n) PROVE SyncInv'
  BY <1>1, <1>3, <1>4, ArriveSync
<1>5. CASE CheckLen
  BY <1>1, <1>3, <1>5, CheckSync
<1>6. CASE ScanDone
  BY <1>1, <1>3, <1>6, ScanDoneSync
<1>7. CASE ScanEmpty
  BY <1>1, <1>3, <1>7, ScanEmptySync
<1>8. ASSUME NEW len, ScanIncomplete(len) PROVE SyncInv'
  BY <1>1, <1>3, <1>8, ScanIncompleteSync
<1>9. ASSUME NEW len, ScanFrame(len) PROVE SyncInv'
  <2>1. c < Len(stream) /\ Sync(b, c + 1)'
    BY <1>1, <1>9, ScanFrameSync
  <2>2. c + 1 \in 0 .. Len(stream)
    BY <1>1, <2>1, Known DEF Sync
  <2> QED BY <1>2, <2>1, <2>2 DEF SyncInv
<1>10. CASE ExtractGiveUp
  BY <1>1, <1>3, <1>10, GiveUpSync
<1>11. ASSUME NEW len, ExtractFrame(len) PROVE SyncInv'
  <2>1. pc = "extract"
    BY <1>11 DEF ExtractFrame, Extracting
  <2>2. PICK e \in b .. c : Extracted(b, e)
    BY <1>1, <2>1 DEF Sync, InHand
  <2> QED BY <1>1, <1>3, <1>11, <2>2, ExtractFrameSync
<1>12. CASE Finish
  <2>1. Sync(c, c)'
    BY <1>1, <1>12, FinishSync
  <2> QED BY <1>2, <2>1 DEF SyncInv
<1>13. CASE Deliver
  BY <1>1, <1>3, <1>13, DeliverSync
<1>14. CASE UNCHANGED vars
  BY <1>1, <1>3, <1>14, SameSync
<1> QED BY <1>4, <1>5, <1>6, <1>7, <1>8, <1>9, <1>10, <1>11, <1>12, <1>13, <1>14
        DEF Next, Scan, Extract

\* The counters are in step in every state of every behaviour.
LEMMA AlwaysSync == Spec => []SyncInv
<1>1. SyncInv /\ [Next]_vars => SyncInv'
  BY SyncStep
<1> QED BY <1>1, InitSync, PTL DEF Spec

-----------------------------------------------------------------------------
(* The decoder is in step. *)

\* Only one number of frames ends at a position.
LEMMA EndsAtOnce ==
  ASSUME NEW s \in Seq(Frame), NEW k \in 0 .. Len(s), NEW j \in 0 .. Len(s),
         EndOf(s, k) = EndOf(s, j)
  PROVE  k = j
<1>1. k \in Nat /\ j \in Nat /\ EndOf(s, k) \in Nat /\ EndOf(s, j) \in Nat
  BY EndSteps
<1>2. k < j => EndOf(s, k) < EndOf(s, j)
  BY EndsGrow
<1>3. j < k => EndOf(s, j) < EndOf(s, k)
  BY EndsGrow
<1> QED BY <1>1, <1>2, <1>3

\* The types of the invariant are those of TypeOK.
LEMMA SyncTypes ==
  ASSUME Typed
  PROVE  TypeOK
<1>1. Len(mpMsg) <= 1
  <2>1. CASE mpMsg = <<>>
    BY <2>1
  <2>2. CASE mpMsg # <<>>
    <3>1. PICK m \in Msg : mpMsg = <<m>>
      BY <2>2 DEF Typed
    <3> QED BY <3>1
  <2> QED BY <2>1, <2>2
<1>2. {base, bufLen, iCurFrameIndex, iCurFrameLen, iTotalFrameLen} \subseteq Nat
      /\ {iOffset, iPayloadOffset} \subseteq Nat
  BY DEF Typed
<1>3. /\ stream \in Streams /\ iComplete \in BOOLEAN /\ iRet \in {0, 1}
      /\ pc \in {"wait", "check", "scan", "extract", "deliver"}
      /\ cut \subseteq 1 .. Len(stream) /\ failed \subseteq {118, 147, 152, 167}
  BY DEF Typed
<1> QED BY <1>1, <1>2, <1>3 DEF TypeOK

\* Both loops are at the boundary of a frame.
LEMMA SyncBoundaries ==
  ASSUME NEW b \in 0 .. Len(stream), NEW c \in 0 .. Len(stream), Sync(b, c)
  PROVE  AtBoundaries
<1>1. base + iCurFrameIndex = EndOf(stream, c) /\ iCurFrameIndex <= bufLen
  BY Known DEF Sync
<1>2. ASSUME pc = "extract"
      PROVE  /\ \E k \in 0 .. Len(stream) : base + iOffset = EndOf(stream, k)
             /\ iOffset <= iCurFrameIndex
  <2>1. PICK e \in b .. c : Extracted(b, e)
    BY <1>2 DEF Sync, InHand
  <2>2. e \in 0 .. Len(stream) /\ e \in Nat /\ c \in Nat /\ e <= c
    BY Known DEF Sync
  <2>3. base + iOffset = EndOf(stream, e)
    BY <2>1 DEF Extracted
  <2>4. iOffset \in Nat /\ iCurFrameIndex \in Nat
    BY DEF Sync, Typed
  <2>5. CASE e = c
    <3>1. iOffset = iCurFrameIndex
      BY <1>2, <2>1, <2>5, ExtractingUpTo
    <3> QED BY <2>2, <2>3, <2>4, <3>1
  <2>6. CASE e < c
    <3>1. Extracting
      BY <1>2, <2>1, <2>6, ExtractingUpTo
    <3> QED BY <2>2, <2>3, <2>4, <3>1 DEF Extracting
  <2> QED BY <2>2, <2>3, <2>5, <2>6
<1> QED BY <1>1, <1>2 DEF AtBoundaries

\* The payload counted is that between the two boundaries, of which there is
\* only one each.
LEMMA SyncTotals ==
  ASSUME NEW b \in 0 .. Len(stream), NEW c \in 0 .. Len(stream), Sync(b, c)
  PROVE  TotalIsScanned
<1>1. stream \in Seq(Frame) /\ base = EndOf(stream, b) /\ base + iCurFrameIndex = EndOf(stream, c)
  BY Known DEF Sync
<1>2. PayloadUpTo(stream, b) + iTotalFrameLen = PayloadUpTo(stream, c)
  BY DEF Sync, Scanned
<1>3. ASSUME NEW d \in 0 .. Len(stream), NEW e \in 0 .. Len(stream),
             EndOf(stream, d) = base, EndOf(stream, e) = base + iCurFrameIndex
      PROVE  PayloadUpTo(stream, d) + iTotalFrameLen = PayloadUpTo(stream, e)
  <2>1. d = b /\ e = c
    BY <1>1, <1>3, EndsAtOnce
  <2> QED BY <1>2, <2>1
<1>4. failed \cap {147, 167} = {}
  BY DEF Sync, Typed
<1> QED BY <1>3, <1>4 DEF TotalIsScanned

\* The size waited for is that of the frame at hand, or the header was cut.
LEMMA SyncExpects ==
  ASSUME NEW b \in 0 .. Len(stream), NEW c \in 0 .. Len(stream), Sync(b, c)
  PROVE  OverestimateNeedsCut
<1> SUFFICES ASSUME iCurFrameLen # 0
             PROVE  \/ iCurFrameLen = Size(FrameAt(iCurFrameIndex))
                    \/ FrameIndex(iCurFrameIndex) \in cut
  BY DEF OverestimateNeedsCut
<1>1. c < Len(stream) /\ (iCurFrameLen = Size(stream[c + 1]) \/ c + 1 \in cut)
  BY DEF Sync, Expected
<1>2. stream \in Seq(Frame) /\ iCurFrameIndex \in Nat /\ base + iCurFrameIndex = EndOf(stream, c)
  BY Known DEF Sync
<1>3. FrameIndex(iCurFrameIndex) = c + 1 /\ FrameAt(iCurFrameIndex) = stream[c + 1]
  BY <1>1, <1>2, FrameThere
<1> QED BY <1>1, <1>3

\* A complete frame is left for a good reason.
LEMMA SyncWaits ==
  ASSUME NEW b \in 0 .. Len(stream), NEW c \in 0 .. Len(stream), Sync(b, c)
  PROVE  WaitsForGoodReason
<1> SUFFICES ASSUME pc = "wait"
             PROVE  /\ Stalled => LET k == FrameIndex(iCurFrameIndex)
                                  IN k \in cut \/ Empty(stream, k)
                    /\ iComplete => 152 \in failed
  BY DEF WaitsForGoodReason
<1>1. iComplete => 152 \in failed
  BY DEF Sync, InHand
<1>2. ASSUME Stalled
      PROVE  FrameIndex(iCurFrameIndex) \in cut \/ Empty(stream, FrameIndex(iCurFrameIndex))
  <2>1. /\ stream \in Seq(Frame) /\ iCurFrameIndex \in Nat /\ base \in Nat /\ bufLen \in Nat
        /\ base + iCurFrameIndex = EndOf(stream, c) /\ c \in Nat /\ Len(stream) \in Nat
        /\ c <= Len(stream) /\ StreamLen = EndOf(stream, Len(stream)) /\ StreamLen \in Nat
    BY Known DEF Sync
  <2>2. base + iCurFrameIndex < StreamLen /\ Size(FrameAt(iCurFrameIndex)) + iCurFrameIndex <= bufLen
    BY <1>2 DEF Stalled
  <2>3. c < Len(stream)
    <3>1. c # Len(stream)
      BY <2>1, <2>2
    <3> QED BY <2>1, <3>1
  <2>4. /\ FrameIndex(iCurFrameIndex) = c + 1 /\ FrameAt(iCurFrameIndex) = stream[c + 1]
        /\ EndOf(stream, c + 1) = EndOf(stream, c) + Size(stream[c + 1])
        /\ EndOf(stream, c + 1) \in Nat /\ stream[c + 1].len \in Nat
        /\ PayloadOffset(stream[c + 1]) \in Nat
        /\ Size(stream[c + 1]) = PayloadOffset(stream[c + 1]) + stream[c + 1].len
    BY <2>1, <2>3, FrameThere
  <2>5. EndOf(stream, c + 1) <= base + bufLen
    <3>1. Size(stream[c + 1]) \in Nat /\ Size(stream[c + 1]) + iCurFrameIndex <= bufLen
      BY <2>2, <2>4
    <3>2. EndOf(stream, c + 1) = base + iCurFrameIndex + Size(stream[c + 1])
      BY <2>1, <2>4
    <3> HIDE DEF Stalled
    <3> QED BY <2>1, <3>1, <3>2
  <2>6. c + 1 \in cut \/ stream[c + 1].len = 0
    BY <2>3, <2>5 DEF Sync, Left
  <2> QED BY <2>4, <2>6 DEF Empty
<1> QED BY <1>1, <1>2

\* What the invariant says of the two properties.
LEMMA SyncImplies == SyncInv => InSync /\ WaitsForGoodReason
<1> SUFFICES ASSUME NEW b \in 0 .. Len(stream), NEW c \in 0 .. Len(stream), Sync(b, c)
             PROVE  InSync /\ WaitsForGoodReason
  BY DEF SyncInv
<1>1. TypeOK
  BY SyncTypes DEF Sync
<1> QED BY <1>1, SyncBoundaries, SyncTotals, SyncExpects, SyncWaits DEF InSync

\* However the stream is cut into reads, the decoder keeps to the boundaries
\* of its frames, counts exactly the payload scanned and waits for too much
\* only after a cut header; the assertions of lines 147 and 167 never fail.
THEOREM DecoderInSync == Spec => []InSync
<1> QED BY AlwaysSync, SyncImplies, PTL

\* DecodeMsg returns to the event loop in front of a complete frame only for a
\* cut header or an empty payload, and with a complete message only after the
\* assertion on frame types failed.
THEOREM GoodReasonsToWait == Spec => []WaitsForGoodReason
<1> QED BY AlwaysSync, SyncImplies, PTL

-----------------------------------------------------------------------------
\* What a step does to the boundaries, when a frame has no payload or the
\* assertion on frame types has failed.
LEMMA JamStep ==
  ASSUME SyncInv, [Next]_vars
  PROVE  /\ 152 \in failed => base' = base
         /\ (\E k \in StartsAt(stream, base + iCurFrameIndex) : Empty(stream, k))
               => base' + iCurFrameIndex' = base + iCurFrameIndex
<1>1. PICK b \in 0 .. Len(stream), c \in 0 .. Len(stream) : Sync(b, c)
  BY DEF SyncInv
<1>2. base \in Nat /\ iCurFrameIndex \in Nat /\ stream \in Seq(Frame) /\ Len(stream) \in Nat
      /\ c \in Nat /\ c <= Len(stream) /\ base + iCurFrameIndex = EndOf(stream, c)
  BY <1>1, Known DEF Sync
<1>3. CASE Finish
  <2>1. base' = base + iCurFrameIndex /\ iCurFrameIndex' = 0 /\ 152 \notin failed
    BY <1>1, <1>3, FinishSync
  <2> QED BY <1>2, <2>1
<1>4. ASSUME NEW len, ScanFrame(len)
      PROVE  base' = base /\ ~\E k \in StartsAt(stream, base + iCurFrameIndex) : Empty(stream, k)
  <2>1. c < Len(stream) /\ Sync(b, c + 1)' /\ base' = base /\ stream' = stream
    BY <1>1, <1>4, ScanFrameSync DEF ScanFrame, ScanHeader
  <2>2. stream[c + 1].len > 0
    <3>1. \A k \in b + 1 .. c + 1 : stream'[k].len > 0
      BY <2>1 DEF Sync, Scanned
    <3>2. b \in Nat /\ b <= c
      BY <1>1, Known DEF Sync
    <3>3. c + 1 \in b + 1 .. c + 1
      BY <1>2, <3>2
    <3> QED BY <2>1, <3>1, <3>3
  <2>3. ASSUME NEW k \in StartsAt(stream, base + iCurFrameIndex) PROVE k = c + 1
    <3>1. k \in 1 .. Len(stream) /\ EndOf(stream, k - 1) = EndOf(stream, c)
      BY <1>2 DEF StartsAt, StartOf
    <3>2. k - 1 \in 0 .. Len(stream)
      BY <1>2, <3>1
    <3>3. k - 1 = c
      BY <1>2, <3>1, <3>2, EndsAtOnce
    <3> QED BY <1>2, <3>1, <3>3
  <2> QED BY <2>1, <2>2, <2>3 DEF Empty
<1>5. CASE UNCHANGED <<base, iCurFrameIndex>>
  BY <1>5
<1>6. ASSUME ~Finish, ~\E len : ScanFrame(len) PROVE UNCHANGED <<base, iCurFrameIndex>>
  BY <1>6 DEF Next, Scan, Extract, Arrive, CheckLen, ScanDone, ScanEmpty, ScanIncomplete,
         ScanHeader, ExtractGiveUp, ExtractFrame, Deliver, vars, cache
<1> QED BY <1>3, <1>4, <1>5, <1>6

\* After the assertion on frame types failed nothing is removed any more, and
\* an empty payload is never passed.
THEOREM JamsLast == Spec => JamIsForever
<1>1. SyncInv /\ [Next]_vars =>
         [/\ 152 \in failed => base' = base
          /\ (\E k \in StartsAt(stream, base + iCurFrameIndex) : Empty(stream, k))
               => base' + iCurFrameIndex' = base + iCurFrameIndex]_vars
  BY JamStep
<1> QED BY <1>1, AlwaysSync, PTL DEF Spec, JamIsForever

-----------------------------------------------------------------------------
(* The messages of a stream. *)

\* A list of lists is joined one after the other.
LEMMA FlattenSteps ==
  ASSUME NEW S, NEW seqs \in Seq(Seq(S))
  PROVE  \E f \in [0 .. Len(seqs) -> Seq(S)] :
            /\ f[0] = <<>> /\ FlattenSeq(seqs) = f[Len(seqs)]
            /\ \A i \in 1 .. Len(seqs) : f[i] = f[i - 1] \o seqs[i]
<1> DEFINE N == Len(seqs)
           Joins(n, f) == /\ f \in [1 .. n -> Seq(S)]
                          /\ \A i \in 1 .. n : f[i] = IF i = 1 THEN seqs[i] ELSE f[i - 1] \o seqs[i]
           T == {n \in 0 .. N : \E f : Joins(n, f)}
<1>1. N \in Nat /\ \A i \in 1 .. N : seqs[i] \in Seq(S)
  OBVIOUS
<1>2. 0 \in T
  <2> DEFINE h == [i \in 1 .. 0 |-> <<>>]
  <2>1. h \in [1 .. 0 -> Seq(S)] /\ 1 .. 0 = {}
    OBVIOUS
  <2> HIDE DEF h
  <2>2. Joins(0, h)
    BY <2>1
  <2>3. \E f : Joins(0, f)
    BY <2>2
  <2>4. 0 \in 0 .. N
    BY <1>1
  <2> HIDE DEF Joins
  <2> QED BY <2>3, <2>4
<1>3. ASSUME NEW n \in 0 .. N - 1, n \in T PROVE n + 1 \in T
  <2>1. PICK f : Joins(n, f)
    BY <1>3
  <2> DEFINE e == IF n = 0 THEN seqs[1] ELSE f[n] \o seqs[n + 1]
             g == [i \in 1 .. n + 1 |-> IF i <= n THEN f[i] ELSE e]
  <2>2. n \in Nat /\ n + 1 \in 0 .. N /\ n + 1 \in 1 .. N
    BY <1>1
  <2>3. e \in Seq(S)
    BY <1>1, <2>1, <2>2
  <2>4. g \in [1 .. n + 1 -> Seq(S)]
    BY <2>1, <2>2, <2>3
  <2>5. ASSUME NEW i \in 1 .. n + 1 PROVE g[i] = IF i = 1 THEN seqs[i] ELSE g[i - 1] \o seqs[i]
    <3>1. CASE i <= n
      <4>1. i \in 1 .. n /\ g[i] = f[i] /\ (i # 1 => i - 1 \in 1 .. n + 1 /\ i - 1 <= n)
        BY <2>2, <3>1
      <4>2. i # 1 => g[i - 1] = f[i - 1]
        BY <4>1
      <4> QED BY <2>1, <4>1, <4>2
    <3>2. CASE i = n + 1
      <4>1. g[i] = e
        BY <2>2, <3>2
      <4>2. i # 1 => n # 0 /\ i - 1 = n /\ n \in 1 .. n + 1
        BY <2>2, <3>2
      <4>3. i # 1 => g[i - 1] = f[n]
        BY <4>2
      <4>4. i = 1 => n = 0
        BY <2>2, <3>2
      <4> QED BY <3>2, <4>1, <4>2, <4>3, <4>4
    <3> QED BY <2>2, <3>1, <3>2
  <2>6. Joins(n + 1, g)
    BY <2>4, <2>5
  <2> QED BY <2>2, <2>6
<1>4. N \in T
  <2> HIDE DEF T
  <2>1. \A i \in 0 .. N : i \in T
    BY <1>1, <1>2, <1>3, UpTo
  <2> QED BY <1>1, <2>1
<1>5. PICK f : Joins(N, f)
  BY <1>4
<1> DEFINE Body(h) == [i \in 1 .. N |-> IF i = 1 THEN seqs[i] ELSE h[i - 1] \o seqs[i]]
           c == CHOOSE h : h = Body(h)
<1>6. f = Body(f)
  BY <1>5
<1>7. c = Body(c)
  BY <1>6
<1>8. N # 0 => FlattenSeq(seqs) = c[N]
  BY DEF FlattenSeq
<1> HIDE DEF c
<1>9. Joins(N, c)
  <2>1. c = [i \in 1 .. N |-> IF i = 1 THEN seqs[i] ELSE c[i - 1] \o seqs[i]]
    BY <1>7
  <2>2. \A i \in 1 .. N : c[i] = IF i = 1 THEN seqs[i] ELSE c[i - 1] \o seqs[i]
    BY <2>1
  <2> DEFINE U == {n \in 0 .. N : \A i \in 1 .. n : c[i] \in Seq(S)}
  <2>3. 0 \in U
    BY <1>1
  <2>4. ASSUME NEW n \in 0 .. N - 1, n \in U PROVE n + 1 \in U
    <3>1. n \in Nat /\ n + 1 \in 1 .. N
      BY <1>1
    <3>2. n # 0 => n \in 1 .. n
      BY <3>1
    <3>3. n # 0 => c[n] \in Seq(S)
      BY <2>4, <3>2
    <3>4. (n + 1 = 1 <=> n = 0) /\ (n + 1) - 1 = n
      BY <3>1
    <3>5. c[n + 1] \in Seq(S)
      <4> DEFINE e == seqs[n + 1]
                 b == c[n]
      <4>1. e \in Seq(S) /\ c[n + 1] = IF n = 0 THEN e ELSE b \o e
        BY <1>1, <2>2, <3>1, <3>4
      <4>2. n # 0 => b \in Seq(S)
        BY <3>3
      <4> HIDE DEF e, b
      <4> QED BY <4>1, <4>2, ConcatProperties
    <3>6. \A i \in 1 .. n + 1 : i \in 1 .. n \/ i = n + 1
      BY <3>1
    <3> QED BY <2>4, <3>1, <3>5, <3>6
  <2>5. N \in U
    <3> HIDE DEF U
    <3>1. \A i \in 0 .. N : i \in U
      BY <1>1, <2>3, <2>4, UpTo
    <3> QED BY <1>1, <3>1
  <2>6. c \in [1 .. N -> Seq(S)]
    BY <2>1, <2>5
  <2> QED BY <2>2, <2>6
<1> DEFINE f0 == [i \in 0 .. N |-> IF i = 0 THEN <<>> ELSE c[i]]
<1>10. f0 \in [0 .. N -> Seq(S)] /\ f0[0] = <<>>
  BY <1>1, <1>9
<1>11. ASSUME NEW i \in 1 .. N PROVE f0[i] = f0[i - 1] \o seqs[i]
  <2>1. f0[i] = c[i] /\ (i # 1 => f0[i - 1] = c[i - 1])
    BY <1>1
  <2>2. CASE i = 1
    <3>1. f0[i - 1] = <<>> /\ seqs[i] \in Seq(S)
      BY <1>1, <2>2
    <3>2. f0[i - 1] \o seqs[i] = seqs[i]
      <4> DEFINE e == seqs[i]
      <4>1. e \in Seq(S)
        BY <3>1
      <4> HIDE DEF e
      <4>2. <<>> \o e = e
        BY <4>1, ConcatEmptySeq
      <4> QED BY <3>1, <4>2 DEF e
    <3> QED BY <1>9, <2>1, <2>2, <3>2
  <2>3. CASE i # 1
    BY <1>9, <2>1, <2>3
  <2> QED BY <2>2, <2>3
<1>12. FlattenSeq(seqs) = f0[N]
  <2>1. CASE N = 0
    <3>1. seqs = <<>> /\ FlattenSeq(seqs) = seqs
      BY <2>1, EmptySeq DEF FlattenSeq
    <3> QED BY <1>10, <2>1, <3>1
  <2>2. CASE N # 0
    BY <1>1, <1>8, <2>2
  <2> QED BY <2>1, <2>2
<1> HIDE DEF f0
<1> QED BY <1>10, <1>11, <1>12

\* A list of lists, one longer, is joined to the rest.
LEMMA FlattenAppend ==
  ASSUME NEW S, NEW seqs \in Seq(Seq(S)), NEW e \in Seq(S)
  PROVE  FlattenSeq(Append(seqs, e)) = FlattenSeq(seqs) \o e
<1> DEFINE N == Len(seqs)
           t == Append(seqs, e)
<1>1. N \in Nat /\ t \in Seq(Seq(S)) /\ Len(t) = N + 1 /\ t[N + 1] = e
      /\ \A i \in 1 .. N : t[i] = seqs[i]
  BY AppendProperties
<1> HIDE DEF t
<1>2. PICK f \in [0 .. N -> Seq(S)] :
         /\ f[0] = <<>> /\ FlattenSeq(seqs) = f[N]
         /\ \A i \in 1 .. N : f[i] = f[i - 1] \o seqs[i]
  BY FlattenSteps
<1>3. PICK g \in [0 .. N + 1 -> Seq(S)] :
         /\ g[0] = <<>> /\ FlattenSeq(t) = g[N + 1]
         /\ \A i \in 1 .. N + 1 : g[i] = g[i - 1] \o t[i]
  <2>1. t \in Seq(Seq(S)) /\ Len(t) = N + 1
    BY <1>1
  <2>2. \E g \in [0 .. Len(t) -> Seq(S)] :
           /\ g[0] = <<>> /\ FlattenSeq(t) = g[Len(t)]
           /\ \A i \in 1 .. Len(t) : g[i] = g[i - 1] \o t[i]
    BY <2>1, FlattenSteps
  <2> QED BY <2>1, <2>2
<1> DEFINE T == {i \in 0 .. N : f[i] = g[i]}
<1>4. 0 \in T
  BY <1>1, <1>2, <1>3
<1>5. ASSUME NEW i \in 0 .. N - 1, i \in T PROVE i + 1 \in T
  <2>1. i + 1 \in 1 .. N /\ i + 1 \in 1 .. N + 1 /\ i + 1 \in 0 .. N /\ (i + 1) - 1 = i
    BY <1>1
  <2>2. f[i + 1] = f[i] \o seqs[i + 1] /\ g[i + 1] = g[i] \o t[i + 1] /\ t[i + 1] = seqs[i + 1]
    BY <1>1, <1>2, <1>3, <2>1
  <2> QED BY <1>5, <2>1, <2>2
<1>6. f[N] = g[N]
  <2> HIDE DEF T
  <2>1. \A i \in 0 .. N : i \in T
    BY <1>1, <1>4, <1>5, UpTo
  <2> QED BY <1>1, <2>1 DEF T
<1>7. g[N + 1] = g[N] \o e
  <2>1. N + 1 \in 1 .. N + 1 /\ (N + 1) - 1 = N
    BY <1>1
  <2> QED BY <1>1, <1>3, <2>1
<1> QED BY <1>2, <1>3, <1>6, <1>7 DEF t

\* A joined list of lists of S is a list of S.
LEMMA FlattenType ==
  ASSUME NEW S, NEW seqs \in Seq(Seq(S))
  PROVE  FlattenSeq(seqs) \in Seq(S)
<1>1. PICK f \in [0 .. Len(seqs) -> Seq(S)] : FlattenSeq(seqs) = f[Len(seqs)]
  BY FlattenSteps
<1>2. Len(seqs) \in 0 .. Len(seqs)
  OBVIOUS
<1> QED BY <1>1, <1>2

\* The final frames, one frame after the other.
LEMMA FinalSteps ==
  ASSUME NEW s \in Seq(Frame)
  PROVE  /\ FinalFramesUpTo(s, 0) = <<>>
         /\ \A k \in 1 .. Len(s) :
               FinalFramesUpTo(s, k) = IF s[k].fin THEN Append(FinalFramesUpTo(s, k - 1), k)
                                       ELSE FinalFramesUpTo(s, k - 1)
         /\ \A k \in 0 .. Len(s) : FinalFramesUpTo(s, k) \in Seq(Nat)
<1> DEFINE n == Len(s)
           Body(h) == [i \in 0 .. n |-> IF i = 0 THEN <<>>
                                        ELSE IF s[i].fin THEN Append(h[i - 1], i) ELSE h[i - 1]]
           step == [i \in 1 .. n |-> [m \in Seq(Nat) |-> IF s[i].fin THEN Append(m, i) ELSE m]]
           c == CHOOSE h : h = Body(h)
           T == {i \in 0 .. n : c[i] \in Seq(Nat)}
<1>1. n \in Nat
  OBVIOUS
<1>2. /\ step \in [1 .. n -> [Seq(Nat) -> Seq(Nat)]]
      /\ \A i \in 1 .. n : \A m \in Seq(Nat) : step[i][m] = IF s[i].fin THEN Append(m, i) ELSE m
  <2>1. ASSUME NEW i \in 1 .. n, NEW m \in Seq(Nat)
        PROVE  (IF s[i].fin THEN Append(m, i) ELSE m) \in Seq(Nat)
    <3>1. i \in Nat /\ Append(m, i) \in Seq(Nat)
      BY AppendProperties
    <3> QED BY <3>1
  <2> QED BY <2>1
<1> HIDE DEF step, n
<1>3. \E f : Follows(f, Seq(Nat), n, <<>>, step)
  <2>1. step \in StepsIn(Seq(Nat), n)
    BY <1>2 DEF StepsIn
  <2>2. <<>> \in Seq(Nat)
    BY EmptySeq
  <2> QED BY <1>1, <2>1, <2>2, Iterates
<1>3a. PICK f : f \in [0 .. n -> Seq(Nat)] /\ f[0] = <<>> /\ \A i \in 1 .. n : f[i] = step[i][f[i - 1]]
  BY <1>3 DEF Follows
<1>4. ASSUME NEW i \in 1 .. n PROVE f[i] = IF s[i].fin THEN Append(f[i - 1], i) ELSE f[i - 1]
  <2>1. i - 1 \in 0 .. n /\ f[i - 1] \in Seq(Nat)
    BY <1>1, <1>3a
  <2>2. f[i] = step[i][f[i - 1]]
    BY <1>3a
  <2>3. step[i][f[i - 1]] = IF s[i].fin THEN Append(f[i - 1], i) ELSE f[i - 1]
    BY <1>2, <2>1
  <2> QED BY <2>2, <2>3
<1>5. f = Body(f)
  <2> DEFINE g == Body(f)
  <2>1. \A i \in 0 .. n : f[i] = IF i = 0 THEN <<>>
                                ELSE IF s[i].fin THEN Append(f[i - 1], i) ELSE f[i - 1]
    <3>1. \A i \in 0 .. n : i = 0 \/ i \in 1 .. n
      BY <1>1
    <3> QED BY <1>3a, <1>4, <3>1
  <2>2. \A i \in 0 .. n : f[i] = g[i]
    BY <2>1, Zenon
  <2>3. f = [i \in 0 .. n |-> f[i]]
    BY <1>3a, Zenon
  <2>4. g = [i \in 0 .. n |-> g[i]]
    BY Zenon
  <2> HIDE DEF g
  <2>5. f = g
    BY <2>2, <2>3, <2>4, Zenon
  <2> QED BY <2>5 DEF g
<1>6. c = Body(c)
  BY <1>5, Zenon
<1>7. \A k : FinalFramesUpTo(s, k) = c[k]
  BY Zenon DEF FinalFramesUpTo, n
<1> HIDE DEF c
<1>8. c[0] = <<>> /\ \A i \in 1 .. n : c[i] = IF s[i].fin THEN Append(c[i - 1], i) ELSE c[i - 1]
  <2>1. \A i \in 0 .. n : c[i] = IF i = 0 THEN <<>>
                                ELSE IF s[i].fin THEN Append(c[i - 1], i) ELSE c[i - 1]
    BY <1>6, Zenon
  <2>2. 0 \in 0 .. n /\ \A i \in 1 .. n : i \in 0 .. n /\ i # 0
    BY <1>1
  <2> QED BY <2>1, <2>2
<1>9. 0 \in T
  <2>1. c[0] = <<>>
    BY <1>8, Zenon
  <2>2. c[0] \in Seq(Nat) /\ 0 \in 0 .. n
    BY <1>1, <2>1, EmptySeq
  <2> QED BY <2>2
<1>10. ASSUME NEW i \in 0 .. n - 1, i \in T PROVE i + 1 \in T
  <2>1. i + 1 \in 1 .. n /\ i + 1 \in 0 .. n /\ (i + 1) - 1 = i /\ i + 1 \in Nat /\ c[i] \in Seq(Nat)
    BY <1>1, <1>10
  <2>2. c[i + 1] = IF s[i + 1].fin THEN Append(c[i], i + 1) ELSE c[i]
    BY <1>8, <2>1
  <2>3. Append(c[i], i + 1) \in Seq(Nat)
    BY <2>1, AppendProperties
  <2> QED BY <2>1, <2>2, <2>3
<1>11. \A i \in 0 .. n : i \in T
  <2> HIDE DEF T
  <2> QED BY <1>1, <1>9, <1>10, UpTo
<1> QED BY <1>1, <1>7, <1>8, <1>11 DEF n

\* The final frames up to a frame come first among those up to a later one,
\* and the others are later frames.
LEMMA FinalPlaces ==
  ASSUME NEW s \in Seq(Frame), NEW k \in 0 .. Len(s), NEW j \in 0 .. Len(s), k <= j
  PROVE  LET F == FinalFramesUpTo(s, k)
             G == FinalFramesUpTo(s, j)
         IN /\ F \in Seq(Nat) /\ G \in Seq(Nat) /\ Len(F) <= Len(G)
            /\ \A i \in 1 .. Len(F) : G[i] = F[i]
            /\ \A i \in Len(F) + 1 .. Len(G) : G[i] > k
<1> DEFINE n == Len(s)
           g == [i \in 0 .. n |-> FinalFramesUpTo(s, i)]
           Places(h, i) == /\ Len(g[h]) <= Len(g[i])
                           /\ \A m \in 1 .. Len(g[h]) : g[i][m] = g[h][m]
                           /\ \A m \in Len(g[h]) + 1 .. Len(g[i]) : g[i][m] > h
           T == {i \in 0 .. n : \A h \in 0 .. n : h <= i => Places(h, i)}
<1>1. n \in Nat /\ \A i \in 0 .. n : g[i] \in Seq(Nat) /\ g[i] = FinalFramesUpTo(s, i)
  BY FinalSteps
<1>2. ASSUME NEW i \in 0 .. n - 1
      PROVE  g[i + 1] = g[i] \/ g[i + 1] = Append(g[i], i + 1)
  <2>1. i + 1 \in 1 .. n /\ (i + 1) - 1 = i /\ i \in 0 .. n /\ i + 1 \in 0 .. n
    BY <1>1
  <2>2. \/ FinalFramesUpTo(s, i + 1) = Append(FinalFramesUpTo(s, i), i + 1)
        \/ FinalFramesUpTo(s, i + 1) = FinalFramesUpTo(s, i)
    BY <2>1, FinalSteps
  <2> QED BY <2>1, <2>2
<1> HIDE DEF g
<1>3. \A h \in 0 .. n : Places(h, h)
  BY <1>1
<1>4. 0 \in T
  <2>1. \A h \in 0 .. n : h <= 0 => h = 0
    BY <1>1
  <2>2. 0 \in 0 .. n
    BY <1>1
  <2> HIDE DEF Places
  <2> QED BY <1>3, <2>1, <2>2
<1>5. ASSUME NEW i \in 0 .. n - 1, i \in T PROVE i + 1 \in T
  <2>1. i \in 0 .. n /\ i + 1 \in 0 .. n /\ i \in Nat
    BY <1>1
  <2>2. ASSUME NEW h \in 0 .. n, h <= i PROVE Places(h, i + 1)
    <3>1. Places(h, i)
      BY <1>5, <2>2
    <3>2. CASE g[i + 1] = g[i]
      BY <3>1, <3>2
    <3>3. CASE g[i + 1] = Append(g[i], i + 1)
      <4>1. g[i] \in Seq(Nat) /\ g[h] \in Seq(Nat) /\ Len(g[i]) \in Nat /\ Len(g[h]) \in Nat /\ h \in Nat
        BY <1>1, <2>1
      <4> DEFINE q == g[i]
                 r == g[i + 1]
      <4>2. /\ Len(r) = Len(q) + 1 /\ r[Len(q) + 1] = i + 1
            /\ \A m \in 1 .. Len(q) : r[m] = q[m]
        BY <3>3, <4>1, AppendProperties
      <4>3. /\ Len(g[h]) <= Len(q) /\ \A m \in 1 .. Len(g[h]) : q[m] = g[h][m]
            /\ \A m \in Len(g[h]) + 1 .. Len(q) : q[m] > h
        BY <3>1
      <4> HIDE DEF q, r
      <4>4. Len(g[h]) <= Len(r) /\ \A m \in 1 .. Len(g[h]) : r[m] = g[h][m]
        <5>1. Len(q) \in Nat
          BY <4>1 DEF q
        <5> QED BY <4>1, <4>2, <4>3, <5>1
      <4>5. ASSUME NEW m \in Len(g[h]) + 1 .. Len(r) PROVE r[m] > h
        <5>1. Len(q) \in Nat
          BY <4>1 DEF q
        <5>2. CASE m = Len(q) + 1
          BY <2>1, <2>2, <4>1, <4>2, <5>2
        <5>3. CASE m # Len(q) + 1
          <6>1. m \in 1 .. Len(q) /\ m \in Len(g[h]) + 1 .. Len(q)
            BY <4>1, <4>2, <5>1, <5>3
          <6> QED BY <4>2, <4>3, <6>1
        <5> QED BY <5>2, <5>3
      <4> QED BY <4>4, <4>5 DEF r
    <3> QED BY <1>2, <3>2, <3>3
  <2>3. ASSUME NEW h \in 0 .. n, h <= i + 1 PROVE Places(h, i + 1)
    <3>1. h <= i \/ h = i + 1
      BY <2>1, <2>3
    <3> HIDE DEF Places
    <3> QED BY <1>3, <2>2, <3>1
  <2> HIDE DEF Places
  <2> QED BY <2>1, <2>3
<1>6. \A i \in 0 .. n : i \in T
  <2> HIDE DEF T
  <2> QED BY <1>1, <1>4, <1>5, UpTo
<1>7. Places(k, j)
  <2> HIDE DEF Places
  <2> QED BY <1>6
<1>8. g[k] = FinalFramesUpTo(s, k) /\ g[j] = FinalFramesUpTo(s, j) /\ g[k] \in Seq(Nat) /\ g[j] \in Seq(Nat)
  BY <1>1
<1> DEFINE F == FinalFramesUpTo(s, k)
           G == FinalFramesUpTo(s, j)
<1>9. g[k] = F /\ g[j] = G
  BY <1>8
<1> HIDE DEF F, G
<1> QED BY <1>7, <1>8, <1>9 DEF F, G

\* Frames that are not final add nothing.
LEMMA NoFinals ==
  ASSUME NEW s \in Seq(Frame), NEW b \in 0 .. Len(s), NEW e \in b .. Len(s),
         \A k \in b + 1 .. e : ~s[k].fin
  PROVE  FinalFramesUpTo(s, e) = FinalFramesUpTo(s, b)
<1> DEFINE T == {i \in 0 .. e : i >= b => FinalFramesUpTo(s, i) = FinalFramesUpTo(s, b)}
<1>1. b \in Nat /\ e \in Nat /\ b <= e /\ e <= Len(s) /\ Len(s) \in Nat
  OBVIOUS
<1>2. 0 \in T
  <2>1. 0 >= b => 0 = b
    BY <1>1
  <2> QED BY <1>1, <2>1
<1>3. ASSUME NEW i \in 0 .. e - 1, i \in T PROVE i + 1 \in T
  <2>1. i + 1 \in 1 .. Len(s) /\ (i + 1) - 1 = i /\ i + 1 \in 0 .. e /\ i \in Nat
    BY <1>1
  <2>2. CASE i + 1 > b
    <3>1. i >= b /\ i + 1 \in b + 1 .. e
      BY <1>1, <2>1, <2>2
    <3>2. FinalFramesUpTo(s, i + 1) = FinalFramesUpTo(s, i)
      BY <2>1, <3>1, FinalSteps
    <3> QED BY <1>3, <2>1, <3>1, <3>2
  <2>3. CASE i + 1 <= b
    <3>1. i + 1 >= b => i + 1 = b
      BY <1>1, <2>1, <2>3
    <3> QED BY <2>1, <3>1
  <2> QED BY <1>1, <2>1, <2>2, <2>3
<1>4. \A i \in 0 .. e : i \in T
  <2> HIDE DEF T
  <2> QED BY <1>1, <1>2, <1>3, UpTo
<1> QED BY <1>1, <1>4

-----------------------------------------------------------------------------
(* The messages of a legal stream. *)

\* The payloads of the frames after the first b up to the e-th, unmasked.
Joined(s, b, e) == FlattenSeq([i \in 1 .. e - b |-> Payload(s, b + i, TRUE)])

\* The messages handed over, and the one about to be.
Out == delivered \o IF pc = "deliver" THEN mpMsg ELSE <<>>

\* The frames removed are whole messages, and no message is begun.
AtMessage(b) == (b # 0 => stream[b].fin) /\ ~Inside(stream, b + 1)

\* The scan stops at the first final frame.
OneMessage(b, c) ==
    152 \notin failed =>
        /\ \A k \in b + 1 .. c : stream[k].fin => k = c /\ iComplete
        /\ iComplete => stream[c].fin

BytesJoined(b, c) ==
    pc = "extract" =>
        \E e \in b .. c : Extracted(b, e) /\ TmpMsg.bytes = Joined(stream, b, e)

\* The messages up to the b-th frame are out; nothing else is, unless the
\* next message is interrupted.
Handed(b) ==
    LET n == Len(FinalFramesUpTo(stream, b))
    IN /\ n <= Len(Out) /\ \A j \in 1 .. n : Out[j] = Message(stream, j)
       /\ 152 \notin failed => Len(Out) = n

Jammed(b) ==
    152 \in failed =>
        \E x \in b + 1 .. Len(stream) :
            Interrupts(stream, x) /\ \A k \in b + 1 .. x - 1 : ~stream[k].fin

Whole(b, c) ==
    AtMessage(b) /\ OneMessage(b, c) /\ BytesJoined(b, c) /\ Handed(b) /\ Jammed(b)

WholeInv == \E b, c \in 0 .. Len(stream) : Sync(b, c) /\ Whole(b, c)

\* Payloads are joined one after the other.
LEMMA JoinSteps ==
  ASSUME NEW s \in Seq(Frame), NEW b \in 0 .. Len(s), NEW e \in b .. Len(s)
  PROVE  /\ Joined(s, b, b) = <<>> /\ Joined(s, b, e) \in Seq(PayloadByte)
         /\ e < Len(s) => Joined(s, b, e + 1) = Joined(s, b, e) \o Payload(s, e + 1, TRUE)
<1> DEFINE P(n) == [i \in 1 .. n |-> Payload(s, b + i, TRUE)]
<1>1. b \in Nat /\ e \in Nat /\ b <= e /\ e <= Len(s) /\ Len(s) \in Nat /\ e - b \in Nat
  OBVIOUS
<1>2. ASSUME NEW k \in 1 .. Len(s) PROVE Payload(s, k, TRUE) \in Seq(PayloadByte)
  BY PayloadType
<1>3. ASSUME NEW n \in Nat, b + n <= Len(s)
      PROVE  P(n) \in Seq(Seq(PayloadByte)) /\ Len(P(n)) = n
  <2>1. \A i \in 1 .. n : b + i \in 1 .. Len(s)
    BY <1>1, <1>3
  <2>2. \A i \in 1 .. n : Payload(s, b + i, TRUE) \in Seq(PayloadByte)
    BY <1>2, <2>1
  <2> DEFINE V == Seq(PayloadByte)
             q == P(n)
  <2>3. q \in [1 .. n -> V]
    BY <2>2, Zenon
  <2> HIDE DEF V, q
  <2>4. q \in Seq(V) /\ Len(q) = n
    BY <1>3, <2>3
  <2> QED BY <2>4 DEF V, q
<1>4. Joined(s, b, b) = <<>>
  <2>1. b - b = 0 /\ P(0) \in Seq(Seq(PayloadByte)) /\ Len(P(0)) = 0
    BY <1>1, <1>3
  <2>2. FlattenSeq(P(0)) = P(0) /\ P(0) = <<>>
    BY <2>1, EmptySeq DEF FlattenSeq
  <2> HIDE DEF P
  <2>3. Joined(s, b, b) = FlattenSeq(P(b - b))
    BY DEF Joined, P
  <2>4. b - b = 0
    BY <2>1
  <2> QED BY <2>2, <2>3, <2>4
<1>5. Joined(s, b, e) \in Seq(PayloadByte)
  <2> DEFINE n == e - b
  <2>1. n \in Nat /\ b + n <= Len(s)
    BY <1>1
  <2> HIDE DEF P, n
  <2>2. P(n) \in Seq(Seq(PayloadByte))
    BY <1>3, <2>1
  <2>3. FlattenSeq(P(n)) \in Seq(PayloadByte)
    BY <2>2, FlattenType
  <2> QED BY <2>3 DEF Joined, P, n
<1>6. ASSUME e < Len(s)
      PROVE  Joined(s, b, e + 1) = Joined(s, b, e) \o Payload(s, e + 1, TRUE)
  <2> DEFINE n == e - b
             p == Payload(s, e + 1, TRUE)
  <2>1. n \in Nat /\ n + 1 \in Nat /\ b + n <= Len(s) /\ b + (n + 1) <= Len(s) /\ e + 1 - b = n + 1
        /\ b + (n + 1) = e + 1 /\ e + 1 \in 1 .. Len(s)
    BY <1>1, <1>6
  <2>2. p \in Seq(PayloadByte)
    BY <1>2, <2>1
  <2>3. P(n) \in Seq(Seq(PayloadByte)) /\ Len(P(n)) = n
    BY <1>3, <2>1
  <2>4. P(n + 1) \in Seq(Seq(PayloadByte)) /\ Len(P(n + 1)) = n + 1
    BY <1>3, <2>1
  <2>5. \A i \in 1 .. n : P(n + 1)[i] = P(n)[i]
    <3>1. 1 .. n \subseteq 1 .. n + 1
      BY <2>1
    <3> HIDE DEF n
    <3> QED BY <3>1, Zenon
  <2>6. P(n + 1)[n + 1] = p
    BY <2>1
  <2> DEFINE q == P(n)
             r == P(n + 1)
  <2> HIDE DEF P, p, n
  <2>7. r = Append(q, p)
    <3>1. Append(q, p) \in Seq(Seq(PayloadByte)) /\ Len(Append(q, p)) = n + 1
          /\ Append(q, p)[n + 1] = p /\ \A i \in 1 .. n : Append(q, p)[i] = q[i]
      BY <2>2, <2>3, AppendProperties
    <3> DEFINE t == Append(q, p)
    <3>2. \A i \in 1 .. n : t[i] = r[i]
      BY <2>5, <3>1
    <3>3. t[n + 1] = r[n + 1]
      BY <2>6, <3>1
    <3>4. \A i \in 1 .. n + 1 : i \in 1 .. n \/ i = n + 1
      BY <2>1
    <3>5. \A i \in 1 .. n + 1 : t[i] = r[i]
      BY <3>2, <3>3, <3>4
    <3>6. t \in Seq(Seq(PayloadByte)) /\ r \in Seq(Seq(PayloadByte)) /\ Len(t) = n + 1 /\ Len(r) = n + 1
      BY <2>4, <3>1
    <3> HIDE DEF t, r
    <3>7. t = r
      BY <3>5, <3>6, SeqEqual
    <3> QED BY <3>7 DEF t
  <2>8. FlattenSeq(r) = FlattenSeq(q) \o p
    BY <2>2, <2>3, <2>7, FlattenAppend
  <2>9. Joined(s, b, e) = FlattenSeq(q) /\ Joined(s, b, e + 1) = FlattenSeq(r)
    <3>1. Joined(s, b, e) = FlattenSeq(P(e - b)) /\ Joined(s, b, e + 1) = FlattenSeq(P(e + 1 - b))
      BY DEF Joined, P
    <3>2. e + 1 - b = n + 1 /\ e - b = n
      BY <2>1 DEF n
    <3> QED BY <3>1, <3>2
  <2> QED BY <2>8, <2>9 DEF p
<1> QED BY <1>4, <1>5, <1>6

\* The next message is that of the frames after the last final frame up to
\* the next one.
LEMMA NextMessage ==
  ASSUME NEW s \in Seq(Frame), NEW b \in 0 .. Len(s), NEW c \in b + 1 .. Len(s),
         b # 0 => s[b].fin, s[c].fin, \A k \in b + 1 .. c - 1 : ~s[k].fin
  PROVE  LET n == Len(FinalFramesUpTo(s, b))
         IN /\ n \in Nat /\ Len(FinalFramesUpTo(s, c)) = n + 1 /\ n + 1 <= Len(FinalFrames(s))
            /\ FinalFrames(s)[n + 1] = c
            /\ Message(s, n + 1) = [type |-> s[b + 1].op, bytes |-> Joined(s, b, c)]
<1> DEFINE F == FinalFramesUpTo(s, b)
           G == FinalFramesUpTo(s, c)
           A == FinalFrames(s)
           n == Len(F)
<1>1. /\ b \in Nat /\ c \in Nat /\ b < c /\ c <= Len(s) /\ Len(s) \in Nat
      /\ c \in 0 .. Len(s) /\ c - 1 \in b .. Len(s) /\ c \in 1 .. Len(s) /\ Len(s) \in 0 .. Len(s)
  OBVIOUS
<1>2. F \in Seq(Nat) /\ n \in Nat
  BY FinalSteps
<1>3. G = Append(F, c)
  <2>1. FinalFramesUpTo(s, c - 1) = F
    BY <1>1, NoFinals
  <2>2. G = Append(FinalFramesUpTo(s, c - 1), c)
    BY <1>1, FinalSteps
  <2> QED BY <2>1, <2>2
<1>4. /\ A \in Seq(Nat) /\ Len(G) <= Len(A) /\ \A i \in 1 .. Len(G) : A[i] = G[i]
  <2>1. A = FinalFramesUpTo(s, Len(s))
    BY DEF FinalFrames
  <2> QED BY <1>1, <2>1, FinalPlaces
<1> HIDE DEF F, G, A
<1>5. Len(G) = n + 1 /\ G[n + 1] = c /\ \A i \in 1 .. n : G[i] = F[i]
  BY <1>1, <1>2, <1>3, AppendProperties
<1>6. n + 1 <= Len(A) /\ A[n + 1] = c /\ \A i \in 1 .. n : A[i] = F[i]
  <2>1. n + 1 \in 1 .. Len(G) /\ \A i \in 1 .. n : i \in 1 .. Len(G)
    BY <1>2, <1>5
  <2> QED BY <1>4, <1>5, <2>1
<1>7. (IF n + 1 = 1 THEN 1 ELSE A[(n + 1) - 1] + 1) = b + 1
  <2>1. CASE b = 0
    <3>1. F = <<>>
      BY <2>1, FinalSteps DEF F
    <3>2. n = 0
      BY <3>1
    <3> QED BY <2>1, <3>2
  <2>2. CASE b # 0
    <3>1. b \in 1 .. Len(s) /\ b - 1 \in 0 .. Len(s) /\ s[b].fin
      BY <1>1, <2>2
    <3> DEFINE E == FinalFramesUpTo(s, b - 1)
    <3>2. F = Append(E, b) /\ E \in Seq(Nat)
      BY <3>1, FinalSteps DEF F
    <3> HIDE DEF E
    <3>3. Len(E) \in Nat /\ n = Len(E) + 1 /\ F[n] = b
      BY <1>1, <3>2, AppendProperties
    <3>4. n # 0 /\ n \in 1 .. n /\ (n + 1) - 1 = n /\ n + 1 # 1
      BY <1>2, <3>3
    <3>5. A[n] = b
      BY <1>6, <3>3, <3>4
    <3> QED BY <3>4, <3>5
  <2> QED BY <2>1, <2>2
<1>8. Message(s, n + 1) = [type |-> s[b + 1].op, bytes |-> Joined(s, b, c)]
  <2> DEFINE first == IF n + 1 = 1 THEN 1 ELSE A[(n + 1) - 1] + 1
  <2>1. Message(s, n + 1) =
           [type  |-> s[first].op,
            bytes |-> FlattenSeq([i \in 1 .. A[n + 1] - first + 1 |-> Payload(s, first + i - 1, TRUE)])]
    BY DEF Message, A
  <2>2. first = b + 1 /\ A[n + 1] = c
    BY <1>6, <1>7
  <2> HIDE DEF first
  <2>3. Message(s, n + 1) =
           [type  |-> s[b + 1].op,
            bytes |-> FlattenSeq([i \in 1 .. c - (b + 1) + 1 |-> Payload(s, (b + 1) + i - 1, TRUE)])]
    BY <2>1, <2>2
  <2>4. [i \in 1 .. c - (b + 1) + 1 |-> Payload(s, (b + 1) + i - 1, TRUE)] =
        [i \in 1 .. c - b |-> Payload(s, b + i, TRUE)]
    <3>1. 1 .. c - (b + 1) + 1 = 1 .. c - b /\ \A i \in 1 .. c - b : (b + 1) + i - 1 = b + i
      BY <1>1
    <3> QED BY <3>1
  <2> QED BY <2>3, <2>4 DEF Joined
<1> QED BY <1>2, <1>5, <1>6, <1>8 DEF F, G, A

-----------------------------------------------------------------------------
(* Legal streams. *)

\* A frame that is not between fragments begins a message.
LEMMA LegalStart ==
  ASSUME NEW s \in Seq(Frame), Legal(s), NEW b \in 0 .. Len(s), b < Len(s), ~Inside(s, b + 1)
  PROVE  s[b + 1].op # WS_FRAME_CONTINUATION
<1>1. b + 1 \in 1 .. Len(s)
  OBVIOUS
<1>2. s[b + 1].op \notin Control => (s[b + 1].op = WS_FRAME_CONTINUATION <=> Inside(s, b + 1))
  BY <1>1 DEF Legal
<1> QED BY <1>2
        DEF Control, WS_FRAME_CONTINUATION, WS_FRAME_CLOSING, WS_FRAME_PING, WS_FRAME_PONG

\* A message whose frames have one type is followed by the start of another.
LEMMA LegalNext ==
  ASSUME NEW s \in Seq(Frame), Legal(s), NEW b \in 0 .. Len(s), NEW c \in b + 1 .. Len(s),
         ~Inside(s, b + 1), s[c].fin, \A k \in b + 1 .. c - 1 : ~s[k].fin,
         NEW type, \A i \in b + 1 .. c : s[i].op \in {type, WS_FRAME_CONTINUATION}
  PROVE  ~Inside(s, c + 1)
<1>1. b \in Nat /\ c \in Nat /\ b < c /\ c <= Len(s) /\ Len(s) \in Nat /\ b + 1 \in b + 1 .. c
      /\ c \in b + 1 .. c /\ \A i \in b + 1 .. c : i \in 1 .. Len(s)
  OBVIOUS
<1>2. SUFFICES ASSUME NEW i \in 1 .. c, s[i].op \notin Control, ~s[i].fin,
                      \A j \in i + 1 .. c : s[j].op \in Control
               PROVE  FALSE
  <2>1. (c + 1) - 1 = c
    BY <1>1
  <2> QED BY <1>2, <2>1 DEF Inside
<1>3. i # c /\ i < c /\ c \in i + 1 .. c
  BY <1>1, <1>2
<1>4. s[c].op \in Control
  BY <1>2, <1>3
<1>5. CASE i <= b
  <2>1. i \in 1 .. (b + 1) - 1 /\ \A j \in i + 1 .. (b + 1) - 1 : j \in i + 1 .. c
    BY <1>1, <1>5
  <2>2. Inside(s, b + 1)
    BY <1>2, <2>1 DEF Inside
  <2> QED BY <2>2
<1>6. CASE i > b
  <2>1. i \in b + 1 .. c - 1 /\ b + 1 \in b + 1 .. c - 1 /\ i \in b + 1 .. c
    BY <1>1, <1>3, <1>6
  <2>2. s[b + 1].op # WS_FRAME_CONTINUATION
    BY <1>1, LegalStart
  <2>3. ~s[b + 1].fin
    BY <2>1
  <2>4. s[b + 1].op \notin Control
    <3>1. s[b + 1].op \in Control => s[b + 1].fin
      BY <1>1 DEF Legal
    <3> QED BY <2>3, <3>1
  <2>5. s[b + 1].op = type
    BY <1>1, <2>2
  <2>6. s[c].op \in {type, WS_FRAME_CONTINUATION}
    BY <1>1
  <2> QED BY <1>4, <2>4, <2>5, <2>6
          DEF Control, WS_FRAME_CONTINUATION, WS_FRAME_CLOSING, WS_FRAME_PING, WS_FRAME_PONG
<1> QED BY <1>1, <1>5, <1>6

\* Only a control frame has another type than the fragment in front of it.
LEMMA LegalJam ==
  ASSUME NEW s \in Seq(Frame), Legal(s), NEW e \in 1 .. Len(s), e < Len(s), ~s[e].fin,
         s[e + 1].op # WS_FRAME_CONTINUATION
  PROVE  Interrupts(s, e + 1)
<1>1. e + 1 \in 1 .. Len(s) /\ e \in 1 .. (e + 1) - 1 /\ e + 1 .. (e + 1) - 1 = {}
  OBVIOUS
<1>2. s[e].op \notin Control
  <2>1. s[e].op \in Control => s[e].fin
    BY DEF Legal
  <2> QED BY <2>1
<1>3. Inside(s, e + 1)
  BY <1>1, <1>2 DEF Inside
<1>4. s[e + 1].op \notin Control => (s[e + 1].op = WS_FRAME_CONTINUATION <=> Inside(s, e + 1))
  BY <1>1 DEF Legal
<1> QED BY <1>3, <1>4 DEF Interrupts

-----------------------------------------------------------------------------
(* Every step hands over whole messages. *)

\* A list with one more at its end.
LEMMA OneMore ==
  ASSUME NEW S, NEW d \in Seq(S), NEW m \in S
  PROVE  /\ Len(d \o <<m>>) = Len(d) + 1 /\ (d \o <<m>>)[Len(d) + 1] = m
         /\ \A j \in 1 .. Len(d) : (d \o <<m>>)[j] = d[j]
<1>1. <<m>> \in Seq(S) /\ Len(<<m>>) = 1 /\ <<m>>[1] = m
  OBVIOUS
<1> DEFINE q == <<m>>
<1>2. q \in Seq(S) /\ Len(q) = 1 /\ q[1] = m
  BY <1>1
<1> HIDE DEF q
<1>3. /\ Len(d \o q) = Len(d) + 1 /\ (d \o q)[Len(d) + 1] = m
      /\ \A j \in 1 .. Len(d) : (d \o q)[j] = d[j]
  <2> DEFINE n == Len(d)
  <2>1. Len(d \o q) = n + Len(q)
        /\ \A j \in 1 .. n + Len(q) : (d \o q)[j] = IF j <= n THEN d[j] ELSE q[j - n]
    BY <1>2, ConcatProperties
  <2>2. n \in Nat
    OBVIOUS
  <2> HIDE DEF n
  <2>3. /\ Len(d \o q) = n + 1 /\ n + 1 \in 1 .. n + Len(q) /\ ~(n + 1 <= n) /\ (n + 1) - n = 1
        /\ \A j \in 1 .. n : j \in 1 .. n + Len(q) /\ j <= n
    BY <1>2, <2>1, <2>2
  <2>4. (d \o q)[n + 1] = m /\ \A j \in 1 .. n : (d \o q)[j] = d[j]
    BY <1>2, <2>1, <2>3
  <2> QED BY <2>3, <2>4 DEF n
<1> QED BY <1>3 DEF q

\* Nothing is handed over, and nothing is about to be.
LEMMA OutSame ==
  ASSUME Typed, UNCHANGED <<stream, delivered>>, pc # "deliver", pc' # "deliver"
  PROVE  Out' = Out /\ Out = delivered
<1>1. delivered \in Seq(Msg)
  BY DEF Typed
<1>2. Out = delivered \o <<>> /\ Out' = delivered \o <<>>
  BY DEF Out
<1> QED BY <1>1, <1>2, ConcatEmptySeq

\* A step that hands over nothing and extracts nothing new.
LEMMA KeepsWhole ==
  ASSUME NEW b \in 0 .. Len(stream), NEW c \in 0 .. Len(stream), Whole(b, c),
         UNCHANGED <<stream, iComplete>>, Out' = Out, 152 \in failed' <=> 152 \in failed,
         BytesJoined(b, c)'
  PROVE  Whole(b, c)'
<1>1. AtMessage(b)'
  BY DEF Whole, AtMessage
<1>2. OneMessage(b, c)'
  BY DEF Whole, OneMessage
<1>3. Handed(b)'
  BY DEF Whole, Handed
<1>4. Jammed(b)'
  BY DEF Whole, Jammed
<1> QED BY <1>1, <1>2, <1>3, <1>4 DEF Whole

\* The extraction starts with no bytes.
LEMMA ScanBytes ==
  ASSUME NEW b \in 0 .. Len(stream), NEW c \in 0 .. Len(stream), Sync(b, c), pc = "scan",
         UNCHANGED <<stream, base, delivered, mpMsg>>, pc' # "deliver",
         pc' = "extract" => iOffset' = 0 /\ iPayloadOffset' = 0,
         NEW d \in b .. Len(stream)
  PROVE  BytesJoined(b, d)' /\ Out' = Out
<1>1. Out' = Out
  BY OutSame DEF Sync
<1>2. ASSUME pc' = "extract" PROVE BytesJoined(b, d)'
  <2>1. mpMsg' = <<>> /\ base = EndOf(stream, b) /\ stream \in Seq(Frame)
    BY Known DEF Sync, InHand
  <2>2. Extracted(b, b)'
    BY <1>2, <2>1, ExtractionStarts
  <2>3. TmpMsg'.bytes = <<>>
    BY <2>1 DEF TmpMsg, NewMsg
  <2>4. Joined(stream, b, b) = <<>> /\ b \in b .. d /\ b \in b .. Len(stream)
    <3>1. b \in Nat /\ Len(stream) \in Nat /\ b <= Len(stream)
      BY Known DEF Sync
    <3>2. b \in b .. d /\ b \in b .. Len(stream)
      BY <3>1
    <3> QED BY <2>1, <3>2, JoinSteps
  <2> QED BY <2>2, <2>3, <2>4 DEF BytesJoined
<1>3. ASSUME pc' # "extract" PROVE BytesJoined(b, d)'
  BY <1>3 DEF BytesJoined
<1> QED BY <1>1, <1>2, <1>3

\* A frame is scanned: only the last one can be final.
LEMMA ScanFrameWhole ==
  ASSUME NEW b \in 0 .. Len(stream), NEW c \in 0 .. Len(stream), Sync(b, c), Whole(b, c),
         NEW len, ScanFrame(len)
  PROVE  Whole(b, c + 1)'
<1>1. /\ c < Len(stream) /\ iComplete' = (iComplete \/ stream[c + 1].fin)
      /\ pc' = (IF stream[c + 1].fin THEN "extract" ELSE "scan")
  BY ScanFrameSync
<1>2. /\ pc = "scan" /\ UNCHANGED <<stream, base, delivered, mpMsg, failed>>
      /\ pc' = "extract" => iOffset' = 0 /\ iPayloadOffset' = 0
  <2>1. pc = "scan" /\ UNCHANGED <<stream, base, delivered, mpMsg, failed>>
    BY DEF ScanFrame, ScanHeader
  <2>2. pc' = pc \/ (iOffset' = 0 /\ iPayloadOffset' = 0)
    BY DEF ScanFrame, EndScan
  <2> QED BY <2>1, <2>2
<1>3. b \in Nat /\ c \in Nat /\ b <= c /\ Len(stream) \in Nat /\ c + 1 \in b .. Len(stream)
  BY <1>1, Known DEF Sync
<1>4. BytesJoined(b, c + 1)' /\ Out' = Out
  <2>1. pc' # "deliver"
    BY <1>1
  <2> QED BY <1>2, <1>3, <2>1, ScanBytes
<1>5. OneMessage(b, c + 1)'
  <2> SUFFICES ASSUME 152 \notin failed
               PROVE  /\ \A k \in b + 1 .. c + 1 : stream[k].fin => k = c + 1 /\ iComplete'
                      /\ iComplete' => stream[c + 1].fin
    BY <1>2 DEF OneMessage
  <2>1. ~iComplete
    BY <1>2 DEF Sync, InHand
  <2>2. \A k \in b + 1 .. c : ~stream[k].fin
    BY <2>1 DEF Whole, OneMessage
  <2>3. ASSUME NEW k \in b + 1 .. c + 1, stream[k].fin PROVE k = c + 1
    <3>1. k \in b + 1 .. c \/ k = c + 1
      BY <1>3
    <3> QED BY <2>2, <2>3, <3>1
  <2> QED BY <1>1, <2>1, <2>3
<1>6. AtMessage(b)' /\ Handed(b)' /\ Jammed(b)'
  BY <1>2, <1>4 DEF Whole, AtMessage, Handed, Jammed
<1> QED BY <1>4, <1>5, <1>6 DEF Whole

\* A frame is extracted: its payload is joined to those of the frames before.
LEMMA ExtractFrameWhole ==
  ASSUME NEW b \in 0 .. Len(stream), NEW c \in 0 .. Len(stream), Sync(b, c), Whole(b, c),
         NEW len, ExtractFrame(len)
  PROVE  Whole(b, c)'
<1>1. /\ pc = "extract" /\ UNCHANGED <<stream, iComplete, pc, delivered, failed>>
  BY DEF ExtractFrame, Extracting, cache
<1>2. PICK e \in b .. c : Extracted(b, e) /\ TmpMsg.bytes = Joined(stream, b, e)
  BY <1>1 DEF Whole, BytesJoined
<1>3. /\ e < c /\ e + 1 \in b .. c /\ Extracted(b, e + 1)'
      /\ mpMsg' = <<[type  |-> IF TmpMsg.type = 0 THEN stream[e + 1].op ELSE TmpMsg.type,
                     bytes |-> TmpMsg.bytes \o Payload(stream, e + 1, TRUE)]>>
  BY <1>2, ExtractFrameSync
<1>4. TmpMsg'.bytes = TmpMsg.bytes \o Payload(stream, e + 1, TRUE)
  BY <1>3 DEF TmpMsg
<1>5. Joined(stream, b, e + 1) = Joined(stream, b, e) \o Payload(stream, e + 1, TRUE)
  <2>1. /\ stream \in Seq(Frame) /\ e \in b .. Len(stream) /\ e < Len(stream)
    BY <1>3, Known DEF Sync
  <2> QED BY <2>1, JoinSteps
<1>6. BytesJoined(b, c)'
  BY <1>1, <1>2, <1>3, <1>4, <1>5 DEF BytesJoined
<1>7. Out' = Out
  BY <1>1, OutSame DEF Sync
<1> QED BY <1>1, <1>6, <1>7, KeepsWhole

\* The decoder gives up on a frame: it is a control frame that interrupts
\* the message.
LEMMA GiveUpWhole ==
  ASSUME NEW b \in 0 .. Len(stream), NEW c \in 0 .. Len(stream), Sync(b, c), Whole(b, c),
         Legal(stream), ExtractGiveUp
  PROVE  Whole(b, c)'
<1>1. /\ pc = "extract" /\ pc' = "deliver" /\ UNCHANGED <<stream, delivered>>
  BY DEF ExtractGiveUp, Extracting
<1>2. Sync(b, c)'
  BY GiveUpSync
<1>3. PICK e \in b .. c : /\ e < c /\ Extracted(b, e) /\ TmpMsg.type # 0
                          /\ stream[e + 1].op \notin {TmpMsg.type, WS_FRAME_CONTINUATION}
  BY GiveUpSync
<1>4. stream \in Seq(Frame) /\ b \in Nat /\ c \in Nat /\ e \in Nat /\ c <= Len(stream) /\ Len(stream) \in Nat
  BY Known DEF Sync
<1>5. 152 \in failed'
  BY GiveUpSync
<1>6. Jammed(b)'
  <2>1. CASE 152 \in failed
    BY <1>1, <2>1 DEF Whole, Jammed
  <2>2. CASE 152 \notin failed
    <3>1. e >= b + 1
      <4>1. PICK i \in b + 1 .. e : TRUE
        BY <1>3 DEF Extracted
      <4> QED BY <1>4, <4>1
    <3>2. \A k \in b + 1 .. e : k \in b + 1 .. c /\ k # c
      BY <1>3, <1>4
    <3>3. \A k \in b + 1 .. e : ~stream[k].fin
      BY <2>2, <3>2 DEF Whole, OneMessage
    <3>4. e \in 1 .. Len(stream) /\ e < Len(stream) /\ e \in b + 1 .. e /\ (e + 1) - 1 = e
          /\ e + 1 \in b + 1 .. Len(stream)
      BY <1>3, <1>4, <3>1
    <3>5. Interrupts(stream, e + 1)
      BY <1>3, <1>4, <3>3, <3>4, LegalJam
    <3> QED BY <1>1, <3>3, <3>4, <3>5 DEF Jammed
  <2> QED BY <2>1, <2>2
<1>7. Handed(b)'
  <2> DEFINE n == Len(FinalFramesUpTo(stream, b))
  <2>1. Out = delivered /\ delivered \in Seq(Msg)
    <3>1. delivered \in Seq(Msg)
      BY DEF Sync, Typed
    <3> QED BY <1>1, <3>1, ConcatEmptySeq DEF Out
  <2>2. Out' = delivered \o mpMsg' /\ mpMsg' \in Seq(Msg)
    <3>1. Out' = delivered \o mpMsg'
      BY <1>1 DEF Out
    <3>2. mpMsg' = <<>> \/ \E m \in Msg : mpMsg' = <<m>>
      BY <1>2 DEF Sync, Typed
    <3>3. \A m \in Msg : <<m>> \in Seq(Msg)
      OBVIOUS
    <3>4. mpMsg' \in Seq(Msg)
      BY <3>2, <3>3, EmptySeq
    <3> QED BY <3>1, <3>4
  <2>3. n <= Len(delivered) /\ \A j \in 1 .. n : delivered[j] = Message(stream, j)
    BY <2>1 DEF Whole, Handed
  <2>4. n \in Nat
    BY <1>4, FinalSteps
  <2> HIDE DEF n
  <2>5. n <= Len(Out') /\ \A j \in 1 .. n : Out'[j] = delivered[j]
    BY <2>1, <2>2, <2>3, <2>4, ConcatProperties
  <2>6. n <= Len(Out') /\ \A j \in 1 .. n : Out'[j] = Message(stream, j)
    BY <2>3, <2>5
  <2> QED BY <1>1, <1>5, <2>6 DEF Handed, n
<1>8. AtMessage(b)' /\ OneMessage(b, c)' /\ BytesJoined(b, c)'
  BY <1>1, <1>5 DEF Whole, AtMessage, OneMessage, BytesJoined
<1> QED BY <1>6, <1>7, <1>8 DEF Whole

\* The frames scanned are a whole message, which is now about to be handed over.
LEMMA FinishWhole ==
  ASSUME NEW b \in 0 .. Len(stream), NEW c \in 0 .. Len(stream), Sync(b, c), Whole(b, c),
         Legal(stream), Finish
  PROVE  Whole(c, c)'
<1>1. /\ Extracted(b, c) /\ b < c /\ pc = "extract" /\ pc' = "deliver" /\ ~iComplete'
      /\ 152 \notin failed /\ mpMsg # <<>> /\ UNCHANGED <<stream, mpMsg, delivered, failed>>
      /\ iComplete
  BY FinishSync DEF Sync, InHand
<1>2. /\ stream \in Seq(Frame) /\ b \in Nat /\ c \in Nat /\ Len(stream) \in Nat
      /\ c \in b + 1 .. Len(stream) /\ b + 1 \in b + 1 .. c
  BY <1>1, Known DEF Sync
<1>3. TmpMsg.bytes = Joined(stream, b, c)
  <2>1. PICK e \in b .. c : Extracted(b, e) /\ TmpMsg.bytes = Joined(stream, b, e)
    BY <1>1 DEF Whole, BytesJoined
  <2>2. EndOf(stream, e) = EndOf(stream, c) /\ e \in 0 .. Len(stream)
    BY <1>1, <1>2, <2>1 DEF Extracted
  <2>3. e = c
    BY <1>2, <2>2, EndsAtOnce
  <2> QED BY <2>1, <2>3
<1>4. \A i \in b + 1 .. c : stream[i].op \in {TmpMsg.type, WS_FRAME_CONTINUATION}
  BY <1>1 DEF Extracted
<1>5. stream[c].fin /\ \A k \in b + 1 .. c - 1 : ~stream[k].fin
  <2>1. stream[c].fin /\ \A k \in b + 1 .. c : stream[k].fin => k = c
    BY <1>1 DEF Whole, OneMessage
  <2>2. \A k \in b + 1 .. c - 1 : k \in b + 1 .. c /\ k # c
    BY <1>2
  <2> QED BY <2>1, <2>2
<1>6. ~Inside(stream, b + 1) /\ (b # 0 => stream[b].fin)
  BY DEF Whole, AtMessage
<1>7. ~Inside(stream, c + 1)
  BY <1>2, <1>4, <1>5, <1>6, LegalNext
<1>8. TmpMsg.type = stream[b + 1].op
  <2>1. b < Len(stream)
    BY <1>2
  <2>2. stream[b + 1].op # WS_FRAME_CONTINUATION
    BY <1>2, <1>6, <2>1, LegalStart
  <2> QED BY <1>2, <1>4, <2>2
<1> DEFINE n == Len(FinalFramesUpTo(stream, b))
           msg == Message(stream, n + 1)
<1>9. /\ n \in Nat /\ Len(FinalFramesUpTo(stream, c)) = n + 1
      /\ msg = [type |-> stream[b + 1].op, bytes |-> Joined(stream, b, c)]
  BY <1>2, <1>5, <1>6, NextMessage
<1>10. mpMsg = <<msg>> /\ msg \in Msg
  <2>1. PICK m \in Msg : mpMsg = <<m>>
    BY <1>1 DEF Sync, Typed
  <2>2. TmpMsg = m
    BY <1>1, <2>1 DEF TmpMsg
  <2>3. m = [type |-> m.type, bytes |-> m.bytes]
    BY DEF Msg
  <2>4. m.type = stream[b + 1].op /\ m.bytes = Joined(stream, b, c)
    BY <1>3, <1>8, <2>2
  <2> HIDE DEF msg
  <2> QED BY <1>9, <2>1, <2>3, <2>4
<1>11. Out = delivered /\ delivered \in Seq(Msg)
  <2>1. delivered \in Seq(Msg)
    BY DEF Sync, Typed
  <2> QED BY <1>1, <2>1, ConcatEmptySeq DEF Out
<1>12. Len(delivered) = n /\ \A j \in 1 .. n : delivered[j] = Message(stream, j)
  BY <1>1, <1>11 DEF Whole, Handed
<1> HIDE DEF n, msg
<1>13. Out' = delivered \o <<msg>>
  BY <1>1, <1>10 DEF Out
<1>14. /\ Len(Out') = n + 1 /\ Out'[n + 1] = msg
       /\ \A j \in 1 .. n : Out'[j] = delivered[j]
  <2> DEFINE out == delivered \o <<msg>>
  <2>1. /\ Len(out) = Len(delivered) + 1 /\ out[Len(delivered) + 1] = msg
        /\ \A j \in 1 .. Len(delivered) : out[j] = delivered[j]
    BY <1>10, <1>11, OneMore
  <2>2. Out' = out
    BY <1>13
  <2> HIDE DEF out
  <2> QED BY <1>12, <2>1, <2>2
<1>15. Handed(c)'
  <2>1. ASSUME NEW j \in 1 .. n + 1 PROVE Out'[j] = Message(stream, j)
    <3>1. j = n + 1 \/ j \in 1 .. n
      BY <1>9
    <3> QED BY <1>12, <1>14, <3>1 DEF msg
  <2>2. n + 1 <= Len(Out')
    BY <1>9, <1>14
  <2> QED BY <1>1, <1>9, <1>14, <2>1, <2>2 DEF Handed
<1>16. OneMessage(c, c)' /\ BytesJoined(c, c)' /\ Jammed(c)' /\ AtMessage(c)'
  <2>1. c + 1 .. c = {}
    BY <1>2
  <2> QED BY <1>1, <1>5, <1>7, <2>1 DEF OneMessage, BytesJoined, Jammed, AtMessage
<1> QED BY <1>15, <1>16 DEF Whole

\* At first nothing is handed over and no message is begun.
LEMMA InitWhole == Init => WholeInv
<1> SUFFICES ASSUME Init PROVE WholeInv
  OBVIOUS
<1>1. /\ stream \in Seq(Frame) /\ Len(stream) \in Nat /\ base = 0 /\ iComplete = FALSE
      /\ pc = "wait" /\ delivered = <<>> /\ failed = {} /\ iCurFrameIndex = 0
  BY StreamsAssumption DEF Init
<1>2. PICK b \in 0 .. Len(stream), c \in 0 .. Len(stream) : Sync(b, c)
  BY InitSync DEF SyncInv
<1>3. b = 0 /\ c = 0
  <2>1. EndOf(stream, b) = 0 /\ EndOf(stream, c) = 0 /\ EndOf(stream, 0) = 0 /\ 0 \in 0 .. Len(stream)
    BY <1>1, <1>2, Known, EndSteps DEF Sync
  <2> QED BY <1>1, <2>1, EndsAtOnce
<1>4. Out = <<>>
  <2>1. <<>> \o <<>> = <<>>
    BY EmptySeq, ConcatEmptySeq
  <2> QED BY <1>1, <2>1 DEF Out
<1>5. AtMessage(0)
  <2>1. 1 .. (0 + 1) - 1 = {}
    OBVIOUS
  <2> QED BY <2>1 DEF AtMessage, Inside
<1>6. OneMessage(0, 0) /\ BytesJoined(0, 0) /\ Jammed(0)
  BY <1>1 DEF OneMessage, BytesJoined, Jammed
<1>7. Handed(0)
  <2>1. FinalFramesUpTo(stream, 0) = <<>>
    BY <1>1, FinalSteps
  <2>2. Len(FinalFramesUpTo(stream, 0)) = 0 /\ Len(Out) = 0
    BY <1>4, <2>1
  <2> QED BY <2>2 DEF Handed
<1> QED BY <1>2, <1>3, <1>5, <1>6, <1>7 DEF WholeInv, Whole

\* The invariant is inductive for a legal stream: a step for each action.
LEMMA WholeStep ==
  ASSUME WholeInv, Legal(stream), [Next]_vars
  PROVE  WholeInv'
<1>1. PICK b \in 0 .. Len(stream), c \in 0 .. Len(stream) : Sync(b, c) /\ Whole(b, c)
  BY DEF WholeInv
<1>2. stream' = stream
  BY DEF Next, Scan, Extract, Arrive, CheckLen, ScanDone, ScanEmpty, ScanIncomplete, ScanFrame,
         ScanHeader, ExtractGiveUp, ExtractFrame, Finish, Deliver, vars
<1>3. Sync(b, c)' /\ Whole(b, c)' => WholeInv'
  BY <1>2 DEF WholeInv
<1>0. b \in Nat /\ c \in Nat /\ b <= c /\ c <= Len(stream) /\ c \in b .. Len(stream)
  BY <1>1, Known DEF Sync
<1>4. ASSUME NEW n \in 1 .. StreamLen, Arrive(n) PROVE WholeInv'
  <2>1. Sync(b, c)'
    BY <1>1, <1>4, ArriveSync
  <2>2. pc = "wait" /\ pc' = "check" /\ UNCHANGED <<stream, iComplete, delivered, failed>>
    BY <1>4 DEF Arrive, cache
  <2>3. Out' = Out
    BY <1>1, <2>2, OutSame DEF Sync
  <2>4. Whole(b, c)'
    BY <1>1, <2>2, <2>3, KeepsWhole DEF BytesJoined
  <2> QED BY <1>3, <2>1, <2>4
<1>5. CASE CheckLen
  <2>1. Sync(b, c)'
    BY <1>1, <1>5, CheckSync
  <2>2. /\ pc = "check" /\ pc' \in {"wait", "scan"}
        /\ UNCHANGED <<stream, iComplete, delivered, failed>>
    BY <1>5 DEF CheckLen, cache
  <2>3. Out' = Out
    BY <1>1, <2>2, OutSame DEF Sync
  <2>4. Whole(b, c)'
    BY <1>1, <2>2, <2>3, KeepsWhole DEF BytesJoined
  <2> QED BY <1>3, <2>1, <2>4
<1>6. CASE ScanDone
  <2>1. Sync(b, c)'
    BY <1>1, <1>6, ScanDoneSync
  <2>2. /\ pc = "scan" /\ pc' # "deliver" /\ iOffset' = 0 /\ iPayloadOffset' = 0
        /\ UNCHANGED <<stream, base, mpMsg, iComplete, delivered, failed>>
    BY <1>6 DEF ScanDone, EndScan, cache
  <2>3. BytesJoined(b, c)' /\ Out' = Out
    BY <1>0, <1>1, <2>2, ScanBytes
  <2>4. Whole(b, c)'
    BY <1>1, <2>2, <2>3, KeepsWhole
  <2> QED BY <1>3, <2>1, <2>4
<1>7. CASE ScanEmpty
  <2>1. Sync(b, c)'
    BY <1>1, <1>7, ScanEmptySync
  <2>2. /\ pc = "scan" /\ iRet = 0 /\ failed' = failed \cup {118}
        /\ UNCHANGED <<stream, base, mpMsg, iComplete, delivered>>
    BY <1>1, <1>7 DEF ScanEmpty, ScanHeader, cache, Sync, InHand
  <2>3. pc' = "wait"
    BY <1>7, <2>2 DEF ScanEmpty
  <2>4. BytesJoined(b, c)' /\ Out' = Out
    BY <1>0, <1>1, <2>2, <2>3, ScanBytes
  <2>5. 152 \in failed' <=> 152 \in failed
    BY <2>2
  <2>6. Whole(b, c)'
    BY <1>1, <2>2, <2>4, <2>5, KeepsWhole
  <2> QED BY <1>3, <2>1, <2>6
<1>8. ASSUME NEW len, ScanIncomplete(len) PROVE WholeInv'
  <2>1. Sync(b, c)'
    BY <1>1, <1>8, ScanIncompleteSync
  <2>2. /\ pc = "scan" /\ pc' # "deliver" /\ iOffset' = 0 /\ iPayloadOffset' = 0
        /\ UNCHANGED <<stream, base, mpMsg, iComplete, delivered, failed>>
    BY <1>8 DEF ScanIncomplete, ScanHeader, EndScan
  <2>3. BytesJoined(b, c)' /\ Out' = Out
    BY <1>0, <1>1, <2>2, ScanBytes
  <2>4. Whole(b, c)'
    BY <1>1, <2>2, <2>3, KeepsWhole
  <2> QED BY <1>3, <2>1, <2>4
<1>9. ASSUME NEW len, ScanFrame(len) PROVE WholeInv'
  <2>1. c < Len(stream) /\ Sync(b, c + 1)' /\ Whole(b, c + 1)'
    BY <1>1, <1>9, ScanFrameSync, ScanFrameWhole
  <2>2. c + 1 \in 0 .. Len(stream)
    BY <1>1, <2>1, Known DEF Sync
  <2> QED BY <1>2, <2>1, <2>2 DEF WholeInv
<1>10. CASE ExtractGiveUp
  BY <1>1, <1>3, <1>10, GiveUpSync, GiveUpWhole
<1>11. ASSUME NEW len, ExtractFrame(len) PROVE WholeInv'
  <2>1. pc = "extract"
    BY <1>11 DEF ExtractFrame, Extracting
  <2>2. PICK e \in b .. c : Extracted(b, e)
    BY <1>1, <2>1 DEF Sync, InHand
  <2> QED BY <1>1, <1>3, <1>11, <2>2, ExtractFrameSync, ExtractFrameWhole
<1>12. CASE Finish
  <2>1. Sync(c, c)' /\ Whole(c, c)'
    BY <1>1, <1>12, FinishSync, FinishWhole
  <2> QED BY <1>2, <2>1 DEF WholeInv
<1>13. CASE Deliver
  <2>1. Sync(b, c)'
    BY <1>1, <1>13, DeliverSync
  <2>2. /\ pc = "deliver" /\ pc' = "check" /\ delivered' = delivered \o mpMsg
        /\ UNCHANGED <<stream, iComplete, failed>>
    BY <1>13 DEF Deliver, cache
  <2>3. Out' = Out
    <3>1. delivered' \in Seq(Msg)
      BY <2>1 DEF Sync, Typed
    <3>2. Out' = delivered' \o <<>> /\ Out = delivered \o mpMsg
      BY <2>2 DEF Out
    <3> QED BY <2>2, <3>1, <3>2, ConcatEmptySeq
  <2>4. Whole(b, c)'
    BY <1>1, <2>2, <2>3, KeepsWhole DEF BytesJoined
  <2> QED BY <1>3, <2>1, <2>4
<1>14. CASE UNCHANGED vars
  <2>1. Sync(b, c)'
    BY <1>1, <1>14, SameSync
  <2>2. UNCHANGED <<stream, iComplete, failed, pc, delivered, mpMsg, base, iOffset, iPayloadOffset>>
    BY <1>14 DEF vars, cache, extraction
  <2>3. Out' = Out
    BY <2>2 DEF Out
  <2>4. BytesJoined(b, c)'
    BY <1>1, <2>2 DEF Whole, BytesJoined, Extracted, TmpMsg
  <2>5. Whole(b, c)'
    BY <1>1, <2>2, <2>3, <2>4, KeepsWhole
  <2> QED BY <1>3, <2>1, <2>5
<1> QED BY <1>4, <1>5, <1>6, <1>7, <1>8, <1>9, <1>10, <1>11, <1>12, <1>13, <1>14
        DEF Next, Scan, Extract

-----------------------------------------------------------------------------
(* Messages in order. *)

\* The messages out begin with those handed over.
LEMMA OutStarts ==
  ASSUME Typed
  PROVE  Len(delivered) <= Len(Out) /\ \A j \in 1 .. Len(delivered) : Out[j] = delivered[j]
<1> DEFINE q == IF pc = "deliver" THEN mpMsg ELSE <<>>
<1>1. q \in Seq(Msg)
  <2>1. \A m \in Msg : <<m>> \in Seq(Msg)
    OBVIOUS
  <2>2. mpMsg = <<>> \/ \E m \in Msg : mpMsg = <<m>>
    BY DEF Typed
  <2>3. mpMsg \in Seq(Msg)
    BY <2>1, <2>2, EmptySeq
  <2> QED BY <2>3, EmptySeq
<1>2. delivered \in Seq(Msg) /\ Out = delivered \o q
  BY DEF Typed, Out
<1> HIDE DEF q
<1>3. Len(q) \in Nat /\ Len(delivered) \in Nat /\ Len(Out) = Len(delivered) + Len(q)
  BY <1>1, <1>2, ConcatProperties
<1>4. ASSUME NEW j \in 1 .. Len(delivered) PROVE Out[j] = delivered[j]
  <2>1. j \in 1 .. Len(delivered) + Len(q) /\ j <= Len(delivered)
    BY <1>3
  <2> QED BY <1>1, <1>2, <2>1, ConcatProperties
<1> QED BY <1>3, <1>4

\* A message beyond those of the frames removed was handed over only after the
\* interruption of the next one, and a final frame of its own comes later.
LEMMA WholeImplies ==
  ASSUME WholeInv
  PROVE  DeliveredInOrder
<1>1. PICK b \in 0 .. Len(stream), c \in 0 .. Len(stream) : Sync(b, c) /\ Whole(b, c)
  BY DEF WholeInv
<1> DEFINE F == FinalFrames(stream)
           n == Len(FinalFramesUpTo(stream, b))
<1>2. SUFFICES ASSUME NEW j \in 1 .. Len(delivered),
                      \A k \in 1 .. Len(stream) :
                         (j > Len(F) \/ k <= F[j]) => ~Empty(stream, k) /\ ~Interrupts(stream, k)
               PROVE  j <= Len(F) /\ delivered[j] = Message(stream, j)
  BY DEF DeliveredInOrder
<1>3. stream \in Seq(Frame) /\ Len(stream) \in Nat /\ b \in Nat /\ b <= Len(stream)
      /\ Len(stream) \in 0 .. Len(stream) /\ F = FinalFramesUpTo(stream, Len(stream))
  BY <1>1, Known DEF Sync, FinalFrames
<1>4. F \in Seq(Nat) /\ n \in Nat /\ n <= Len(F)
  BY <1>3, FinalPlaces, FinalSteps
<1>5. /\ n <= Len(Out) /\ \A i \in 1 .. n : Out[i] = Message(stream, i)
      /\ 152 \notin failed => Len(Out) = n
  BY <1>1 DEF Whole, Handed
<1>6. Len(delivered) <= Len(Out) /\ Out[j] = delivered[j] /\ j \in Nat /\ Len(delivered) \in Nat
  <2>1. delivered \in Seq(Msg)
    BY <1>1 DEF Sync, Typed
  <2> QED BY <1>1, <2>1, OutStarts DEF Sync
<1> HIDE DEF F, n
<1>7. CASE j <= n
  <2>1. j \in 1 .. n /\ j <= Len(F)
    BY <1>4, <1>6, <1>7
  <2> QED BY <1>5, <1>6, <2>1
<1>8. CASE j > n
  <2>1. 152 \in failed
    BY <1>4, <1>5, <1>6, <1>8
  <2>2. PICK x \in b + 1 .. Len(stream) :
           Interrupts(stream, x) /\ \A k \in b + 1 .. x - 1 : ~stream[k].fin
    BY <1>1, <2>1 DEF Whole, Jammed
  <2>3. x \in Nat /\ x \in 1 .. Len(stream) /\ x - 1 \in b .. Len(stream) /\ x - 1 \in 0 .. Len(stream)
        /\ x - 1 <= Len(stream)
    BY <1>3
  <2>4. Len(FinalFramesUpTo(stream, x - 1)) = n
    BY <1>3, <2>2, <2>3, NoFinals DEF n
  <2>5. \A i \in n + 1 .. Len(F) : F[i] > x - 1
    BY <1>3, <2>3, <2>4, FinalPlaces
  <2>6. CASE j > Len(F)
    BY <1>2, <2>2, <2>3, <2>6
  <2>7. CASE j <= Len(F)
    <3>1. j \in n + 1 .. Len(F) /\ j \in 1 .. Len(F)
      BY <1>4, <1>6, <1>8, <2>7
    <3>2. F[j] > x - 1 /\ F[j] \in Nat
      BY <1>4, <2>5, <3>1
    <3>3. x <= F[j]
      BY <2>3, <3>2
    <3> QED BY <1>2, <2>2, <2>3, <3>3
  <2>8. j > Len(F) \/ j <= Len(F)
    BY <1>4, <1>6
  <2> QED BY <2>6, <2>7, <2>8
<1> QED BY <1>4, <1>6, <1>7, <1>8

\* The messages are whole in every state of every behaviour.
LEMMA AlwaysWhole ==
  ASSUME \A s \in Streams : Legal(s)
  PROVE  Spec => []WholeInv
<1>1. ASSUME WholeInv PROVE Legal(stream)
  BY <1>1 DEF WholeInv, Sync, Typed
<1>2. WholeInv /\ [Next]_vars => WholeInv'
  BY <1>1, WholeStep
<1> QED BY <1>2, InitWhole, PTL DEF Spec

\* For every legal stream and every way to cut it into reads, ParseMsg hands
\* over the messages of the stream whole, unmasked and in order, up to the
\* first frame the decoder has trouble with.
THEOREM MessagesInOrder ==
  ASSUME \A s \in Streams : Legal(s)
  PROVE  Spec => []DeliveredInOrder
<1>1. WholeInv => DeliveredInOrder
  BY WholeImplies
<1> QED BY <1>1, AlwaysWhole, PTL

-----------------------------------------------------------------------------
(* The decoder implements MsgStream. *)

\* The operators of the stream are those of the abstract specification.
LEMMA SameStream ==
  /\ InOrder!Frame = Frame
  /\ \A s, k : InOrder!EndOf(s, k) = EndOf(s, k)
  /\ \A s : InOrder!FinalFrames(s) = FinalFrames(s)
  /\ \A s, k : InOrder!Message(s, k) = Message(s, k)
  /\ \A s, k : InOrder!MessageEnd(s, k) = MessageEnd(s, k)
<1>1. InOrder!Frame = Frame
  BY Zenon DEF InOrder!Frame, Frame
<1>2. \A s, k : InOrder!EndOf(s, k) = EndOf(s, k)
  BY Zenon DEF InOrder!EndOf, EndOf, InOrder!SumOf, SumOf, InOrder!Size, Size,
     InOrder!PayloadOffset, PayloadOffset, InOrder!WS_MIN_MSG_EXPECT_LEN, WS_MIN_MSG_EXPECT_LEN
<1>3. \A s : InOrder!FinalFrames(s) = FinalFrames(s)
  BY Zenon DEF InOrder!FinalFrames, FinalFrames, InOrder!FinalFramesUpTo, FinalFramesUpTo
<1>4. \A s, k, p : InOrder!Payload(s, k, p) = Payload(s, k, p)
  BY Zenon DEF InOrder!Payload, Payload
<1>5. \A s, k : InOrder!Message(s, k) = Message(s, k)
  <2> TAKE s, k
  <2>1. \A q : InOrder!FlattenSeq(q) = FlattenSeq(q)
    BY Zenon DEF InOrder!FlattenSeq, FlattenSeq
  <2> DEFINE final == FinalFrames(s)
             first == IF k = 1 THEN 1 ELSE final[k - 1] + 1
             old == [i \in 1 .. final[k] - first + 1 |-> InOrder!Payload(s, first + i - 1, TRUE)]
             new == [i \in 1 .. final[k] - first + 1 |-> Payload(s, first + i - 1, TRUE)]
             type == s[first].op
  <2>2. old = new
    BY <1>4, Zenon
  <2>3. Message(s, k) = [type |-> type, bytes |-> FlattenSeq(new)]
    BY Zenon DEF Message
  <2> DEFINE Old(g) ==
                LET from == IF k = 1 THEN 1 ELSE g[k - 1] + 1
                IN [type  |-> s[from].op,
                    bytes |-> InOrder!FlattenSeq([i \in 1 .. g[k] - from + 1 |->
                                                     InOrder!Payload(s, from + i - 1, TRUE)])]
  <2>4. InOrder!Message(s, k) = Old(InOrder!FinalFrames(s))
    BY Zenon DEF InOrder!Message
  <2>5. InOrder!Message(s, k) = Old(FinalFrames(s))
    <3> HIDE DEF Old
    <3> QED BY <1>3, <2>4
  <2>6. InOrder!Message(s, k) = [type |-> type, bytes |-> InOrder!FlattenSeq(old)]
    BY <2>5, Zenon
  <2> HIDE DEF old, new, type
  <2> QED BY <2>1, <2>2, <2>3, <2>6
<1>6. \A s, k : InOrder!MessageEnd(s, k) = MessageEnd(s, k)
  BY <1>2, <1>3 DEF InOrder!MessageEnd, MessageEnd
<1> QED BY <1>1, <1>2, <1>3, <1>5, <1>6

\* Appending is joining a list of one.
LEMMA AppendIsOneMore ==
  ASSUME NEW S, NEW d \in Seq(S), NEW m \in S
  PROVE  d \o <<m>> = Append(d, m)
OBVIOUS

\* The message handed over is the next one of the stream, and it has arrived.
LEMMA DeliverNext ==
  ASSUME WholeInv, Smooth(stream), Deliver
  PROVE  LET next == Len(delivered) + 1
         IN /\ next <= Len(FinalFrames(stream)) /\ MessageEnd(stream, next) <= base + bufLen
            /\ delivered' = Append(delivered, Message(stream, next))
<1>1. PICK b \in 0 .. Len(stream), c \in 0 .. Len(stream) : Sync(b, c) /\ Whole(b, c)
  BY DEF WholeInv
<1> DEFINE A == FinalFrames(stream)
           F == FinalFramesUpTo(stream, b)
           n == Len(F)
<1>2. /\ stream \in Seq(Frame) /\ Len(stream) \in Nat /\ b \in Nat /\ b <= Len(stream)
      /\ base \in Nat /\ bufLen \in Nat /\ base = EndOf(stream, b)
      /\ Len(stream) \in 0 .. Len(stream) /\ A = FinalFramesUpTo(stream, Len(stream))
  BY <1>1, Known DEF Sync, FinalFrames
<1>3. pc = "deliver" /\ delivered' = delivered \o mpMsg
  BY DEF Deliver
<1>4. PICK m \in Msg : mpMsg = <<m>>
  BY <1>1, <1>3 DEF Sync, Typed, InHand
<1>5. 152 \notin failed
  <2> SUFFICES ASSUME 152 \in failed PROVE FALSE
    OBVIOUS
  <2>1. PICK x \in b + 1 .. Len(stream) : Interrupts(stream, x)
    BY <1>1 DEF Whole, Jammed
  <2>2. x \in 1 .. Len(stream)
    BY <1>2
  <2> QED BY <2>1, <2>2 DEF Smooth
<1>6. Len(Out) = n /\ \A j \in 1 .. n : Out[j] = Message(stream, j)
  BY <1>1, <1>5 DEF Whole, Handed
<1>7. F \in Seq(Nat) /\ A \in Seq(Nat) /\ n \in Nat /\ n <= Len(A) /\ \A i \in 1 .. n : A[i] = F[i]
  <2> DEFINE last == FinalFramesUpTo(stream, Len(stream))
  <2>1. /\ last \in Seq(Nat) /\ Len(F) <= Len(last)
        /\ \A i \in 1 .. Len(F) : last[i] = F[i]
    BY <1>2, FinalPlaces
  <2>2. A = last
    BY <1>2
  <2>3. F \in Seq(Nat)
    BY <1>2, FinalSteps
  <2> HIDE DEF A, F, last
  <2> QED BY <2>1, <2>2, <2>3
<1>8. delivered \in Seq(Msg) /\ Len(delivered) \in Nat
  BY <1>1 DEF Sync, Typed
<1> HIDE DEF A, F, n
<1>9. /\ n = Len(delivered) + 1 /\ Out[n] = m /\ Out = delivered \o <<m>>
  <2>1. Out = delivered \o <<m>>
    BY <1>3, <1>4 DEF Out
  <2>2. Len(delivered \o <<m>>) = Len(delivered) + 1 /\ (delivered \o <<m>>)[Len(delivered) + 1] = m
    BY <1>8, OneMore
  <2>3. n = Len(delivered) + 1
    BY <1>6, <2>1, <2>2
  <2> QED BY <2>1, <2>2, <2>3
<1>10. n \in 1 .. n /\ Message(stream, n) = m
  <2>1. n \in 1 .. n
    BY <1>7, <1>8, <1>9
  <2> QED BY <1>6, <1>9, <2>1
<1>11. A[n] = b
  <2>1. b # 0
    <3>1. SUFFICES ASSUME b = 0 PROVE FALSE
      OBVIOUS
    <3>2. F = <<>>
      BY <1>2, <3>1, FinalSteps DEF F
    <3>3. n = 0
      BY <3>2 DEF n
    <3> QED BY <1>10, <3>3
  <2>2. stream[b].fin /\ b \in 1 .. Len(stream) /\ b - 1 \in 0 .. Len(stream)
    BY <1>1, <1>2, <2>1 DEF Whole, AtMessage
  <2> DEFINE E == FinalFramesUpTo(stream, b - 1)
  <2>3. F = Append(E, b) /\ E \in Seq(Nat)
    BY <1>2, <2>2, FinalSteps DEF F
  <2> HIDE DEF E
  <2>4. n = Len(E) + 1 /\ F[Len(E) + 1] = b
    BY <1>2, <2>3, AppendProperties DEF n
  <2> QED BY <1>7, <1>10, <2>4
<1>12. MessageEnd(stream, n) <= base + bufLen
  <2>1. MessageEnd(stream, n) = base
    BY <1>2, <1>11 DEF MessageEnd, A
  <2> QED BY <1>2, <2>1
<1>13. delivered' = Append(delivered, Message(stream, n))
  <2>1. delivered \o <<m>> = Append(delivered, m)
    BY <1>8, AppendIsOneMore
  <2> QED BY <1>3, <1>4, <1>10, <2>1
<1> QED BY <1>7, <1>9, <1>12, <1>13 DEF A

\* Only a read changes how much of the stream has arrived.
LEMMA ArrivedSame ==
  ASSUME SyncInv, Scan \/ Extract \/ Deliver
  PROVE  base' + bufLen' = base + bufLen
<1>1. PICK b \in 0 .. Len(stream), c \in 0 .. Len(stream) : Sync(b, c)
  BY DEF SyncInv
<1>2. base \in Nat /\ bufLen \in Nat /\ iCurFrameIndex \in Nat /\ iCurFrameIndex <= bufLen
  BY <1>1, Known DEF Sync
<1>3. CASE Finish
  <2>1. base' = base + iCurFrameIndex /\ bufLen' = bufLen - iCurFrameIndex
    BY <1>1, <1>3, FinishSync
  <2> QED BY <1>2, <2>1
<1>4. ASSUME ~Finish PROVE base' = base /\ bufLen' = bufLen
  BY <1>4 DEF Scan, Extract, CheckLen, ScanDone, ScanEmpty, ScanIncomplete, ScanFrame,
         ScanHeader, ExtractGiveUp, ExtractFrame, Deliver
<1> QED BY <1>3, <1>4

\* A read is a read, a delivery of a smooth stream is a delivery, and every
\* other step changes nothing that MsgStream sees.
LEMMA RefinesStep ==
  ASSUME WholeInv, [Next]_vars
  PROVE  [InOrder!Next]_InOrder!vars
<1> DEFINE A == IF Smooth(stream) THEN base + bufLen ELSE 0
           D == IF Smooth(stream) THEN delivered ELSE <<>>
<1>0. SyncInv
  BY DEF WholeInv, SyncInv
<1>1. stream' = stream
  BY DEF Next, Scan, Extract, Arrive, CheckLen, ScanDone, ScanEmpty, ScanIncomplete, ScanFrame,
         ScanHeader, ExtractGiveUp, ExtractFrame, Finish, Deliver, vars
<1>2. Smooth(stream)' <=> Smooth(stream)
  BY <1>1 DEF Smooth, Empty, Interrupts, Inside
<1>3. CASE ~Smooth(stream)
  BY <1>1, <1>2, <1>3 DEF InOrder!vars
<1>4. CASE Smooth(stream)
  <2>1. ASSUME NEW n \in 1 .. StreamLen, Arrive(n) PROVE InOrder!Arrive
    <3>1. /\ base + bufLen + n <= StreamLen /\ bufLen' = bufLen + n
          /\ UNCHANGED <<stream, base, delivered>>
      BY <2>1 DEF Arrive
    <3>2. base \in Nat /\ bufLen \in Nat /\ StreamLen \in Nat
      BY <1>0, Known DEF SyncInv, Sync
    <3>3. n \in Nat /\ n >= 1
      BY <3>2
    <3>4. base' + bufLen' \in base + bufLen + 1 .. StreamLen
      BY <3>1, <3>2, <3>3
    <3>5. InOrder!EndOf(stream, Len(stream)) = StreamLen
      BY SameStream DEF StreamLen
    <3>6. A = base + bufLen /\ A' = base' + bufLen' /\ D = delivered /\ D' = delivered'
      BY <1>2, <1>4
    <3> QED BY <1>2, <1>4, <3>1, <3>4, <3>5 DEF InOrder!Arrive
  <2>2. CASE Deliver
    <3>1. base' + bufLen' = base + bufLen
      BY <1>0, <2>2, ArrivedSame
    <3>2. LET next == Len(delivered) + 1
          IN /\ next <= Len(FinalFrames(stream)) /\ MessageEnd(stream, next) <= base + bufLen
             /\ delivered' = Append(delivered, Message(stream, next))
      BY <1>4, <2>2, DeliverNext
    <3>3. InOrder!Deliver
      BY <1>1, <1>2, <1>4, <3>1, <3>2, SameStream DEF InOrder!Deliver
    <3> QED BY <3>3 DEF InOrder!Next
  <2>3. CASE Scan \/ Extract
    <3>1. base' + bufLen' = base + bufLen
      BY <1>0, <2>3, ArrivedSame
    <3>2. delivered' = delivered
      BY <2>3 DEF Scan, Extract, CheckLen, ScanDone, ScanEmpty, ScanIncomplete, ScanFrame,
             ScanHeader, ExtractGiveUp, ExtractFrame, Finish
    <3> QED BY <1>1, <1>2, <3>1, <3>2 DEF InOrder!vars
  <2>4. CASE UNCHANGED vars
    <3>1. UNCHANGED <<stream, base, bufLen, delivered>>
      BY <2>4 DEF vars
    <3> QED BY <1>2, <3>1 DEF InOrder!vars
  <2> QED BY <2>1, <2>2, <2>3, <2>4 DEF Next, InOrder!Next
<1> QED BY <1>3, <1>4

\* The initial states are initial states of MsgStream.
LEMMA RefinesInit == Init => InOrder!Init
<1> SUFFICES ASSUME Init PROVE InOrder!Init
  OBVIOUS
<1>1. stream \in Seq(Frame) /\ base = 0 /\ bufLen = 0 /\ delivered = <<>>
  BY StreamsAssumption DEF Init
<1>2. base + bufLen = 0
  BY <1>1
<1> QED BY <1>1, <1>2, SameStream DEF InOrder!Init

\* The decoder implements MsgStream: on a legal stream without empty payloads
\* and interruptions the messages are handed over whole, in order, each once,
\* and none before its last byte arrived.
THEOREM DecoderImplementsMsgStream ==
  ASSUME \A s \in Streams : Legal(s)
  PROVE  Spec => ImplementsMsgStream
<1>1. WholeInv /\ [Next]_vars => [InOrder!Next]_InOrder!vars
  BY RefinesStep
<1> QED BY <1>1, RefinesInit, AlwaysWhole, PTL DEF Spec, ImplementsMsgStream, InOrder!Spec
=============================================================================
