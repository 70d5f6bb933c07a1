--------------------------- MODULE PfSend_proofs ---------------------------
(***************************************************************************)
(* For any packets and buffer sizes: what the peer gets is what was        *)
(* accepted, in order, and a waiting close loses nothing of it.  The       *)
(* argument is by positions: the k-th byte on the wire, in the write under *)
(* way and in oBuffer is a byte of `accepted', each at its own distance.   *)
(***************************************************************************)
EXTENDS PfSend, SequenceTheorems, TLAPS

Popped == Len(wire) - completed

\* The wire is the beginning of what was accepted; what it completed counts.
Wired == /\ completed <= Len(wire) /\ Len(wire) <= Len(accepted)
         /\ \A i \in 1 .. Len(wire) : wire[i] = accepted[i]

\* oBuffer is what was accepted and not popped.
Kept == status # "Disposable" =>
           /\ Len(accepted) = Popped + Len(oBuffer)
           /\ \A i \in 1 .. Len(oBuffer) : oBuffer[i] = accepted[Popped + i]

\* A write under way carries what follows on the wire, also after a close.
UnderWay == posted # <<>> =>
           /\ completed = 0
           /\ Len(wire) + Len(posted) <= Len(accepted)
           /\ \A i \in 1 .. Len(posted) : posted[i] = accepted[Len(wire) + i]

\* While the connection is open, bWriteInProgress covers a write until it is
\* handled.
Busy == status # "Disposable" /\ (posted # <<>> \/ completed > 0) => writing

\* A waiting close is remembered, and ends when all is sent.
Waits == /\ status = "WaitingForWrite" => waited
         /\ status = "Disposable" /\ waited => Len(wire) = Len(accepted)

\* Without a failure no packet to be pushed has been accepted.
Fresh == ~failed => \A i \in DOMAIN accepted : accepted[i][1] \notin todo

Once == ~failed => \A i, j \in DOMAIN accepted : accepted[i] = accepted[j] => i = j

Writes == handled + (IF posted # <<>> THEN 1 ELSE 0) + (IF completed > 0 THEN 1 ELSE 0)

\* The counter counts them; a failed write stays counted for good.
Counted == io >= Writes /\ (~failed => io = Writes)

IInv == /\ TypeOK /\ Wired /\ Kept /\ UnderWay /\ Busy /\ Waits
        /\ Fresh /\ Once /\ Counted

----------------------------------------------------------------------------
\* The first n elements of a sequence.
LEMMA Firsts ==
  ASSUME NEW S, NEW s \in Seq(S), NEW n \in 0 .. Len(s)
  PROVE  /\ Prefix(s, n) \in Seq(S) /\ Len(Prefix(s, n)) = n
         /\ \A i \in 1 .. n : Prefix(s, n)[i] = s[i]
<1>1. \A i \in 1 .. n : s[i] \in S
  BY ElementOfSeq
<1>2. n \in Int /\ 1 \in Int /\ (IF 1 <= n THEN n - 1 + 1 ELSE 0) = n /\ n - 1 + 1 = n
  OBVIOUS
<1>3. \A i \in 1 .. n : s[1 + i - 1] = s[i]
  OBVIOUS
<1>4. /\ SubSeq(s, 1, n) \in Seq(S)
      /\ Len(SubSeq(s, 1, n)) = IF 1 <= n THEN n - 1 + 1 ELSE 0
      /\ \A i \in 1 .. n - 1 + 1 : SubSeq(s, 1, n)[i] = s[1 + i - 1]
  BY <1>1, <1>2, SubSeqProperties
<1>5. QED
  BY <1>2, <1>3, <1>4 DEF Prefix

\* The elements after the first n.
LEMMA Lasts ==
  ASSUME NEW S, NEW s \in Seq(S), NEW n \in 0 .. Len(s)
  PROVE  /\ Rest(s, n) \in Seq(S) /\ Len(Rest(s, n)) = Len(s) - n
         /\ \A i \in 1 .. Len(s) - n : Rest(s, n)[i] = s[n + i]
<1>1. \A i \in n + 1 .. Len(s) : s[i] \in S
  BY ElementOfSeq
<1>2. /\ n + 1 \in Int /\ Len(s) \in Int
      /\ (IF n + 1 <= Len(s) THEN Len(s) - (n + 1) + 1 ELSE 0) = Len(s) - n
      /\ Len(s) - (n + 1) + 1 = Len(s) - n
  OBVIOUS
<1>3. \A i \in 1 .. Len(s) - n : s[n + 1 + i - 1] = s[n + i]
  OBVIOUS
<1>4. /\ SubSeq(s, n + 1, Len(s)) \in Seq(S)
      /\ Len(SubSeq(s, n + 1, Len(s))) =
            IF n + 1 <= Len(s) THEN Len(s) - (n + 1) + 1 ELSE 0
      /\ \A i \in 1 .. Len(s) - (n + 1) + 1 :
            SubSeq(s, n + 1, Len(s))[i] = s[n + 1 + i - 1]
  <2> DEFINE m == n + 1
             l == Len(s)
  <2>1. m \in Int /\ l \in Int /\ \A i \in m .. l : s[i] \in S
    BY <1>1, <1>2
  <2> HIDE DEF m, l
  <2>2. /\ SubSeq(s, m, l) \in Seq(S)
        /\ Len(SubSeq(s, m, l)) = IF m <= l THEN l - m + 1 ELSE 0
        /\ \A i \in 1 .. l - m + 1 : SubSeq(s, m, l)[i] = s[m + i - 1]
    BY <2>1, SubSeqProperties
  <2>3. QED
    BY <2>2 DEF m, l
<1>5. QED
  BY <1>2, <1>3, <1>4 DEF Rest

\* A sequence is empty when its length is 0, and only then.
LEMMA EmptyLen ==
  ASSUME NEW S, NEW s \in Seq(S)
  PROVE  Len(s) \in Nat /\ (s = <<>> <=> Len(s) = 0)
  BY EmptySeq

\* A serialized packet is made of its own bytes, each once.
LEMMA PacketBytes ==
  ASSUME NEW p \in Packets
  PROVE  /\ Serialized(p) \in Seq(Byte) /\ Len(Serialized(p)) = SizeOf[p]
         /\ SizeOf[p] \in Nat \ {0}
         /\ \A i \in 1 .. SizeOf[p] : Serialized(p)[i] = <<p, i>>
<1>1. SizeOf[p] \in Nat \ {0}
  BY SendAssumption
<1>2. \A i \in 1 .. SizeOf[p] : <<p, i>> \in Byte
  BY <1>1 DEF Byte
<1>3. Serialized(p) \in [1 .. SizeOf[p] -> Byte]
  BY <1>2 DEF Serialized
<1>4. Serialized(p) \in Seq(Byte)
  BY <1>1, <1>3
<1>5. Len(Serialized(p)) = SizeOf[p]
  BY <1>1 DEF Serialized
<1>6. QED
  BY <1>1, <1>4, <1>5 DEF Serialized

\* WriteBytes posts a first part of what it is given, or changes `failed' only.
LEMMA WriteTakes ==
  ASSUME NEW s \in Seq(Byte), s # <<>>, NEW success \in BOOLEAN, WriteBytes(s, success)
  PROVE  \/ /\ success /\ posted' \in Seq(Byte) /\ posted' # <<>>
            /\ Len(posted') <= SendBufferSize /\ Len(posted') <= Len(s)
            /\ \A i \in 1 .. Len(posted') : posted'[i] = s[i]
            /\ writing' = TRUE /\ io' = io + 1 /\ failed' = failed
         \/ /\ ~success /\ failed' = TRUE
            /\ posted' = posted /\ writing' = writing /\ io' = io
<1>1. CASE ~success
  BY <1>1 DEF WriteBytes
<1>2. CASE success
  <2> DEFINE n == IF Len(s) < SendBufferSize THEN Len(s) ELSE SendBufferSize
  <2>1. Len(s) \in Nat /\ Len(s) # 0
    BY EmptyLen
  <2>2. n \in 0 .. Len(s) /\ n # 0 /\ n <= SendBufferSize
    BY <2>1, SendAssumption
  <2>3. posted' = Prefix(s, n) /\ writing' = TRUE /\ io' = io + 1 /\ failed' = failed
    BY <1>2 DEF WriteBytes
  <2> HIDE DEF n
  <2>4. posted' \in Seq(Byte) /\ Len(posted') = n /\ \A i \in 1 .. n : posted'[i] = s[i]
    BY <2>2, <2>3, Firsts
  <2>5. posted' # <<>>
    BY <2>2, <2>4, EmptyLen
  <2>6. QED
    BY <1>2, <2>2, <2>3, <2>4, <2>5
<1>3. QED
  BY <1>1, <1>2

----------------------------------------------------------------------------
LEMMA Initially == Init => IInv
<1> SUFFICES ASSUME Init PROVE IInv
  OBVIOUS
<1>1. <<>> \in Seq(Byte) /\ Len(<<>>) = 0
  BY EmptySeq
<1>2. TypeOK
  <2>1. /\ status \in {"Connected", "WaitingForWrite", "Disposable"}
        /\ io \in Nat /\ handled \in Nat /\ todo \subseteq Packets
        /\ writing \in BOOLEAN /\ failed \in BOOLEAN /\ waited \in BOOLEAN
    BY DEF Init
  <2>2. /\ oBuffer \in Seq(Byte) /\ posted \in Seq(Byte)
        /\ accepted \in Seq(Byte) /\ wire \in Seq(Byte)
        /\ Len(oBuffer) = 0 /\ Len(posted) = 0
    BY <1>1 DEF Init
  <2>3. 0 <= BufferSize /\ 0 <= SendBufferSize /\ completed \in 0 .. SendBufferSize
    BY SendAssumption DEF Init
  <2>4. QED
    BY <2>1, <2>2, <2>3 DEF TypeOK
<1>3. QED
  BY <1>1, <1>2, SendAssumption DEF Init, IInv, Wired, Kept, UnderWay, Busy, Waits, Fresh, Once,
       Counted, Writes, Popped

\* The types of the lengths, used by every step.
LEMMA Lengths ==
  ASSUME TypeOK
  PROVE  /\ Len(oBuffer) \in Nat /\ Len(posted) \in Nat
         /\ Len(accepted) \in Nat /\ Len(wire) \in Nat
         /\ completed \in Nat /\ io \in Nat /\ handled \in Nat
         /\ posted = <<>> <=> Len(posted) = 0
         /\ oBuffer = <<>> <=> Len(oBuffer) = 0
         /\ DOMAIN accepted = 1 .. Len(accepted)
<1>1. /\ oBuffer \in Seq(Byte) /\ posted \in Seq(Byte)
      /\ accepted \in Seq(Byte) /\ wire \in Seq(Byte)
  BY DEF TypeOK
<1>2. QED
  BY <1>1, EmptyLen, LenProperties, SendAssumption DEF TypeOK

\* A refused packet leaves the buffers alone.
LEMMA RefusedStep ==
  ASSUME IInv, NEW p \in Packets, PushRefused(p)
  PROVE  IInv'
<1>1. UNCHANGED <<status, buffers, completed, handled, history>> /\ todo' \subseteq todo
  BY DEF PushRefused, Answered
<1>2. TypeOK'
  BY <1>1 DEF IInv, TypeOK, buffers, history
<1>3. Fresh'
  BY <1>1 DEF IInv, Fresh, history
<1>4. QED
  BY <1>1, <1>2, <1>3 DEF IInv, Wired, Kept, UnderWay, Busy, Waits, Once, Counted, Writes, Popped,
       buffers, history

\* A packet that fits goes to the end of oBuffer; if nothing is under way,
\* the write takes the beginning of oBuffer.
LEMMA PushStep ==
  ASSUME IInv, NEW p \in Packets, NEW success \in BOOLEAN, PushPacket(p, success)
  PROVE  IInv'
<1> USE DEF IInv
<1> DEFINE b == Serialized(p)
           n == SizeOf[p]
<1>1. /\ b \in Seq(Byte) /\ Len(b) = n /\ n \in Nat \ {0}
      /\ \A i \in 1 .. n : b[i] = <<p, i>>
  BY PacketBytes
<1>2. /\ oBuffer' = oBuffer \o b /\ accepted' = accepted \o b
      /\ status = "Connected" /\ BufferSize - Len(oBuffer) >= n /\ Offered(p)
      /\ UNCHANGED <<status, completed, handled, wire, waited>>
  BY DEF PushPacket
<1> HIDE DEF b, n
<1>3. /\ oBuffer \in Seq(Byte) /\ accepted \in Seq(Byte) /\ posted \in Seq(Byte)
      /\ wire \in Seq(Byte)
  BY DEF TypeOK
<1>4. /\ oBuffer' \in Seq(Byte) /\ Len(oBuffer') = Len(oBuffer) + n
      /\ \A i \in 1 .. Len(oBuffer) + n :
            oBuffer'[i] = IF i <= Len(oBuffer) THEN oBuffer[i] ELSE b[i - Len(oBuffer)]
  BY <1>1, <1>2, <1>3, ConcatProperties
<1>5. /\ accepted' \in Seq(Byte) /\ Len(accepted') = Len(accepted) + n
      /\ \A i \in 1 .. Len(accepted) + n :
            accepted'[i] = IF i <= Len(accepted) THEN accepted[i] ELSE b[i - Len(accepted)]
  BY <1>1, <1>2, <1>3, ConcatProperties
<1>6. DOMAIN accepted' = 1 .. Len(accepted) + n /\ DOMAIN accepted = 1 .. Len(accepted)
  BY <1>3, <1>5, LenProperties
<1>16. ASSUME posted' \in Seq(Byte), Len(posted') <= SendBufferSize, io' \in Nat,
              writing' \in BOOLEAN, failed' \in BOOLEAN, todo' \subseteq todo
       PROVE  TypeOK'
  <2>1. Len(oBuffer') <= BufferSize
    BY <1>1, <1>2, <1>4, Lengths, SendAssumption
  <2>2. /\ oBuffer' \in Seq(Byte) /\ accepted' \in Seq(Byte) /\ wire' \in Seq(Byte)
        /\ status' \in {"Connected", "WaitingForWrite", "Disposable"}
    BY <1>2, <1>3, <1>4, <1>5
  <2>3. /\ completed' \in 0 .. SendBufferSize /\ handled' \in Nat /\ waited' \in BOOLEAN
        /\ todo' \subseteq Packets
    BY <1>2, <1>16 DEF TypeOK
  <2>4. QED
    BY <1>16, <2>1, <2>2, <2>3 DEF TypeOK
<1> DEFINE l == Len(accepted)
<1>13. l \in Nat /\ \A i \in 1 .. l + n :
            /\ i <= l => i \in 1 .. l /\ accepted'[i] = accepted[i]
            /\ ~ (i <= l) => accepted'[i] = <<p, i - l>>
  <2>1. l \in Nat
    BY Lengths
  <2>2. ASSUME NEW i \in 1 .. l + n, i <= l
        PROVE  i \in 1 .. l /\ accepted'[i] = accepted[i]
    BY <2>1, <2>2, <1>1, <1>5
  <2>3. ASSUME NEW i \in 1 .. l + n, ~ (i <= l)
        PROVE  accepted'[i] = <<p, i - l>>
    <3>1. i - l \in 1 .. n
      BY <2>1, <2>3, <1>1
    <3>2. accepted'[i] = b[i - l]
      BY <2>1, <2>3, <1>5
    <3>3. QED
      BY <3>1, <3>2, <1>1
  <2>4. QED
    BY <2>1, <2>2, <2>3
<1> HIDE DEF l
<1>14. ASSUME failed' = failed, todo' = todo \ {p}
       PROVE  Fresh'
  <2>1. SUFFICES ASSUME ~failed, NEW i \in 1 .. l + n PROVE accepted'[i][1] \notin todo'
    BY <1>6, <1>14 DEF Fresh, l
  <2>2. CASE i <= l
    BY <2>1, <2>2, <1>6, <1>13, <1>14 DEF Fresh, l
  <2>3. CASE ~ (i <= l)
    BY <2>3, <1>13, <1>14
  <2>4. QED
    BY <2>2, <2>3
<1>15. ASSUME failed' = failed
       PROVE  Once'
  <2>1. SUFFICES ASSUME ~failed, NEW i \in 1 .. l + n, NEW j \in 1 .. l + n,
                        accepted'[i] = accepted'[j]
                 PROVE  i = j
    BY <1>6, <1>15 DEF Once, l
  <2>2. p \in todo /\ \A k \in 1 .. l : accepted[k][1] # p
    BY <2>1, <1>2, <1>6 DEF Fresh, Offered, l
  <2>3. CASE i <= l /\ j <= l
    BY <2>1, <2>3, <1>6, <1>13 DEF Once, l
  <2>4. CASE i <= l /\ ~ (j <= l)
    BY <2>1, <2>2, <2>4, <1>13
  <2>5. CASE ~ (i <= l) /\ j <= l
    BY <2>1, <2>2, <2>5, <1>13
  <2>6. CASE ~ (i <= l) /\ ~ (j <= l)
    <3>1. <<p, i - l>> = <<p, j - l>>
      BY <2>1, <2>6, <1>13
    <3>2. i - l = j - l
      BY <3>1
    <3>3. QED
      BY <3>2, <1>1, <1>13
  <2>7. QED
    BY <2>3, <2>4, <2>5, <2>6
<1>7. Wired'
  BY <1>1, <1>2, <1>5, Lengths DEF Wired
<1>8. Kept'
  <2>1. /\ Len(accepted) = Popped + Len(oBuffer) /\ Popped \in Nat /\ Popped' = Popped
        /\ \A i \in 1 .. Len(oBuffer) : oBuffer[i] = accepted[Popped + i]
    BY <1>2, Lengths DEF Kept, Popped, Wired
  <2>2. Len(accepted') = Popped + Len(oBuffer')
    BY <2>1, <1>1, <1>4, <1>5, Lengths
  <2>3. ASSUME NEW i \in 1 .. Len(oBuffer')
        PROVE  oBuffer'[i] = accepted'[Popped + i]
    <3>1. i \in 1 .. Len(oBuffer) + n /\ Popped + i \in 1 .. Len(accepted) + n
      BY <2>1, <1>1, <1>4, Lengths
    <3>2. CASE i <= Len(oBuffer)
      <4>1. i \in 1 .. Len(oBuffer) /\ Popped + i <= Len(accepted)
        BY <2>1, <3>1, <3>2, Lengths
      <4>2. oBuffer'[i] = oBuffer[i] /\ accepted'[Popped + i] = accepted[Popped + i]
        BY <3>1, <4>1, <1>4, <1>5
      <4>3. QED
        BY <2>1, <4>1, <4>2
    <3>3. CASE ~ (i <= Len(oBuffer))
      <4>1. ~ (Popped + i <= Len(accepted)) /\ Popped + i - Len(accepted) = i - Len(oBuffer)
        BY <2>1, <3>1, <3>3, Lengths
      <4>2. QED
        <5>1. oBuffer'[i] = b[i - Len(oBuffer)]
          BY <3>1, <3>3, <1>4
        <5>2. accepted'[Popped + i] = b[Popped + i - Len(accepted)]
          <6>1. PICK k \in 1 .. Len(accepted) + n : k = Popped + i
            BY <3>1
          <6>2. accepted'[k] = b[k - Len(accepted)]
            BY <4>1, <6>1, <1>5
          <6>3. QED
            BY <6>1, <6>2, <2>1, <3>1, <1>1, Lengths
        <5>3. QED
          BY <4>1, <5>1, <5>2
    <3>4. QED
      BY <3>2, <3>3
  <2>4. QED
    BY <2>1, <2>2, <2>3 DEF Kept
<1>9. Waits'
  BY <1>2 DEF Waits
<1>10. CASE ~MayWrite
  <2>1. /\ UNCHANGED <<posted, writing, io, failed>> /\ todo' = todo \ {p}
    BY <1>10 DEF PushPacket, Answered
  <2>2. TypeOK'
    <3>1. /\ posted' \in Seq(Byte) /\ Len(posted') <= SendBufferSize /\ io' \in Nat
          /\ writing' \in BOOLEAN /\ failed' \in BOOLEAN /\ todo' \subseteq todo
      BY <2>1 DEF TypeOK
    <3>2. QED
      BY <3>1, <1>16
  <2>3. UnderWay'
    BY <2>1, <1>1, <1>2, <1>5, Lengths DEF UnderWay
  <2>4. Busy'
    BY <2>1, <1>2 DEF Busy
  <2>5. Counted'
    BY <2>1, <1>2 DEF Counted, Writes
  <2>6. Fresh'
    BY <2>1, <1>14
  <2>7. Once'
    BY <2>1, <1>15
  <2>8. QED
    BY <2>2, <2>3, <2>4, <2>5, <2>6, <2>7, <1>7, <1>8, <1>9
<1>11. CASE MayWrite
  <2>1. posted = <<>> /\ completed = 0
    BY <1>2, <1>11, Lengths DEF MayWrite, Busy
  <2>2. WriteBytes(oBuffer', success) /\ Answered(p, success)
    BY <1>11 DEF PushPacket
  <2>3. oBuffer' # <<>>
    BY <1>1, <1>4, Lengths, EmptyLen
  <2>4. Len(accepted) = Len(wire) + Len(oBuffer)
    BY <2>1, <1>2, Lengths DEF Kept, Popped
  <2>5. CASE success
    <3>1. /\ posted' \in Seq(Byte) /\ posted' # <<>>
          /\ Len(posted') <= SendBufferSize /\ Len(posted') <= Len(oBuffer')
          /\ \A i \in 1 .. Len(posted') : posted'[i] = oBuffer'[i]
          /\ writing' = TRUE /\ io' = io + 1 /\ failed' = failed
      BY <2>2, <2>3, <2>5, <1>4, WriteTakes
    <3>2. todo' = todo \ {p}
      BY <2>2, <2>5 DEF Answered
    <3>10. /\ io' \in Nat /\ writing' \in BOOLEAN /\ failed' \in BOOLEAN
           /\ todo' \subseteq todo
      BY <3>1, <3>2 DEF TypeOK
    <3>3. TypeOK'
      BY <3>1, <3>10, <1>16
    <3>4. UnderWay'
      <4>1. /\ Popped' = Len(wire) /\ wire' = wire /\ completed' = 0
            /\ Len(posted') \in Nat /\ Len(oBuffer') \in Nat
        BY <1>2, <1>4, <2>1, <3>1, Lengths, EmptyLen DEF Popped
      <4>2. /\ Len(accepted') = Len(wire) + Len(oBuffer')
            /\ \A i \in 1 .. Len(oBuffer') : oBuffer'[i] = accepted'[Len(wire) + i]
        BY <1>2, <1>8, <4>1 DEF Kept
      <4>3. QED
        BY <3>1, <4>1, <4>2, Lengths DEF UnderWay
    <3>5. Busy'
      BY <3>1 DEF Busy
    <3>6. Counted'
      BY <3>1, <2>1, <1>2, Lengths DEF Counted, Writes
    <3>7. Fresh'
      BY <3>1, <3>2, <1>14
    <3>8. Once'
      BY <3>1, <1>15
    <3>9. QED
      BY <3>3, <3>4, <3>5, <3>6, <3>7, <3>8, <1>7, <1>8, <1>9
  <2>6. CASE ~success
    <3>1. failed' = TRUE /\ posted' = posted /\ writing' = writing /\ io' = io
      BY <2>2, <2>3, <2>6, <1>4, WriteTakes
    <3>2. todo' \subseteq todo
      BY <2>2 DEF Answered
    <3>6. /\ posted' \in Seq(Byte) /\ Len(posted') <= SendBufferSize /\ io' \in Nat
          /\ writing' \in BOOLEAN /\ failed' \in BOOLEAN
      BY <3>1 DEF TypeOK
    <3>3. TypeOK'
      BY <3>2, <3>6, <1>16
    <3>4. UnderWay' /\ Busy' /\ Counted' /\ Fresh' /\ Once'
      BY <3>1, <2>1, <1>2 DEF UnderWay, Busy, Counted, Writes, Fresh, Once
    <3>5. QED
      BY <3>3, <3>4, <1>7, <1>8, <1>9
  <2>7. QED
    BY <2>5, <2>6
<1>12. QED
  BY <1>10, <1>11

\* A close leaves the buffers alone; one that waits for nothing has sent all.
LEMMA CloseStep ==
  ASSUME IInv, NEW wait \in BOOLEAN, Close(wait)
  PROVE  IInv'
<1> USE DEF IInv
<1>1. /\ status = "Connected" /\ waited' = wait
      /\ status' = IF wait /\ oBuffer # <<>> THEN "WaitingForWrite" ELSE "Disposable"
      /\ UNCHANGED <<buffers, completed, handled, todo, accepted, wire, failed>>
  BY DEF Close
<1>2. TypeOK'
  BY <1>1 DEF TypeOK, buffers
<1>3. Waits'
  BY <1>1, Lengths DEF Waits, Kept, Popped, Wired
<1>4. QED
  BY <1>1, <1>2, <1>3 DEF Wired, Kept, UnderWay, Busy, Fresh, Once, Counted, Writes, Popped, buffers

\* The network takes the first bytes of the write.
LEMMA SentStep ==
  ASSUME IInv, NEW n \in 1 .. SendBufferSize, Sent(n)
  PROVE  IInv'
<1> USE DEF IInv
<1>1. /\ posted # <<>> /\ n \in 1 .. Len(posted)
      /\ wire' = wire \o Prefix(posted, n) /\ completed' = n /\ posted' = <<>>
      /\ UNCHANGED <<status, oBuffer, writing, io, handled, todo, accepted, failed, waited>>
  BY DEF Sent
<1> DEFINE part == Prefix(posted, n)
<1>2. posted \in Seq(Byte) /\ wire \in Seq(Byte) /\ n \in 0 .. Len(posted)
  BY <1>1, Lengths DEF TypeOK
<1>3. part \in Seq(Byte) /\ Len(part) = n /\ \A i \in 1 .. n : part[i] = posted[i]
  BY <1>2, Firsts
<1>14. wire' = wire \o part
  BY <1>1
<1> HIDE DEF part
<1>4. /\ wire' \in Seq(Byte) /\ Len(wire') = Len(wire) + n
      /\ \A i \in 1 .. Len(wire) + n :
            wire'[i] = IF i <= Len(wire) THEN wire[i] ELSE part[i - Len(wire)]
  <2>1. /\ wire \o part \in Seq(Byte) /\ Len(wire \o part) = Len(wire) + Len(part)
        /\ \A i \in 1 .. Len(wire) + Len(part) :
              (wire \o part)[i] = IF i <= Len(wire) THEN wire[i] ELSE part[i - Len(wire)]
    BY <1>2, <1>3, ConcatProperties
  <2>2. Len(part) = n
    BY <1>3
  <2>3. QED
    BY <1>14, <2>1, <2>2
<1>5. /\ completed = 0 /\ Len(wire) + Len(posted) <= Len(accepted)
      /\ \A i \in 1 .. Len(posted) : posted[i] = accepted[Len(wire) + i]
  BY <1>1 DEF UnderWay
<1>6. TypeOK'
  BY <1>1, <1>4, SendAssumption, EmptySeq DEF TypeOK
<1>7. Wired'
  <2>1. n <= Len(wire') /\ Len(wire') <= Len(accepted)
    BY <1>1, <1>4, <1>5, Lengths
  <2>2. ASSUME NEW i \in 1 .. Len(wire')
        PROVE  wire'[i] = accepted[i]
    <3>1. CASE i <= Len(wire)
      BY <1>1, <1>4, <3>1, Lengths DEF Wired
    <3>2. CASE ~ (i <= Len(wire))
      <4>1. i - Len(wire) \in 1 .. n /\ i - Len(wire) \in 1 .. Len(posted)
            /\ Len(wire) + (i - Len(wire)) = i
        BY <1>1, <1>4, <3>2, Lengths
      <4>2. wire'[i] = posted[i - Len(wire)]
        BY <1>1, <1>3, <1>4, <3>2, <4>1, Lengths
      <4>3. QED
        BY <1>5, <4>1, <4>2
    <3>3. QED
      BY <3>1, <3>2
  <2>3. QED
    BY <1>1, <2>1, <2>2 DEF Wired
<1>8. Kept'
  <2>1. Popped' = Popped
    BY <1>1, <1>4, <1>5, Lengths DEF Popped
  <2>2. QED
    BY <1>1, <2>1 DEF Kept
<1>9. UnderWay' /\ Fresh' /\ Once'
  BY <1>1 DEF UnderWay, Fresh, Once
<1>10. Busy'
  BY <1>1 DEF Busy
<1>11. Waits'
  <2>1. Len(wire) # Len(accepted)
    BY <1>1, <1>5, Lengths
  <2>2. QED
    BY <1>1, <2>1 DEF Waits
<1>12. Counted'
  BY <1>1, <1>5, Lengths DEF Counted, Writes
<1>13. QED
  BY <1>6, <1>7, <1>8, <1>9, <1>10, <1>11, <1>12

\* A write fails: nothing of it is on the wire.
LEMMA NotSentStep ==
  ASSUME IInv, NotSent
  PROVE  IInv'
<1> USE DEF IInv
<1>1. /\ posted # <<>> /\ posted' = <<>> /\ failed' = TRUE
      /\ UNCHANGED <<status, oBuffer, writing, io, completed, handled, todo, accepted, wire, waited>>
  BY DEF NotSent
<1>2. TypeOK'
  BY <1>1, SendAssumption, EmptySeq DEF TypeOK
<1>3. Counted'
  BY <1>1, Lengths DEF Counted, Writes
<1>4. QED
  BY <1>1, <1>2, <1>3 DEF Wired, Kept, UnderWay, Busy, Waits, Fresh, Once, Popped

\* A completion is popped, and the next write posted.
LEMMA CompletedStep ==
  ASSUME IInv, NEW success \in BOOLEAN, OnSendCompleted(success)
  PROVE  IInv'
<1> USE DEF IInv
<1> DEFINE rest == Rest(oBuffer, completed)
<1>1. /\ completed > 0 /\ completed' = 0 /\ handled' = handled + 1
      /\ UNCHANGED <<todo, accepted, wire, waited>>
  BY DEF OnSendCompleted
<1>2. posted = <<>>
  BY <1>1, Lengths DEF UnderWay
<1>3. Wired' /\ Popped' = Len(wire)
  BY <1>1, Lengths DEF Wired, Popped
<1>4. CASE status = "Disposable"
  <2>1. UNCHANGED <<status, buffers, failed>>
    BY <1>4 DEF OnSendCompleted
  <2>2. TypeOK'
    BY <1>1, <2>1, Lengths, SendAssumption DEF TypeOK, buffers
  <2>3. Counted'
    BY <1>1, <1>2, <2>1, Lengths DEF Counted, Writes, buffers
  <2>4. QED
    BY <1>1, <1>2, <1>3, <1>4, <2>1, <2>2, <2>3
       DEF Kept, UnderWay, Busy, Waits, Fresh, Once, buffers
<1>5. CASE status # "Disposable"
  <2>1. /\ Len(accepted) = Popped + Len(oBuffer) /\ Popped + completed = Len(wire)
        /\ completed \in 0 .. Len(oBuffer)
        /\ \A i \in 1 .. Len(oBuffer) : oBuffer[i] = accepted[Popped + i]
    BY <1>5, Lengths DEF Kept, Wired, Popped
  <2>2. oBuffer \in Seq(Byte)
    BY DEF TypeOK
  <2>3. /\ rest \in Seq(Byte) /\ Len(rest) = Len(oBuffer) - completed
        /\ \A i \in 1 .. Len(oBuffer) - completed : rest[i] = oBuffer[completed + i]
    BY <2>1, <2>2, Lasts
  <2>4. /\ oBuffer' = rest
        /\ \/ /\ rest = <<>> /\ status = "WaitingForWrite" /\ status' = "Disposable"
              /\ UNCHANGED <<posted, writing, io, failed>>
           \/ /\ rest = <<>> /\ status' = status
              /\ writing' = FALSE /\ UNCHANGED <<posted, io, failed>>
           \/ /\ rest # <<>> /\ status' = status /\ WriteBytes(rest, success)
    BY <1>5 DEF OnSendCompleted, Continue
  <2> HIDE DEF rest
  <2>5. Len(accepted') = Len(wire) + Len(rest)
    <3>1. accepted' = accepted /\ Popped \in Int
      BY <1>1, Lengths DEF Popped
    <3>2. /\ Len(accepted) \in Nat /\ Len(oBuffer) \in Nat /\ Len(wire) \in Nat
          /\ completed \in Nat
      BY Lengths
    <3>3. Len(accepted) = Popped + Len(oBuffer) /\ Popped + completed = Len(wire)
      BY <2>1
    <3>4. Len(accepted) = Len(wire) + (Len(oBuffer) - completed)
      BY <3>1, <3>2, <3>3
    <3>5. QED
      BY <3>1, <3>4, <2>3
  <2>6. ASSUME NEW i \in 1 .. Len(rest) PROVE rest[i] = accepted[Len(wire) + i]
    <3>1. /\ i \in 1 .. Len(oBuffer) - completed /\ completed + i \in 1 .. Len(oBuffer)
          /\ Popped + (completed + i) = Len(wire) + i
      BY <2>1, <2>3, Lengths DEF Popped
    <3>2. QED
      BY <2>1, <2>3, <3>1
  <2>7. Kept'
    BY <1>1, <1>3, <2>4, <2>5, <2>6 DEF Kept
  <2>8. Waits'
    <3>1. rest = <<>> => Len(accepted) = Len(wire)
      BY <1>1, <2>3, <2>5, EmptyLen, Lengths
    <3>2. QED
      BY <1>1, <1>5, <2>4, <3>1 DEF Waits
  <2>9. CASE rest = <<>>
    <3>1. posted' = <<>> /\ io' = io /\ failed' = failed /\ writing' \in BOOLEAN
          /\ status' \in {"Disposable", status} /\ oBuffer' = rest
      BY <1>2, <2>4, <2>9 DEF TypeOK
    <3>2. TypeOK'
      BY <1>1, <2>3, <3>1, Lengths, SendAssumption, EmptySeq DEF TypeOK
    <3>3. UnderWay' /\ Busy' /\ Fresh' /\ Once'
      BY <1>1, <3>1 DEF UnderWay, Busy, Fresh, Once
    <3>4. Counted'
      BY <1>1, <1>2, <3>1, Lengths DEF Counted, Writes
    <3>5. QED
      BY <1>3, <2>7, <2>8, <3>2, <3>3, <3>4
  <2>10. CASE rest # <<>>
    <3>1. WriteBytes(rest, success) /\ status' = status
      BY <2>4, <2>10
    <3>2. CASE success
      <4>1. /\ posted' \in Seq(Byte) /\ posted' # <<>>
            /\ Len(posted') <= SendBufferSize /\ Len(posted') <= Len(rest)
            /\ \A i \in 1 .. Len(posted') : posted'[i] = rest[i]
            /\ writing' = TRUE /\ io' = io + 1 /\ failed' = failed
        BY <2>3, <2>10, <3>1, <3>2, WriteTakes
      <4>2. TypeOK'
        BY <1>1, <2>3, <2>4, <3>1, <4>1, Lengths, SendAssumption DEF TypeOK
      <4>3. UnderWay'
        <5>1. Len(posted') \in Nat /\ Len(rest) \in Nat
          BY <2>3, <4>1, EmptyLen
        <5>2. QED
          BY <1>1, <2>5, <2>6, <4>1, <5>1, Lengths DEF UnderWay
      <4>4. Busy' /\ Fresh' /\ Once'
        BY <1>1, <4>1 DEF Busy, Fresh, Once
      <4>5. Counted'
        BY <1>1, <1>2, <4>1, Lengths DEF Counted, Writes
      <4>6. QED
        BY <1>3, <2>7, <2>8, <4>2, <4>3, <4>4, <4>5
    <3>3. CASE ~success
      <4>1. failed' = TRUE /\ posted' = posted /\ writing' = writing /\ io' = io
        BY <2>3, <2>10, <3>1, <3>3, WriteTakes
      <4>2. TypeOK'
        BY <1>1, <2>3, <2>4, <3>1, <4>1, Lengths, SendAssumption DEF TypeOK
      <4>3. UnderWay' /\ Busy' /\ Fresh' /\ Once'
        BY <1>1, <1>2, <4>1 DEF UnderWay, Busy, Fresh, Once
      <4>4. Counted'
        BY <1>1, <1>2, <4>1, Lengths DEF Counted, Writes
      <4>5. QED
        BY <1>3, <2>7, <2>8, <4>2, <4>3, <4>4
    <3>4. QED
      BY <3>2, <3>3
  <2>11. QED
    BY <2>9, <2>10
<1>6. QED
  BY <1>4, <1>5

LEMMA Inductive == IInv /\ [Next]_vars => IInv'
<1> SUFFICES ASSUME IInv, [Next]_vars PROVE IInv'
  OBVIOUS
<1>1. ASSUME NEW p \in Packets, PushRefused(p) PROVE IInv'
  BY <1>1, RefusedStep
<1>2. ASSUME NEW p \in Packets, NEW success \in BOOLEAN, PushPacket(p, success) PROVE IInv'
  BY <1>2, PushStep
<1>3. ASSUME NEW wait \in BOOLEAN, Close(wait) PROVE IInv'
  BY <1>3, CloseStep
<1>4. ASSUME NEW n \in 1 .. SendBufferSize, Sent(n) PROVE IInv'
  BY <1>4, SentStep
<1>5. ASSUME NotSent PROVE IInv'
  BY <1>5, NotSentStep
<1>6. ASSUME NEW success \in BOOLEAN, OnSendCompleted(success) PROVE IInv'
  BY <1>6, CompletedStep
<1>7. ASSUME Decrement PROVE IInv'
  <2>1. /\ handled > 0 /\ handled' = handled - 1 /\ io' = io - 1
        /\ UNCHANGED <<status, oBuffer, posted, writing, completed, todo, history>>
    BY <1>7 DEF Decrement
  <2>2. TypeOK /\ Counted
    BY DEF IInv
  <2>3. TypeOK' /\ Counted'
    BY <2>1, <2>2, Lengths DEF TypeOK, Counted, Writes, history
  <2>4. QED
    BY <2>1, <2>3 DEF IInv, Wired, Kept, UnderWay, Busy, Waits, Fresh, Once, Popped, history
<1>8. CASE UNCHANGED vars
  BY <1>8 DEF vars, buffers, history, IInv, TypeOK, Wired, Kept, UnderWay, Busy, Waits, Fresh, Once,
       Counted, Writes, Popped
<1>9. QED
  BY <1>1, <1>2, <1>3, <1>4, <1>5, <1>6, <1>7, <1>8 DEF Next

----------------------------------------------------------------------------
\* From positions back to sequences.
LEMMA Implies == IInv => SendsWhatItTook
<1> SUFFICES ASSUME IInv PROVE SendsWhatItTook
  OBVIOUS
<1> USE DEF IInv
<1>1. /\ oBuffer \in Seq(Byte) /\ posted \in Seq(Byte)
      /\ accepted \in Seq(Byte) /\ wire \in Seq(Byte)
  BY DEF TypeOK
<1>2. IsPrefixOf(wire, accepted)
  <2>1. Len(wire) \in 0 .. Len(accepted)
    BY Lengths DEF Wired
  <2>2. /\ Prefix(accepted, Len(wire)) \in Seq(Byte)
        /\ Len(Prefix(accepted, Len(wire))) = Len(wire)
        /\ \A i \in 1 .. Len(wire) : Prefix(accepted, Len(wire))[i] = accepted[i]
    BY <1>1, <2>1, Firsts
  <2>3. Prefix(accepted, Len(wire)) = wire
    BY <1>1, <2>2, SeqEqual DEF Wired
  <2>4. QED
    BY <2>1, <2>3 DEF IsPrefixOf
<1>3. ASSUME status # "Disposable"
      PROVE  accepted = Prefix(wire, Len(wire) - completed) \o oBuffer
  <2> DEFINE s == Prefix(wire, Popped)
  <2>1. Popped \in 0 .. Len(wire)
    BY Lengths DEF Wired, Popped
  <2>2. s \in Seq(Byte) /\ Len(s) = Popped /\ \A i \in 1 .. Popped : s[i] = wire[i]
    BY <1>1, <2>1, Firsts
  <2> HIDE DEF s
  <2>3. /\ s \o oBuffer \in Seq(Byte) /\ Len(s \o oBuffer) = Popped + Len(oBuffer)
        /\ \A i \in 1 .. Popped + Len(oBuffer) :
              (s \o oBuffer)[i] = IF i <= Popped THEN s[i] ELSE oBuffer[i - Popped]
    BY <1>1, <2>2, ConcatProperties
  <2>4. Len(accepted) = Popped + Len(oBuffer)
    BY <1>3 DEF Kept
  <2>5. ASSUME NEW i \in 1 .. Len(accepted) PROVE accepted[i] = (s \o oBuffer)[i]
    <3>1. CASE i <= Popped
      <4>1. i \in 1 .. Popped /\ i \in 1 .. Len(wire)
        BY <2>1, <3>1, Lengths
      <4>2. (s \o oBuffer)[i] = s[i]
        BY <2>3, <2>4, <3>1
      <4>3. QED
        BY <2>2, <4>1, <4>2 DEF Wired
    <3>2. CASE ~ (i <= Popped)
      <4>1. i - Popped \in 1 .. Len(oBuffer) /\ Popped + (i - Popped) = i
        BY <2>1, <2>4, <3>2, Lengths
      <4>2. QED
        BY <1>3, <2>3, <2>4, <3>2, <4>1 DEF Kept
    <3>3. QED
      BY <3>1, <3>2
  <2>6. accepted = s \o oBuffer
    BY <1>1, <2>3, <2>4, <2>5, SeqEqual
  <2>7. QED
    BY <2>6 DEF s, Popped
<1>4. ASSUME status # "Disposable" PROVE IsPrefixOf(posted, oBuffer)
  <2>1. Len(posted) \in 0 .. Len(oBuffer)
        /\ \A i \in 1 .. Len(posted) : posted[i] = oBuffer[i]
    <3>1. CASE posted = <<>>
      BY <3>1, Lengths
    <3>2. CASE posted # <<>>
      <4>1. /\ Len(accepted) = Len(wire) + Len(oBuffer)
            /\ \A i \in 1 .. Len(oBuffer) : oBuffer[i] = accepted[Len(wire) + i]
        BY <1>4, <3>2, Lengths DEF Kept, UnderWay, Popped
      <4>2. QED
        BY <3>2, <4>1, Lengths DEF UnderWay
    <3>3. QED
      BY <3>1, <3>2
  <2>2. /\ Prefix(oBuffer, Len(posted)) \in Seq(Byte)
        /\ Len(Prefix(oBuffer, Len(posted))) = Len(posted)
        /\ \A i \in 1 .. Len(posted) : Prefix(oBuffer, Len(posted))[i] = oBuffer[i]
    BY <1>1, <2>1, Firsts
  <2>3. Prefix(oBuffer, Len(posted)) = posted
    BY <1>1, <2>1, <2>2, SeqEqual
  <2>4. QED
    BY <2>1, <2>3 DEF IsPrefixOf
<1>5. status = "Disposable" /\ waited => wire = accepted
  BY <1>1, SeqEqual DEF Waits, Wired
<1>6. QED
  BY <1>2, <1>3, <1>4, <1>5 DEF SendsWhatItTook, UnderWay, Once, Counted, Writes

(* The types of the send side: the counter never becomes negative, and     *)
(* oBuffer never holds more than its size (DataBuffer::Append).            *)
THEOREM TypeCorrect == Spec => []TypeOK
<1>1. IInv => TypeOK
  BY DEF IInv
<1>2. QED
  BY Initially, Inductive, <1>1, PTL DEF Spec

(* Whatever packets are pushed by whom, and however the network cuts the   *)
(* writes, the peer gets the accepted bytes in order, and all of them      *)
(* before a waiting close closes the socket.                               *)
THEOREM PeerGetsWhatWasTaken == Spec => []SendsWhatItTook
  BY Initially, Inductive, Implies, PTL DEF Spec
=============================================================================
