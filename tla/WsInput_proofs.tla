---------------------------- MODULE WsInput_proofs ----------------------------
(***************************************************************************)
(* Theorems about the receive path of one connection, for every set of     *)
(* chunks and every number of read callbacks.                              *)
(***************************************************************************)
EXTENDS WsInput, SequenceTheorems, TLAPS

\* Init and every step keep the variables of the receive path in their types.
THEOREM TypeCorrect == Spec => []TypeOK
<1>1. Init => TypeOK
  <2>1. <<>> \in Seq(Chunk)
    BY EmptySeq
  <2>2. Init => mbCloseFlag \in BOOLEAN
    BY DEF Init
  <2>3. QED
    BY <2>1, <2>2 DEF Init, TypeOK, LoopPc, TaskPc
<1>2. TypeOK /\ [Next]_vars => TypeOK'
  <2> SUFFICES ASSUME TypeOK, [Next]_vars
               PROVE  TypeOK'
    OBVIOUS
  <2> USE DEF TypeOK, LoopPc, TaskPc, LoopGoes, TaskGoes
  <2>1. ASSUME NEW c \in Chunk, OnRecv(c) PROVE TypeOK'
    BY <2>1 DEF OnRecv
  <2>2. CASE PushLock
    BY <2>2 DEF PushLock
  <2>3. CASE PushAppend
    <3>1. recvBuffer \o pBuf \in Seq(Chunk)
      BY ConcatProperties
    <3>2. QED
      BY <2>3, <3>1 DEF PushAppend
  <2>4. CASE PushUnLock
    BY <2>4 DEF PushUnLock
  <2>5. CASE Post
    BY <2>5 DEF Post
  <2>6. CASE OnClose
    BY <2>6 DEF OnClose
  <2>7. CASE TestClose
    BY <2>7 DEF TestClose
  <2>8. CASE Wait
    BY <2>8 DEF Wait
  <2>9. CASE ProcLock
    BY <2>9 DEF ProcLock
  <2>10. CASE ProcMove
    <3>1. msgCache \o recvBuffer \in Seq(Chunk)
      BY ConcatProperties
    <3>2. QED
      BY <2>10, <3>1 DEF ProcMove
  <2>11. CASE ProcUnLock
    BY <2>11 DEF ProcUnLock
  <2>12. CASE ParseMsg
    BY <2>12 DEF ParseMsg
  <2>13. CASE UNCHANGED vars
    BY <2>13 DEF vars
  <2>14. QED
    BY <2>1, <2>2, <2>3, <2>4, <2>5, <2>6, <2>7, <2>8, <2>9, <2>10, <2>11, <2>12, <2>13
       DEF Next, Loop, Task
<1>3. QED
  BY <1>1, <1>2, PTL DEF Spec

-----------------------------------------------------------------------------
\* What OnRecv still holds of its argument, and that a closed connection has
\* no read callback under way.
PushHolds == /\ loopPc \notin {"lock", "append"} => pBuf = <<>>
             /\ mbCloseFlag => loopPc = "idle"

\* The inductive invariant behind the theorems below.
IInv == /\ TypeOK
        /\ BufferExclusive
        /\ PushHolds
        /\ NothingLost
        /\ Announced
        /\ ParsedAll
        /\ parsed <= Len(msgCache)

LEMMA InitIInv == Init => IInv
<1> SUFFICES ASSUME Init PROVE IInv
  OBVIOUS
<1>1. TypeOK
  <2>1. <<>> \in Seq(Chunk)
    BY EmptySeq
  <2>2. mbCloseFlag \in BOOLEAN
    BY DEF Init
  <2>3. QED
    BY <2>1, <2>2 DEF Init, TypeOK, LoopPc, TaskPc
<1>2. NothingLost
  <2>1. <<>> \in Seq(Chunk) /\ (<<>> \o <<>>) \o <<>> = <<>>
    BY EmptySeq, ConcatEmptySeq
  <2>2. QED
    BY <2>1 DEF Init, NothingLost
<1>3. Len(<<>>) = 0
  BY EmptySeq
<1>4. PushHolds
  BY DEF Init, PushHolds
<1>5. QED
  BY <1>1, <1>2, <1>3, <1>4 DEF Init, IInv, BufferExclusive, Announced, ParsedAll

\* Moving chunks between neighbouring buffers keeps their concatenation.
LEMMA NothingLostStep ==
  ASSUME IInv, [Next]_vars
  PROVE  NothingLost'
<1> USE DEF IInv, TypeOK
<1>1. <<>> \in Seq(Chunk)
  BY EmptySeq
<1>2. msgCache \o recvBuffer \in Seq(Chunk)
  BY ConcatProperties
<1>3. ASSUME NEW c \in Chunk, OnRecv(c) PROVE NothingLost'
  <2>1. pBuf = <<>> /\ loopPc = "idle"
    BY <1>3 DEF OnRecv, LoopGoes, PushHolds
  <2>2. msgCache \o recvBuffer = received
    BY <2>1, <1>2, ConcatEmptySeq DEF NothingLost
  <2>3. Append(received, c) = received \o <<c>>
    BY AppendIsConcat
  <2>4. QED
    BY <1>3, <2>2, <2>3 DEF OnRecv, NothingLost
<1>4. CASE PushAppend
  <2>1. recvBuffer \o pBuf \in Seq(Chunk)
    BY ConcatProperties
  <2>2. msgCache \o (recvBuffer \o pBuf) \in Seq(Chunk)
    BY <2>1, ConcatProperties
  <2>3. (msgCache \o (recvBuffer \o pBuf)) \o <<>> = msgCache \o (recvBuffer \o pBuf)
    BY <2>2, ConcatEmptySeq
  <2>4. (msgCache \o recvBuffer) \o pBuf = msgCache \o (recvBuffer \o pBuf)
    BY ConcatAssociative
  <2>5. QED
    BY <1>4, <2>3, <2>4 DEF PushAppend, NothingLost
<1>5. CASE ProcMove
  <2>1. (msgCache \o recvBuffer) \o <<>> = msgCache \o recvBuffer
    BY <1>2, ConcatEmptySeq
  <2>2. QED
    BY <1>5, <2>1 DEF ProcMove, NothingLost
<1>6. CASE PushLock \/ PushUnLock \/ Post \/ OnClose
  BY <1>6 DEF PushLock, PushUnLock, Post, OnClose, NothingLost
<1>7. CASE TestClose \/ Wait \/ ProcLock \/ ProcUnLock \/ ParseMsg
  BY <1>7 DEF TestClose, Wait, ProcLock, ProcUnLock, ParseMsg, NothingLost
<1>8. CASE UNCHANGED vars
  BY <1>8 DEF vars, NothingLost
<1>9. QED
  BY <1>3, <1>4, <1>5, <1>6, <1>7, <1>8 DEF Next, Loop, Task

\* The other conjuncts of IInv: who holds the mutex, what is announced and
\* how far the parser got.
LEMMA ControlStep ==
  ASSUME IInv, TypeOK', [Next]_vars
  PROVE  /\ BufferExclusive' /\ PushHolds' /\ Announced' /\ ParsedAll'
         /\ parsed' <= Len(msgCache')
<1> USE DEF IInv, TypeOK, LoopPc, TaskPc, LoopGoes, TaskGoes,
            BufferExclusive, PushHolds, Announced, ParsedAll
<1>0. Len(msgCache) \in Nat
  BY LenProperties
<1>1. ASSUME NEW c \in Chunk, OnRecv(c)
      PROVE  /\ BufferExclusive' /\ PushHolds' /\ Announced' /\ ParsedAll'
             /\ parsed' <= Len(msgCache')
  BY <1>1 DEF OnRecv
<1>2. CASE PushLock
  BY <1>2 DEF PushLock
<1>3. CASE PushAppend
  BY <1>3 DEF PushAppend
<1>4. CASE PushUnLock
  BY <1>4 DEF PushUnLock
<1>5. CASE Post
  BY <1>5 DEF Post
<1>6. CASE OnClose
  BY <1>6 DEF OnClose
<1>7. CASE TestClose
  BY <1>7 DEF TestClose
<1>8. CASE Wait
  BY <1>8 DEF Wait
<1>9. CASE ProcLock
  BY <1>9 DEF ProcLock
<1>10. CASE ProcMove
  <2>1. Len(msgCache') = Len(msgCache) + Len(recvBuffer) /\ Len(recvBuffer) \in Nat
    BY <1>10, ConcatProperties, LenProperties DEF ProcMove
  <2>2. QED
    BY <1>0, <1>10, <2>1 DEF ProcMove
<1>11. CASE ProcUnLock
  BY <1>11 DEF ProcUnLock
<1>12. CASE ParseMsg
  BY <1>0, <1>12 DEF ParseMsg
<1>13. CASE UNCHANGED vars
  BY <1>13 DEF vars
<1>14. QED
  BY <1>1, <1>2, <1>3, <1>4, <1>5, <1>6, <1>7, <1>8, <1>9, <1>10, <1>11, <1>12, <1>13
     DEF Next, Loop, Task

-----------------------------------------------------------------------------
LEMMA Invariance == Spec => []IInv
<1>1. IInv /\ [Next]_vars /\ TypeOK' => IInv'
  <2> SUFFICES ASSUME IInv, [Next]_vars, TypeOK'
               PROVE  IInv'
    OBVIOUS
  <2>1. NothingLost'
    BY NothingLostStep
  <2>2. /\ BufferExclusive' /\ PushHolds' /\ Announced' /\ ParsedAll'
        /\ parsed' <= Len(msgCache')
    BY ControlStep
  <2>3. QED
    BY <2>1, <2>2 DEF IInv
<1>2. QED
  BY InitIInv, <1>1, TypeCorrect, PTL DEF Spec

\* PushMsg and ProcMsg never touch mpRecvBuffer at the same time.
THEOREM MutualExclusion == Spec => []BufferExclusive
BY Invariance, PTL DEF IInv

\* The chunks that OnRecv was given are, in order, those in the parser's
\* cache, those in mpRecvBuffer and the one being pushed.
THEOREM Conservation == Spec => []NothingLost
BY Invariance, PTL DEF IInv

\* Data in mpRecvBuffer always has a wakeup on its way.
THEOREM NoLostWakeup == Spec => []Announced
BY Invariance, PTL DEF IInv

\* A task thread that sleeps with no post pending has parsed everything.
THEOREM SleepIsQuiescent == Spec => []SleepsOnlyWhenDone
<1>1. IInv => SleepsOnlyWhenDone
  <2> SUFFICES ASSUME IInv, taskPc = "wait", sem = 0, loopPc = "idle"
               PROVE  parsed = Len(received)
    BY DEF SleepsOnlyWhenDone
  <2>1. recvBuffer = <<>> /\ pBuf = <<>> /\ parsed = Len(msgCache)
    BY DEF IInv, TypeOK, Announced, PushHolds, ParsedAll
  <2>2. msgCache \o <<>> = msgCache
    BY ConcatEmptySeq DEF IInv, TypeOK
  <2>3. QED
    BY <2>1, <2>2 DEF IInv, NothingLost
<1>2. QED
  BY <1>1, Invariance, PTL

\* OnClose wakes nobody: from the close on, a task thread in Wait with no
\* post pending makes no further step.
THEOREM SleepsForever == Spec => AsleepStaysAsleep
<1>1. IInv /\ [Next]_vars =>
         [mbCloseFlag' /\ taskPc = "wait" /\ sem = 0 => taskPc' = "wait" /\ sem' = 0]_vars
  <2> SUFFICES ASSUME IInv, Next, mbCloseFlag', taskPc = "wait", sem = 0
               PROVE  taskPc' = "wait" /\ sem' = 0
    OBVIOUS
  <2>1. ~Task
    BY DEF Task, TestClose, Wait, ProcLock, ProcMove, ProcUnLock, ParseMsg, TaskGoes
  <2>2. CASE OnClose
    BY <2>2 DEF OnClose
  <2>3. ASSUME NEW c \in Chunk, OnRecv(c) PROVE FALSE
    BY <2>3 DEF OnRecv
  <2>4. CASE Loop
    <3>1. mbCloseFlag
      BY <2>4 DEF Loop, PushLock, PushAppend, PushUnLock, Post
    <3>2. loopPc = "idle"
      BY <3>1 DEF IInv, PushHolds
    <3>3. QED
      BY <2>4, <3>2 DEF Loop, PushLock, PushAppend, PushUnLock, Post, LoopGoes
  <2>5. QED
    BY <2>1, <2>2, <2>3, <2>4 DEF Next
<1>2. QED
  BY <1>1, Invariance, PTL DEF Spec, AsleepStaysAsleep

-----------------------------------------------------------------------------
\* What the parser has seen is a prefix of what was received.
LEMMA SeenIsPrefix ==
  ASSUME IInv
  PROVE  /\ SubSeq(msgCache, 1, Len(msgCache)) = SubSeq(received, 1, Len(msgCache))
         /\ Len(msgCache) <= Len(received)
<1> USE DEF IInv, TypeOK
<1> DEFINE rest == recvBuffer \o pBuf
<1>1. rest \in Seq(Chunk) /\ received = msgCache \o rest
  <2>1. msgCache \in Seq(Chunk) /\ recvBuffer \in Seq(Chunk) /\ pBuf \in Seq(Chunk)
    OBVIOUS
  <2>2. rest \in Seq(Chunk)
    BY <2>1, ConcatProperties
  <2>3. (msgCache \o recvBuffer) \o pBuf = msgCache \o (recvBuffer \o pBuf)
    BY <2>1, ConcatAssociative
  <2>4. QED
    BY <2>2, <2>3 DEF NothingLost
<1>2. /\ Len(received) = Len(msgCache) + Len(rest)
      /\ Len(msgCache) \in Nat /\ Len(rest) \in Nat
  BY <1>1, ConcatProperties, LenProperties
<1>3. CASE Len(msgCache) = 0
  BY <1>2, <1>3, SubSeqEmpty
<1>4. CASE Len(msgCache) # 0
  <2>1. 1 \in 1 .. Len(msgCache) /\ Len(msgCache) \in 1 .. Len(msgCache)
    BY <1>2, <1>4
  <2>2. SubSeq(msgCache \o rest, 1, Len(msgCache)) = SubSeq(msgCache, 1, Len(msgCache))
    BY <1>1, <2>1, SubSeqOfConcat1
  <2>3. QED
    BY <1>1, <1>2, <2>2
<1>5. QED
  BY <1>3, <1>4

\* The two threads, the mutex and the semaphore implement the chunk pipe.
THEOREM RefinesPipe == Spec => ImplementsPipe
<1>1. Init => Pipe!Init
  <2> SUFFICES ASSUME Init PROVE Pipe!Init
    OBVIOUS
  <2>1. SubSeq(msgCache, 1, parsed) = <<>>
    BY SubSeqEmpty DEF Init
  <2>2. QED
    BY <2>1 DEF Init, Pipe!Init
<1>2. IInv /\ IInv' /\ [Next]_vars => [Pipe!Next]_Pipe!vars
  <2> SUFFICES ASSUME IInv, IInv', [Next]_vars
               PROVE  [Pipe!Next]_Pipe!vars
    OBVIOUS
  <2> DEFINE seen == SubSeq(msgCache, 1, parsed)
  <2> USE DEF Pipe!Next, Pipe!vars, LoopGoes, TaskGoes
  <2>0. parsed \in 0 .. Len(msgCache) /\ Len(msgCache) \in Nat
    BY LenProperties DEF IInv, TypeOK
  <2>1. ASSUME NEW c \in Chunk, OnRecv(c) PROVE Pipe!Arrive
    BY <2>1 DEF OnRecv, Pipe!Arrive
  <2>2. CASE PushLock \/ PushAppend \/ PushUnLock \/ Post
    BY <2>2 DEF PushLock, PushAppend, PushUnLock, Post
  <2>3. CASE OnClose
    BY <2>3 DEF OnClose, Pipe!Shut
  <2>4. CASE TestClose \/ Wait \/ ProcLock \/ ProcUnLock
    BY <2>4 DEF TestClose, Wait, ProcLock, ProcUnLock
  <2>5. CASE ProcMove
    <3>1. seen' = seen
      <4>1. CASE parsed = 0
        <5>1. seen' = <<>> /\ seen = <<>>
          BY <2>5, <4>1, SubSeqEmpty DEF ProcMove
        <5>2. QED
          BY <5>1
      <4>2. CASE parsed # 0
        <5>1. 1 \in 1 .. Len(msgCache) /\ parsed \in 1 .. Len(msgCache)
          BY <2>0, <4>2
        <5>2. QED
          BY <2>5, <5>1, SubSeqOfConcat1 DEF ProcMove, IInv, TypeOK
      <4>3. QED
        BY <4>1, <4>2
    <3>2. QED
      BY <2>5, <3>1 DEF ProcMove
  <2>6. CASE ParseMsg
    <3>1. Len(seen) = parsed
      <4>1. \A i \in 1 .. parsed : msgCache[i] \in Chunk
        BY <2>0, LenProperties DEF IInv, TypeOK
      <4>2. QED
        BY <2>0, <4>1, SubSeqProperties
    <3>2. seen' = SubSeq(received, 1, Len(msgCache)) /\ Len(msgCache) <= Len(received)
      BY <2>6, SeenIsPrefix DEF ParseMsg
    <3>3. Len(received) \in Nat
      BY LenProperties DEF IInv, TypeOK
    <3>4. CASE parsed = Len(msgCache)
      BY <2>6, <3>4 DEF ParseMsg
    <3>5. CASE parsed # Len(msgCache)
      <4>1. Len(msgCache) \in (Len(seen) + 1) .. Len(received)
        BY <2>0, <3>1, <3>2, <3>3, <3>5
      <4>2. Pipe!Hand
        BY <2>6, <3>2, <4>1 DEF ParseMsg, Pipe!Hand
      <4>3. QED
        BY <4>2
    <3>6. QED
      BY <3>4, <3>5
  <2>7. CASE UNCHANGED vars
    BY <2>7 DEF vars
  <2>8. QED
    BY <2>1, <2>2, <2>3, <2>4, <2>5, <2>6, <2>7 DEF Next, Loop, Task
<1>3. QED
  BY <1>1, <1>2, Invariance, PTL DEF Spec, ImplementsPipe, Pipe!Spec
==============================================================================
