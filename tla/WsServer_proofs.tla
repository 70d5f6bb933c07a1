-------------------------- MODULE WsServer_proofs --------------------------
(***************************************************************************)
(* Reference counting of the connections, for any number of them: the      *)
(* count of a connection is the number of its holders, so it is freed when *)
(* its last holder lets go, and nobody reaches it afterwards.              *)
(*                                                                         *)
(* The inductive invariant adds to the count what makes each holder hold   *)
(* at most one reference (a connection is in mvecClis at most once, and    *)
(* not while AddCli has yet to insert it), and that a connection leaves    *)
(* mvecClis only after its close callback ran, so the event loop itself    *)
(* needs no reference to call it.                                          *)
(*                                                                         *)
(* And the singletons its task threads share: for any set of threads       *)
(* CSingleton<T>::Instance makes one object and never returns it half      *)
(* built.  The inductive invariant follows the one creation: who is        *)
(* between Lock and UnLock holds the mutex, so at most one thread has an   *)
(* object that is not yet in mpInstance, and a pointer other than NULL is  *)
(* that of the object whose constructor returned.                          *)
(***************************************************************************)
EXTENDS WsServer, Singleton, SequenceTheorems, TLAPS

-----------------------------------------------------------------------------
(* Sequences without repetition. *)

Distinct(s) == \A i, j \in 1 .. Len(s) : s[i] = s[j] => i = j

LEMMA RangeMember ==
  ASSUME NEW s, NEW x PROVE x \in Range(s) <=> \E i \in DOMAIN s : s[i] = x
  BY DEF Range

LEMMA AppendDistinct ==
  ASSUME NEW S, NEW s \in Seq(S), NEW x \in S, Distinct(s), x \notin Range(s)
  PROVE  /\ Distinct(Append(s, x))
         /\ \A y : y \in Range(Append(s, x)) <=> y \in Range(s) \/ y = x
<1> DEFINE t == Append(s, x)
<1>1. /\ t \in Seq(S) /\ Len(t) = Len(s) + 1 /\ Len(s) \in Nat
      /\ DOMAIN t = 1 .. Len(t) /\ DOMAIN s = 1 .. Len(s)
      /\ \A i \in 1 .. Len(s) : t[i] = s[i]
      /\ t[Len(s) + 1] = x
  OBVIOUS
<1>2. \A i \in 1 .. Len(s) : s[i] # x
  BY <1>1 DEF Range
<1> HIDE DEF t
<1>3. Distinct(t)
  BY <1>1, <1>2 DEF Distinct
<1>4. ASSUME NEW y PROVE y \in Range(t) <=> y \in Range(s) \/ y = x
  <2>1. y \in Range(t) => y \in Range(s) \/ y = x
    BY <1>1 DEF Range
  <2>2. y \in Range(s) => y \in Range(t)
    BY <1>1 DEF Range
  <2>3. x \in Range(t)
    BY <1>1 DEF Range
  <2>4. QED
    BY <2>1, <2>2, <2>3
<1>5. QED
  BY <1>3, <1>4 DEF t

LEMMA RemoveAtElements ==
  ASSUME NEW S, NEW s \in Seq(S), NEW k \in 1 .. Len(s)
  PROVE  /\ RemoveAt(s, k) \in Seq(S)
         /\ Len(RemoveAt(s, k)) = Len(s) - 1
         /\ \A i \in 1 .. Len(s) - 1 :
               RemoveAt(s, k)[i] = IF i < k THEN s[i] ELSE s[i + 1]
<1> DEFINE a == SubSeq(s, 1, k - 1)
           b == SubSeq(s, k + 1, Len(s))
<1>1. k \in Nat /\ k >= 1 /\ k <= Len(s) /\ Len(s) \in Nat
      /\ \A i \in 1 .. Len(s) : s[i] \in S
  BY ElementOfSeq
<1>2. /\ a \in Seq(S) /\ Len(a) = k - 1
      /\ \A i \in 1 .. k - 1 : a[i] = s[i]
  <2>1. \A i \in 1 .. k - 1 : s[i] \in S
    BY <1>1
  <2>2. Len(a) = IF 1 <= k - 1 THEN (k - 1) - 1 + 1 ELSE 0
    BY <1>1, <2>1, SubSeqProperties
  <2>3. a \in Seq(S) /\ \A i \in 1 .. (k - 1) - 1 + 1 : a[i] = s[1 + i - 1]
    BY <1>1, <2>1, SubSeqProperties
  <2>4. QED
    BY <1>1, <2>2, <2>3
<1>3. /\ b \in Seq(S) /\ Len(b) = Len(s) - k
      /\ \A i \in 1 .. Len(s) - k : b[i] = s[i + k]
  <2>1. \A i \in k + 1 .. Len(s) : s[i] \in S
    BY <1>1
  <2>2. Len(b) = IF k + 1 <= Len(s) THEN Len(s) - (k + 1) + 1 ELSE 0
    BY <1>1, <2>1, SubSeqProperties
  <2>3. b \in Seq(S) /\ \A i \in 1 .. Len(s) - (k + 1) + 1 : b[i] = s[(k + 1) + i - 1]
    BY <1>1, <2>1, SubSeqProperties
  <2>4. QED
    BY <1>1, <2>2, <2>3
<1>4. RemoveAt(s, k) = a \o b
  BY DEF RemoveAt
<1> HIDE DEF a, b
<1>5. /\ a \o b \in Seq(S)
      /\ Len(a \o b) = Len(s) - 1
      /\ \A i \in 1 .. Len(s) - 1 :
            (a \o b)[i] = IF i < k THEN a[i] ELSE b[i - (k - 1)]
  <2>1. /\ a \o b \in Seq(S)
        /\ Len(a \o b) = Len(a) + Len(b)
        /\ \A i \in 1 .. Len(a) + Len(b) :
              (a \o b)[i] = IF i <= Len(a) THEN a[i] ELSE b[i - Len(a)]
    BY <1>2, <1>3, ConcatProperties
  <2>2. Len(a) + Len(b) = Len(s) - 1
    BY <1>1, <1>2, <1>3
  <2>3. ASSUME NEW i \in 1 .. Len(s) - 1
        PROVE  (a \o b)[i] = IF i < k THEN a[i] ELSE b[i - (k - 1)]
    <3>1. i <= Len(a) <=> i < k
      BY <1>1, <1>2
    <3>2. QED
      BY <1>2, <2>1, <2>2, <3>1
  <2>4. QED
    BY <2>1, <2>2, <2>3
<1>6. ASSUME NEW i \in 1 .. Len(s) - 1
      PROVE  (a \o b)[i] = IF i < k THEN s[i] ELSE s[i + 1]
  <2>1. CASE i < k
    BY <1>1, <1>2, <1>5, <2>1
  <2>2. CASE i >= k
    <3>1. i - (k - 1) \in 1 .. Len(s) - k /\ (i - (k - 1)) + k = i + 1
      BY <1>1, <2>2
    <3>2. b[i - (k - 1)] = s[i + 1]
      BY <1>3, <3>1
    <3>3. QED
      BY <1>1, <1>5, <2>2, <3>2
  <2>3. i < k \/ i >= k
    BY <1>1
  <2>4. QED
    BY <2>1, <2>2, <2>3
<1>7. QED
  BY <1>4, <1>5, <1>6

LEMMA RemoveAtDistinct ==
  ASSUME NEW S, NEW s \in Seq(S), NEW k \in 1 .. Len(s), Distinct(s)
  PROVE  /\ Distinct(RemoveAt(s, k))
         /\ \A y : y \in Range(RemoveAt(s, k)) <=> y \in Range(s) /\ y # s[k]
<1> DEFINE t == RemoveAt(s, k)
<1>1. /\ t \in Seq(S) /\ Len(t) = Len(s) - 1 /\ Len(s) \in Nat
      /\ DOMAIN t = 1 .. Len(s) - 1 /\ DOMAIN s = 1 .. Len(s)
      /\ \A i \in 1 .. Len(s) - 1 : t[i] = IF i < k THEN s[i] ELSE s[i + 1]
  BY RemoveAtElements
<1> HIDE DEF t
<1>2. Distinct(t)
  BY <1>1 DEF Distinct
<1>3. ASSUME NEW y PROVE y \in Range(t) <=> y \in Range(s) /\ y # s[k]
  <2>1. ASSUME y \in Range(t) PROVE y \in Range(s) /\ y # s[k]
    <3>1. PICK i \in 1 .. Len(s) - 1 : t[i] = y
      BY <1>1, <2>1 DEF Range
    <3>2. CASE i < k
      BY <1>1, <3>1, <3>2 DEF Range, Distinct
    <3>3. CASE i >= k
      BY <1>1, <3>1, <3>3 DEF Range, Distinct
    <3>4. QED
      BY <3>2, <3>3
  <2>2. ASSUME y \in Range(s), y # s[k] PROVE y \in Range(t)
    <3>1. PICK i \in 1 .. Len(s) : s[i] = y
      BY <1>1, <2>2 DEF Range
    <3>2. CASE i < k
      <4>1. i \in 1 .. Len(s) - 1 /\ t[i] = y
        BY <1>1, <3>1, <3>2
      <4>2. QED
        BY <1>1, <4>1 DEF Range
    <3>3. CASE i > k
      <4>1. i - 1 \in 1 .. Len(s) - 1 /\ t[i - 1] = y
        BY <1>1, <3>1, <3>3
      <4>2. QED
        BY <1>1, <4>1 DEF Range
    <3>4. QED
      BY <2>2, <3>1, <3>2, <3>3
  <2>3. QED
    BY <2>1, <2>2
<1>4. QED
  BY <1>2, <1>3 DEF t

-----------------------------------------------------------------------------
(* The inductive invariant. *)

\* The connection AddCli works on is alive and not yet in mvecClis, and only
\* the pool may have got its reference.
Adding ==
    /\ loopPc \in {"push", "insert"} <=> loopCli # {}
    /\ \A c, d \in loopCli : c = d
    /\ \A c \in loopCli : ~InVector(c)
    /\ loopPc = "push" => \A c \in loopCli : task[c] = "none"

\* A connection that was not accepted yet, seen by each of its holders.
Unborn ==
    \A c \in Cli : life[c] = "unborn" =>
        ~VectorRef(c) /\ task[c] = "none" /\ leaked[c] = 0

\* Alive is to have a reference.
AliveIsCounted == \A c \in Cli : life[c] = "alive" <=> mlReferCount[c] > 0

\* The handle of a connection closes while mvecClis refers to it.
Handles ==
    \A c \in Cli :
        /\ life[c] = "alive" /\ ~mbCloseFlag[c] => VectorRef(c)
        /\ c \in closing => life[c] = "alive" /\ ~mbCloseFlag[c]

IInv == /\ TypeOK
        /\ Distinct(mvecClis)
        /\ Adding
        /\ Unborn
        /\ RefCountIsHolders
        /\ AliveIsCounted
        /\ Handles

LEMMA CountValues == \A b \in BOOLEAN : Count(b) \in {0, 1}
  BY DEF Count

LEMMA InitIInv == Init => IInv
<1> SUFFICES ASSUME Init PROVE IInv
  OBVIOUS
<1> USE DEF Init
<1>1. TypeOK
  <2>1. mvecClis \in Seq(Cli)
    OBVIOUS
  <2>2. QED
    BY <2>1 DEF TypeOK, LoopPc, CastPc, TaskPc
<1>2. \A c \in Cli : ~InVector(c) /\ ~VectorRef(c)
  BY DEF InVector, VectorRef, Range
<1>3. Distinct(mvecClis)
  BY DEF Distinct
<1>4. RefCountIsHolders
  BY <1>2 DEF RefCountIsHolders, PoolRef, Count
<1>5. QED
  BY <1>1, <1>2, <1>3, <1>4 DEF IInv, Adding, Unborn, AliveIsCounted, Handles

-----------------------------------------------------------------------------
(* Each action keeps the invariant. *)

\* Whoever holds a reference can give it back: the count is positive.
LEMMA HeldIsCounted ==
  ASSUME IInv, NEW c \in Cli, VectorRef(c) \/ PoolRef(c) \/ task[c] = "handle"
  PROVE  mlReferCount[c] \in Nat /\ mlReferCount[c] >= 1
<1>1. /\ mlReferCount[c] \in Nat /\ leaked[c] \in Nat
      /\ mlReferCount[c] = Count(VectorRef(c)) + Count(PoolRef(c))
                            + Count(task[c] = "handle") + leaked[c]
  BY DEF IInv, TypeOK, RefCountIsHolders
<1>2. /\ Count(VectorRef(c)) \in {0, 1} /\ Count(PoolRef(c)) \in {0, 1}
      /\ Count(task[c] = "handle") \in {0, 1}
  BY Zenon DEF Count
<1>3. Count(VectorRef(c)) = 1 \/ Count(PoolRef(c)) = 1 \/ Count(task[c] = "handle") = 1
  BY Zenon DEF Count
<1>4. QED
  BY <1>1, <1>2, <1>3

\* The position of the sweep is one of mvecClis.
LEMMA SweepPosition ==
  ASSUME IInv, Sweeping
  PROVE  /\ iter \in 1 .. Len(mvecClis)
         /\ mvecClis[iter] \in Cli
         /\ InVector(mvecClis[iter])
<1>1. iter \in 1 .. Len(mvecClis) /\ mvecClis \in Seq(Cli)
  BY DEF IInv, TypeOK, Sweeping
<1>2. mvecClis[iter] \in Cli /\ iter \in DOMAIN mvecClis
  BY <1>1
<1>3. QED
  BY <1>1, <1>2 DEF InVector, Range

\* What UNREF leaves when the count is positive.
LEMMA UnrefType ==
  ASSUME TypeOK, NEW c \in Cli, mlReferCount[c] >= 1, UNREF(c)
  PROVE  /\ mlReferCount' \in [Cli -> Nat]
         /\ life' \in [Cli -> {"unborn", "alive", "freed"}]
  BY DEF TypeOK, UNREF

LEMMA TypeStep == IInv /\ [Next]_vars => TypeOK'
<1> SUFFICES ASSUME IInv, [Next]_vars PROVE TypeOK'
  OBVIOUS
<1>0. TypeOK
  BY DEF IInv
<1> USE <1>0 DEF TypeOK, LoopPc, CastPc, TaskPc, object, handle, data, messages, loop, cast
<1>1. ASSUME NEW c \in Cli, AddCli(c) PROVE TypeOK'
  BY <1>1 DEF AddCli
<1>2. ASSUME NEW c \in Cli, PushTask(c) PROVE TypeOK'
  BY <1>2 DEF PushTask, REF
<1>3. ASSUME NEW c \in Cli, PushBack(c) PROVE TypeOK'
  BY <1>3 DEF PushBack
<1>4. ASSUME NEW c \in Cli, OnRecv(c) PROVE TypeOK'
  BY <1>4 DEF OnRecv, Open
<1>5. ASSUME NEW c \in Cli, PeerCloses(c) PROVE TypeOK'
  BY <1>5 DEF PeerCloses, Open
<1>6. ASSUME NEW c \in Cli, OnClose(c) PROVE TypeOK'
  BY <1>6 DEF OnClose
<1>7. CASE OnBaseTimer
  BY <1>7 DEF OnBaseTimer
<1>8. CASE SweepClosed
  <2>1. /\ iter \in 1 .. Len(mvecClis) /\ mvecClis[iter] \in Cli
        /\ InVector(mvecClis[iter])
    BY <1>8, SweepPosition DEF SweepClosed
  <2>2. mlReferCount[mvecClis[iter]] \in Nat /\ mlReferCount[mvecClis[iter]] >= 1
    BY <2>1, HeldIsCounted DEF VectorRef
  <2>3. RemoveAt(mvecClis, iter) \in Seq(Cli)
    BY <2>1, RemoveAtElements
  <2>4. mvecClis' = RemoveAt(mvecClis, iter) /\ UNREF(mvecClis[iter])
        /\ UNCHANGED <<handle, data, task, messages, vecMutex, loop, cast>>
    BY <1>8 DEF SweepClosed
  <2>5. mlReferCount' \in [Cli -> Nat] /\ life' \in [Cli -> {"unborn", "alive", "freed"}]
    BY <2>1, <2>2, <2>4, UnrefType
  <2>6. QED
    BY <2>3, <2>4, <2>5
<1>9. ASSUME NEW timeout \in BOOLEAN, SweepOpen(timeout) PROVE TypeOK'
  <2>1. mvecClis[iter] \in Cli
    BY <1>9, SweepPosition DEF SweepOpen
  <2>2. closing' \in {closing, closing \cup {mvecClis[iter]}}
    BY <1>9, Zenon DEF SweepOpen
  <2>3. iter' = iter + 1
        /\ UNCHANGED <<object, mbCloseFlag, data, task, messages, mvecClis, vecMutex,
                       loopPc, loopCli, cast>>
    BY <1>9 DEF SweepOpen
  <2>4. closing' \subseteq Cli
    BY <2>1, <2>2
  <2>5. QED
    BY <2>3, <2>4
<1>10. CASE SweepEnd
  BY <1>10 DEF SweepEnd
<1>11. ASSUME NEW c \in Cli, DispatchTask(c) PROVE TypeOK'
  BY <1>11 DEF DispatchTask, TaskGoes
<1>12. ASSUME NEW c \in Cli, TestClose(c) PROVE TypeOK'
  BY <1>12 DEF TestClose, TaskGoes
<1>13. ASSUME NEW c \in Cli, Wait(c) PROVE TypeOK'
  BY <1>13 DEF Wait, TaskGoes
<1>14. ASSUME NEW c \in Cli, NewMsg(c) PROVE TypeOK'
  BY <1>14 DEF NewMsg, REF, TaskGoes
<1>15. ASSUME NEW c \in Cli, DeleteMsg(c) PROVE TypeOK'
  <2>1. mlReferCount[c] \in Nat /\ mlReferCount[c] >= 1
    BY <1>15, HeldIsCounted DEF DeleteMsg, TaskGoes
  <2>2. QED
    BY <1>15, <2>1 DEF DeleteMsg, UNREF, TaskGoes
<1>16. ASSUME NEW c \in Cli, NoHandler(c) PROVE TypeOK'
  BY <1>16 DEF NoHandler, TaskGoes
<1>17. ASSUME NEW c \in Cli, ParseDone(c) PROVE TypeOK'
  BY <1>17 DEF ParseDone, TaskGoes
<1>18. ASSUME NEW c \in Cli, TaskQuit(c) PROVE TypeOK'
  <2>1. mlReferCount[c] \in Nat /\ mlReferCount[c] >= 1
    BY <1>18, HeldIsCounted DEF TaskQuit, TaskGoes, PoolRef
  <2>2. QED
    BY <1>18, <2>1 DEF TaskQuit, UNREF, TaskGoes
<1>19. CASE BroadCast
  BY <1>19 DEF BroadCast
<1>20. CASE CastCheck
  <2>1. \/ castIter' = castIter + 1 /\ castPc' = castPc
        \/ castPc' = "send" /\ castIter' = castIter
    BY <1>20, Zenon DEF CastCheck
  <2>2. UNCHANGED <<object, handle, data, task, messages, mvecClis, vecMutex, loop>>
    BY <1>20 DEF CastCheck
  <2>3. QED
    BY <2>1, <2>2
<1>21. CASE CastSend
  BY <1>21 DEF CastSend
<1>22. CASE CastEnd
  BY <1>22 DEF CastEnd
<1>23. CASE UNCHANGED vars
  BY <1>23 DEF vars
<1>24. QED
  BY <1>1, <1>2, <1>3, <1>4, <1>5, <1>6, <1>7, <1>8, <1>9, <1>10, <1>11, <1>12, <1>13, <1>14, <1>15, <1>16, <1>17, <1>18, <1>19, <1>20, <1>21, <1>22, <1>23 DEF Next, Accepting, Sweep, Task, Cast

-----------------------------------------------------------------------------
\* What the invariant says of one connection.
ConnInv(c) ==
    /\ life[c] = "unborn" => ~VectorRef(c) /\ task[c] = "none" /\ leaked[c] = 0
    /\ mlReferCount[c] = Count(VectorRef(c)) + Count(PoolRef(c))
                          + Count(task[c] = "handle") + leaked[c]
    /\ life[c] = "alive" <=> mlReferCount[c] > 0
    /\ life[c] = "alive" /\ ~mbCloseFlag[c] => VectorRef(c)
    /\ c \in closing => life[c] = "alive" /\ ~mbCloseFlag[c]

LEMMA IInvByConn ==
  IInv <=> TypeOK /\ Distinct(mvecClis) /\ Adding /\ \A c \in Cli : ConnInv(c)
  BY DEF IInv, Unborn, RefCountIsHolders, AliveIsCounted, Handles, ConnInv

\* A connection an action does not touch.
LEMMA Untouched ==
  ASSUME NEW c \in Cli, ConnInv(c),
         life'[c] = life[c], mlReferCount'[c] = mlReferCount[c],
         mbCloseFlag'[c] = mbCloseFlag[c], c \in closing' <=> c \in closing,
         task'[c] = task[c], leaked'[c] = leaked[c],
         VectorRef(c)' <=> VectorRef(c)
  PROVE  ConnInv(c)'
  BY DEF ConnInv, PoolRef, Count

\* The task thread of c moves on without giving back or taking a reference.
LEMMA TaskMoves ==
  ASSUME IInv, TypeOK',
         UNCHANGED <<object, handle, leaked, mvecClis, loop>>,
         NEW c \in Cli, task' = [task EXCEPT ![c] = task'[c]],
         PoolRef(c), PoolRef(c)', task'[c] # "handle", task[c] # "handle"
  PROVE  IInv'
<1> USE DEF object, handle, loop
<1>1. \A d \in Cli : (VectorRef(d)' <=> VectorRef(d)) /\ (InVector(d)' <=> InVector(d))
  BY DEF VectorRef, InVector
<1>2. task[c] # "none" /\ task'[c] # "none"
  BY DEF PoolRef
<1>3. Adding'
  BY <1>1, <1>2 DEF IInv, Adding, TypeOK
<1>4. ASSUME NEW d \in Cli PROVE ConnInv(d)'
  <2>1. CASE d = c
    <3>1. ConnInv(c)
      BY IInvByConn
    <3>2. life[c] # "unborn"
      BY <1>2, <3>1 DEF ConnInv
    <3>3. QED
      BY <1>1, <2>1, <3>1, <3>2 DEF ConnInv, Count
  <2>2. CASE d # c
    BY <1>1, <2>2, IInvByConn, Untouched DEF IInv, TypeOK
  <2>3. QED
    BY <2>1, <2>2
<1>5. Distinct(mvecClis)'
  BY DEF IInv
<1>6. QED
  BY <1>3, <1>4, <1>5 DEF IInv, Unborn, RefCountIsHolders, AliveIsCounted, Handles, ConnInv

\* Nothing the invariant speaks of changes, but for where the event loop is.
LEMMA NothingMoves ==
  ASSUME IInv, TypeOK',
         UNCHANGED <<object, handle, leaked, task, mvecClis, loopCli>>,
         loopPc' = loopPc \/ {loopPc, loopPc'} = {"idle", "sweep"}
  PROVE  IInv'
<1> USE DEF object, handle
<1>1. \A d \in Cli : (VectorRef(d)' <=> VectorRef(d)) /\ (InVector(d)' <=> InVector(d))
  BY DEF VectorRef, InVector
<1>2. loopPc' \in {"push", "insert"} <=> loopPc \in {"push", "insert"}
  OBVIOUS
<1>3. loopPc' = "push" => loopPc = "push"
  OBVIOUS
<1>4. Adding'
  BY <1>1, <1>2, <1>3 DEF IInv, Adding, TypeOK
<1>5. \A d \in Cli : ConnInv(d)'
  BY <1>1, IInvByConn, Untouched
<1>6. Distinct(mvecClis)'
  BY DEF IInv
<1>7. QED
  BY <1>4, <1>5, <1>6 DEF IInv, Unborn, RefCountIsHolders, AliveIsCounted, Handles, ConnInv

\* A step on one connection: what is left to show is what it does to that one.
LEMMA OneMoves ==
  ASSUME IInv, TypeOK', Adding', Distinct(mvecClis)', NEW c \in Cli, ConnInv(c)',
         \A d \in Cli \ {c} :
             /\ life'[d] = life[d] /\ mlReferCount'[d] = mlReferCount[d]
             /\ mbCloseFlag'[d] = mbCloseFlag[d] /\ (d \in closing' <=> d \in closing)
             /\ task'[d] = task[d] /\ leaked'[d] = leaked[d]
             /\ (VectorRef(d)' <=> VectorRef(d))
  PROVE  IInv'
<1>1. ASSUME NEW d \in Cli PROVE ConnInv(d)'
  <2>1. CASE d = c
    BY <2>1
  <2>2. CASE d # c
    BY <2>2, IInvByConn, Untouched
  <2>3. QED
    BY <2>1, <2>2
<1>2. QED
  BY <1>1 DEF IInv, Unborn, RefCountIsHolders, AliveIsCounted, Handles, ConnInv

-----------------------------------------------------------------------------
LEMMA AddCliStep ==
  ASSUME IInv, TypeOK', NEW c \in Cli, AddCli(c) PROVE IInv'
<1> USE DEF AddCli, handle, messages
<1>1. TypeOK /\ ConnInv(c) /\ Distinct(mvecClis) /\ Adding
  BY IInvByConn DEF IInv
<1>2. loopCli = {} /\ ~VectorRef(c) /\ task[c] = "none" /\ leaked[c] = 0
  BY <1>1 DEF Adding, ConnInv
<1>3. /\ ~InVector(c) /\ VectorRef(c)'
      /\ \A d \in Cli \ {c} : VectorRef(d)' <=> VectorRef(d)
  BY <1>2 DEF VectorRef, InVector
<1>4. mlReferCount[c] = 0
  <2>1. /\ Count(VectorRef(c)) = 0 /\ Count(PoolRef(c)) = 0 /\ Count(task[c] = "handle") = 0
        /\ leaked[c] = 0
    BY <1>2, Zenon DEF Count, PoolRef
  <2>2. QED
    BY <1>1, <2>1 DEF ConnInv
<1>5. Adding'
  BY <1>2, <1>3 DEF Adding, InVector
<1>6. ConnInv(c)'
  BY <1>1, <1>2, <1>3, <1>4 DEF ConnInv, PoolRef, Count, TypeOK
<1>7. QED
  BY <1>1, <1>3, <1>5, <1>6, OneMoves DEF TypeOK

LEMMA PushTaskStep ==
  ASSUME IInv, TypeOK', NEW c \in Cli, PushTask(c) PROVE IInv'
<1> USE DEF PushTask, REF, handle, messages
<1>1. TypeOK /\ ConnInv(c) /\ Distinct(mvecClis) /\ Adding
  BY IInvByConn DEF IInv
<1>2. task[c] = "none" /\ VectorRef(c)
  BY <1>1 DEF Adding, VectorRef
<1>3. \A d \in Cli : (VectorRef(d)' <=> VectorRef(d)) /\ (InVector(d)' <=> InVector(d))
  BY DEF VectorRef, InVector
<1>4. Adding'
  BY <1>1, <1>3 DEF Adding, TypeOK
<1>5. ConnInv(c)'
  BY <1>1, <1>2, <1>3 DEF ConnInv, PoolRef, Count, TypeOK
<1>6. QED
  BY <1>1, <1>3, <1>4, <1>5, OneMoves DEF TypeOK

LEMMA PushBackStep ==
  ASSUME IInv, TypeOK', NEW c \in Cli, PushBack(c) PROVE IInv'
<1> USE DEF PushBack, object, handle, messages
<1>1. TypeOK /\ ConnInv(c) /\ Distinct(mvecClis) /\ Adding
  BY IInvByConn DEF IInv
<1>2. loopCli = {c} /\ ~InVector(c)
  BY <1>1 DEF Adding, TypeOK
<1>3. Distinct(mvecClis)' /\ \A d : InVector(d)' <=> InVector(d) \/ d = c
  BY <1>1, <1>2, AppendDistinct DEF InVector, TypeOK
<1>4. \A d \in Cli : VectorRef(d)' <=> VectorRef(d)
  BY <1>2, <1>3 DEF VectorRef
<1>5. Adding'
  BY DEF Adding
<1>6. ConnInv(c)'
  BY <1>1, <1>4, Untouched
<1>7. QED
  BY <1>3, <1>4, <1>5, <1>6, OneMoves

LEMMA PeerClosesStep ==
  ASSUME IInv, TypeOK', NEW c \in Cli, PeerCloses(c) PROVE IInv'
<1> USE DEF PeerCloses, object, messages, loop
<1>1. TypeOK /\ ConnInv(c) /\ Distinct(mvecClis) /\ Adding
  BY IInvByConn DEF IInv
<1>2. \A d \in Cli : (VectorRef(d)' <=> VectorRef(d)) /\ (InVector(d)' <=> InVector(d))
  BY DEF VectorRef, InVector
<1>3. Adding'
  BY <1>1, <1>2 DEF Adding, TypeOK
<1>4. ConnInv(c)'
  BY <1>1, <1>2 DEF ConnInv, PoolRef, Count, Open
<1>5. QED
  BY <1>1, <1>2, <1>3, <1>4, OneMoves

LEMMA OnCloseStep ==
  ASSUME IInv, TypeOK', NEW c \in Cli, OnClose(c) PROVE IInv'
<1> USE DEF OnClose, object, messages, loop
<1>1. TypeOK /\ ConnInv(c) /\ Distinct(mvecClis) /\ Adding
  BY IInvByConn DEF IInv
<1>2. \A d \in Cli : (VectorRef(d)' <=> VectorRef(d)) /\ (InVector(d)' <=> InVector(d))
  BY DEF VectorRef, InVector
<1>3. Adding'
  BY <1>1, <1>2 DEF Adding, TypeOK
<1>4. ConnInv(c)'
  BY <1>1, <1>2 DEF ConnInv, PoolRef, Count, TypeOK
<1>5. QED
  BY <1>1, <1>2, <1>3, <1>4, OneMoves DEF TypeOK

\* UNREF at a positive count: the object is freed when the count gets to zero.
LEMMA UnrefValues ==
  ASSUME TypeOK, NEW c \in Cli, ConnInv(c), mlReferCount[c] >= 1, UNREF(c)
  PROVE  /\ mlReferCount'[c] = mlReferCount[c] - 1
         /\ life[c] = "alive"
         /\ life'[c] = IF mlReferCount'[c] = 0 THEN "freed" ELSE "alive"
         /\ \A d \in Cli \ {c} : mlReferCount'[d] = mlReferCount[d] /\ life'[d] = life[d]
<1>1. mlReferCount[c] \in Nat /\ life[c] = "alive"
  BY DEF TypeOK, ConnInv
<1>2. QED
  BY <1>1 DEF TypeOK, UNREF

LEMMA SweepClosedStep ==
  ASSUME IInv, TypeOK', SweepClosed PROVE IInv'
<1> USE DEF SweepClosed, handle, messages, loop
<1>0. PICK c \in Cli : c = mvecClis[iter]
  BY SweepPosition
<1>1. TypeOK /\ Distinct(mvecClis) /\ Adding
  BY DEF IInv
<1>2. iter \in 1 .. Len(mvecClis) /\ InVector(c)
  BY <1>0, SweepPosition
<1>3. ConnInv(c) /\ mbCloseFlag[c] /\ loopCli = {}
  BY <1>0, <1>1, IInvByConn DEF Adding, Sweeping
<1>4. Distinct(mvecClis)' /\ \A d : InVector(d)' <=> InVector(d) /\ d # c
  BY <1>0, <1>1, <1>2, RemoveAtDistinct DEF InVector, TypeOK
<1>5. /\ VectorRef(c) /\ ~VectorRef(c)'
      /\ \A d \in Cli \ {c} : VectorRef(d)' <=> VectorRef(d)
  BY <1>2, <1>3, <1>4 DEF VectorRef
<1>6. mlReferCount[c] \in Nat /\ mlReferCount[c] >= 1
  BY <1>2, <1>5, HeldIsCounted
<1>7. UNREF(c)
  BY <1>0
<1>8. /\ mlReferCount'[c] = mlReferCount[c] - 1
      /\ life[c] = "alive"
      /\ life'[c] = IF mlReferCount'[c] = 0 THEN "freed" ELSE "alive"
      /\ \A d \in Cli \ {c} : mlReferCount'[d] = mlReferCount[d] /\ life'[d] = life[d]
  BY <1>1, <1>2, <1>3, <1>6, <1>7, UnrefValues
<1>9. Adding'
  BY <1>1, <1>3 DEF Adding
<1>10. ConnInv(c)'
  <2>1. leaked[c] \in Nat
    BY <1>1, <1>2 DEF TypeOK
  <2>2. QED
    BY <1>3, <1>5, <1>6, <1>8, <2>1 DEF ConnInv, PoolRef, Count
<1>11. QED
  BY <1>2, <1>4, <1>5, <1>8, <1>9, <1>10, OneMoves

LEMMA SweepOpenStep ==
  ASSUME IInv, TypeOK', NEW timeout \in BOOLEAN, SweepOpen(timeout) PROVE IInv'
<1> USE DEF SweepOpen, object, messages
<1>0. PICK c \in Cli : c = mvecClis[iter]
  BY SweepPosition
<1>1. TypeOK /\ Distinct(mvecClis) /\ Adding
  BY DEF IInv
<1>2. InVector(c)
  BY <1>0, SweepPosition
<1>3. ConnInv(c) /\ ~mbCloseFlag[c]
  BY <1>0, IInvByConn
<1>4. \A d \in Cli : (VectorRef(d)' <=> VectorRef(d)) /\ (InVector(d)' <=> InVector(d))
  BY DEF VectorRef, InVector
<1>5. Adding'
  BY <1>1, <1>4 DEF Adding, TypeOK
<1>6. closing' \subseteq closing \cup {c} /\ closing \subseteq closing'
  BY <1>0
<1>7. life[c] = "alive"
  <2>1. life[c] # "unborn"
    BY <1>2, <1>3 DEF ConnInv, VectorRef
  <2>2. mlReferCount[c] >= 1
    BY <1>2, HeldIsCounted DEF VectorRef
  <2>3. mlReferCount[c] \in Nat
    BY <1>1, <1>2 DEF TypeOK
  <2>4. QED
    BY <1>3, <2>2, <2>3 DEF ConnInv
<1>8. ConnInv(c)'
  BY <1>2, <1>3, <1>4, <1>7 DEF ConnInv, PoolRef, Count
<1>9. QED
  BY <1>1, <1>2, <1>4, <1>5, <1>6, <1>8, OneMoves

LEMMA NewMsgStep ==
  ASSUME IInv, TypeOK', NEW c \in Cli, NewMsg(c) PROVE IInv'
<1> USE DEF NewMsg, REF, TaskGoes, handle, loop
<1>1. TypeOK /\ ConnInv(c) /\ Distinct(mvecClis) /\ Adding
  BY IInvByConn DEF IInv
<1>2. \A d \in Cli : (VectorRef(d)' <=> VectorRef(d)) /\ (InVector(d)' <=> InVector(d))
  BY DEF VectorRef, InVector
<1>3. Adding'
  BY <1>1, <1>2 DEF Adding, TypeOK
<1>4. mlReferCount[c] \in Nat /\ mlReferCount[c] >= 1
  BY HeldIsCounted DEF PoolRef
<1>5. ConnInv(c)'
  BY <1>1, <1>2, <1>4 DEF ConnInv, PoolRef, Count, TypeOK
<1>6. QED
  BY <1>1, <1>2, <1>3, <1>5, OneMoves DEF TypeOK

LEMMA DeleteMsgStep ==
  ASSUME IInv, TypeOK', NEW c \in Cli, DeleteMsg(c) PROVE IInv'
<1> USE DEF DeleteMsg, TaskGoes, handle, messages, loop
<1>1. TypeOK /\ ConnInv(c) /\ Distinct(mvecClis) /\ Adding
  BY IInvByConn DEF IInv
<1>2. \A d \in Cli : (VectorRef(d)' <=> VectorRef(d)) /\ (InVector(d)' <=> InVector(d))
  BY DEF VectorRef, InVector
<1>3. Adding'
  BY <1>1, <1>2 DEF Adding, TypeOK
<1>4. mlReferCount[c] \in Nat /\ mlReferCount[c] >= 1 /\ leaked[c] \in Nat
  BY <1>1, HeldIsCounted DEF TypeOK
<1>5. /\ mlReferCount'[c] = mlReferCount[c] - 1
      /\ life[c] = "alive"
      /\ life'[c] = IF mlReferCount'[c] = 0 THEN "freed" ELSE "alive"
      /\ \A d \in Cli \ {c} : mlReferCount'[d] = mlReferCount[d] /\ life'[d] = life[d]
  BY <1>1, <1>4, UnrefValues
<1>6. task[c] = "handle" /\ task'[c] = "parse"
  BY <1>1 DEF TypeOK
<1>7. mlReferCount'[c] >= 1
  BY <1>1, <1>4, <1>5, <1>6 DEF ConnInv, PoolRef, Count
<1>8. ConnInv(c)'
  BY <1>1, <1>2, <1>4, <1>5, <1>6, <1>7 DEF ConnInv, PoolRef, Count
<1>9. QED
  BY <1>1, <1>2, <1>3, <1>5, <1>8, OneMoves DEF TypeOK

LEMMA NoHandlerStep ==
  ASSUME IInv, TypeOK', NEW c \in Cli, NoHandler(c) PROVE IInv'
<1> USE DEF NoHandler, TaskGoes, object, handle, loop
<1>1. TypeOK /\ ConnInv(c) /\ Distinct(mvecClis) /\ Adding
  BY IInvByConn DEF IInv
<1>2. \A d \in Cli : (VectorRef(d)' <=> VectorRef(d)) /\ (InVector(d)' <=> InVector(d))
  BY DEF VectorRef, InVector
<1>3. Adding'
  BY <1>1, <1>2 DEF Adding, TypeOK
<1>4. ConnInv(c)'
  BY <1>1, <1>2 DEF ConnInv, PoolRef, Count, TypeOK
<1>5. QED
  BY <1>1, <1>2, <1>3, <1>4, OneMoves DEF TypeOK

LEMMA TaskQuitStep ==
  ASSUME IInv, TypeOK', NEW c \in Cli, TaskQuit(c) PROVE IInv'
<1> USE DEF TaskQuit, TaskGoes, handle, messages, loop
<1>1. TypeOK /\ ConnInv(c) /\ Distinct(mvecClis) /\ Adding
  BY IInvByConn DEF IInv
<1>2. \A d \in Cli : (VectorRef(d)' <=> VectorRef(d)) /\ (InVector(d)' <=> InVector(d))
  BY DEF VectorRef, InVector
<1>3. Adding'
  BY <1>1, <1>2 DEF Adding, TypeOK
<1>4. mlReferCount[c] \in Nat /\ mlReferCount[c] >= 1 /\ leaked[c] \in Nat
  BY <1>1, HeldIsCounted DEF TypeOK, PoolRef
<1>5. /\ mlReferCount'[c] = mlReferCount[c] - 1
      /\ life[c] = "alive"
      /\ life'[c] = IF mlReferCount'[c] = 0 THEN "freed" ELSE "alive"
      /\ \A d \in Cli \ {c} : mlReferCount'[d] = mlReferCount[d] /\ life'[d] = life[d]
  BY <1>1, <1>4, UnrefValues
<1>6. task[c] = "quit" /\ task'[c] = "done"
  BY <1>1 DEF TypeOK
<1>7. VectorRef(c) => mlReferCount'[c] >= 1
  BY <1>1, <1>4, <1>5, <1>6 DEF ConnInv, PoolRef, Count
<1>8. ConnInv(c)'
  BY <1>1, <1>2, <1>4, <1>5, <1>6, <1>7 DEF ConnInv, PoolRef, Count
<1>9. QED
  BY <1>1, <1>2, <1>3, <1>5, <1>8, OneMoves DEF TypeOK

LEMMA TaskMovesStep ==
  ASSUME IInv, TypeOK', NEW c \in Cli,
         DispatchTask(c) \/ TestClose(c) \/ Wait(c) \/ ParseDone(c)
  PROVE  IInv'
<1> USE DEF TaskGoes, data, messages
<1>1. TypeOK
  BY DEF IInv
<1>2. CASE DispatchTask(c)
  BY <1>1, <1>2, TaskMoves DEF DispatchTask, PoolRef, TypeOK
<1>3. CASE TestClose(c)
  <2>1. task'[c] \in {"quit", "wait"} /\ task' = [task EXCEPT ![c] = task'[c]] /\ task[c] = "test"
    BY <1>1, <1>3 DEF TestClose, TypeOK
  <2>2. QED
    BY <1>3, <2>1, TaskMoves DEF TestClose, PoolRef
<1>4. CASE Wait(c)
  BY <1>1, <1>4, TaskMoves DEF Wait, PoolRef, TypeOK
<1>5. CASE ParseDone(c)
  BY <1>1, <1>5, TaskMoves DEF ParseDone, PoolRef, TypeOK
<1>6. QED
  BY <1>2, <1>3, <1>4, <1>5

LEMMA OthersStep ==
  ASSUME IInv, TypeOK',
         \/ \E c \in Cli : OnRecv(c)
         \/ OnBaseTimer \/ SweepEnd \/ BroadCast \/ Cast \/ UNCHANGED vars
  PROVE  IInv'
<1> USE DEF object, handle, data, messages, loop, cast
<1>1. UNCHANGED <<object, handle, leaked, task, mvecClis, loopCli>>
  BY DEF OnRecv, OnBaseTimer, SweepEnd, BroadCast, Cast, CastCheck, CastSend, CastEnd, vars
<1>2. loopPc' = loopPc \/ {loopPc, loopPc'} = {"idle", "sweep"}
  BY DEF OnRecv, OnBaseTimer, SweepEnd, BroadCast, Cast, CastCheck, CastSend, CastEnd, vars
<1>3. QED
  BY <1>1, <1>2, NothingMoves

LEMMA Invariance == Spec => []IInv
<1>1. IInv /\ [Next]_vars => IInv'
  <2> SUFFICES ASSUME IInv, [Next]_vars PROVE IInv'
    OBVIOUS
  <2>1. TypeOK'
    BY TypeStep
  <2>2. ASSUME NEW c \in Cli, AddCli(c) \/ OnRecv(c) \/ PeerCloses(c) \/ OnClose(c) PROVE IInv'
    BY <2>1, <2>2, AddCliStep, OthersStep, PeerClosesStep, OnCloseStep
  <2>3. CASE Accepting
    BY <2>1, <2>3, PushTaskStep, PushBackStep DEF Accepting
  <2>4. CASE Sweep
    BY <2>1, <2>4, SweepClosedStep, SweepOpenStep, OthersStep DEF Sweep
  <2>5. ASSUME NEW c \in Cli, Task(c) PROVE IInv'
    BY <2>1, <2>5, TaskMovesStep, NewMsgStep, DeleteMsgStep, NoHandlerStep, TaskQuitStep DEF Task
  <2>6. CASE OnBaseTimer \/ BroadCast \/ Cast \/ UNCHANGED vars
    BY <2>1, <2>6, OthersStep
  <2>7. QED
    BY <2>2, <2>3, <2>4, <2>5, <2>6 DEF Next
<1>2. QED
  BY <1>1, InitIInv, PTL DEF Spec

-----------------------------------------------------------------------------
\* Every variable keeps its type; in particular no count is ever negative.
THEOREM TypeCorrect == Spec => []TypeOK
<1>1. IInv => TypeOK
  BY DEF IInv
<1>2. QED
  BY <1>1, Invariance, PTL

\* The reference count of every connection is the number of its holders.
THEOREM CountsHolders == Spec => []RefCountIsHolders
<1>1. IInv => RefCountIsHolders
  BY DEF IInv
<1>2. QED
  BY <1>1, Invariance, PTL

\* No thread reaches a connection after it was freed.
THEOREM MemorySafe == Spec => []NoUseAfterFree
<1>1. IInv => NoUseAfterFree
  <2> SUFFICES ASSUME IInv, NEW c \in Cli, VectorRef(c) \/ PoolRef(c) \/ c \in closing
               PROVE  life[c] = "alive"
    BY DEF NoUseAfterFree
  <2>1. ConnInv(c)
    BY IInvByConn
  <2>2. CASE c \in closing
    BY <2>1, <2>2 DEF ConnInv
  <2>3. CASE VectorRef(c) \/ PoolRef(c)
    <3>1. mlReferCount[c] \in Nat /\ mlReferCount[c] >= 1
      BY <2>3, HeldIsCounted
    <3>2. mlReferCount[c] > 0
      BY <3>1
    <3>3. QED
      BY <2>1, <3>2 DEF ConnInv
  <2>4. QED
    BY <2>2, <2>3
<1>2. QED
  BY <1>1, Invariance, PTL

\* A connection is freed with its last holder, a leaked message apart.
THEOREM NothingOrphaned == Spec => []NoOrphan
<1>1. IInv => NoOrphan
  <2> SUFFICES ASSUME IInv, NEW c \in Cli, life[c] = "alive", ~VectorRef(c), ~PoolRef(c)
               PROVE  leaked[c] > 0
    BY DEF NoOrphan
  <2>1. ConnInv(c) /\ leaked[c] \in Nat
    BY IInvByConn DEF IInv, TypeOK
  <2>2. task[c] # "handle"
    BY DEF PoolRef
  <2>3. QED
    BY <2>1, <2>2 DEF ConnInv, Count
<1>2. QED
  BY <1>1, Invariance, PTL
-----------------------------------------------------------------------------
(* The mutex of mvecClis. *)

\* Who is in mvecClis holds its mutex.
Exclusive ==
    /\ loopPc = "sweep" <=> vecMutex = "loop"
    /\ castPc # "idle" <=> vecMutex = "cast"

\* No step lets a second thread into mvecClis.
LEMMA ExclusiveStep == TypeOK /\ Exclusive /\ [Next]_vars => Exclusive'
<1> SUFFICES ASSUME TypeOK, Exclusive, [Next]_vars PROVE Exclusive'
  OBVIOUS
<1> USE DEF Exclusive, TypeOK, LoopPc, CastPc, loop, cast
<1>1. ASSUME NEW c \in Cli, AddCli(c) \/ OnRecv(c) \/ PeerCloses(c) \/ OnClose(c) PROVE Exclusive'
  BY <1>1 DEF AddCli, OnRecv, PeerCloses, OnClose
<1>2. CASE Accepting
  BY <1>2 DEF Accepting, PushTask, PushBack
<1>3. CASE OnBaseTimer \/ BroadCast
  BY <1>3 DEF OnBaseTimer, BroadCast
<1>4. CASE Sweep
  BY <1>4 DEF Sweep, Sweeping, SweepClosed, SweepOpen, SweepEnd
<1>5. CASE Cast
  BY <1>5 DEF Cast, CastCheck, CastSend, CastEnd
<1>6. ASSUME NEW c \in Cli, Task(c) PROVE Exclusive'
  BY <1>6 DEF Task, DispatchTask, TestClose, Wait, NewMsg, DeleteMsg, NoHandler, ParseDone, TaskQuit
<1>7. CASE UNCHANGED vars
  BY <1>7 DEF vars
<1>8. QED
  BY <1>1, <1>2, <1>3, <1>4, <1>5, <1>6, <1>7 DEF Next

LEMMA MutualExclusion == Spec => []Exclusive
<1>1. Init => Exclusive
  BY DEF Init, Exclusive
<1>2. IInv => TypeOK
  BY DEF IInv
<1>3. QED
  BY <1>1, <1>2, ExclusiveStep, Invariance, PTL DEF Spec

\* The iterator of BroadCast stays valid: nobody changes mvecClis before it is
\* at the end (WsServer.cpp:61-69).
THEOREM CastIsUndisturbed == Spec => CastKeepsVector
<1>1. TypeOK /\ Exclusive /\ [Next]_vars => [castPc # "idle" => mvecClis' = mvecClis]_vars
  <2> SUFFICES ASSUME TypeOK, Exclusive, Next, castPc # "idle" PROVE mvecClis' = mvecClis
    OBVIOUS
  <2>1. vecMutex = "cast" /\ loopPc # "sweep"
    BY DEF Exclusive
  <2>2. ASSUME NEW c \in Cli, AddCli(c) \/ OnRecv(c) \/ PeerCloses(c) \/ OnClose(c)
        PROVE  mvecClis' = mvecClis
    BY <2>2 DEF AddCli, OnRecv, PeerCloses, OnClose
  <2>3. CASE Accepting
    BY <2>1, <2>3 DEF Accepting, PushTask, PushBack
  <2>4. CASE OnBaseTimer \/ BroadCast \/ Sweep
    BY <2>1, <2>4 DEF OnBaseTimer, BroadCast, Sweep, Sweeping, SweepClosed, SweepOpen, SweepEnd
  <2>5. CASE Cast
    BY <2>5 DEF Cast, CastCheck, CastSend, CastEnd
  <2>6. ASSUME NEW c \in Cli, Task(c) PROVE mvecClis' = mvecClis
    BY <2>6 DEF Task, DispatchTask, TestClose, Wait, NewMsg, DeleteMsg, NoHandler, ParseDone, TaskQuit
  <2>7. QED
    BY <2>2, <2>3, <2>4, <2>5, <2>6 DEF Next
<1>2. IInv => TypeOK
  BY DEF IInv
<1>3. QED
  BY <1>1, <1>2, MutualExclusion, Invariance, PTL DEF Spec, CastKeepsVector

\* What is behind the iterator of the sweep is open: no closed connection is
\* skipped when the one before it was erased (WsServer.cpp:20-29).
THEOREM NoClosedIsSkipped == Spec => []SweepLeavesNoClosed
<1>1. Init => SweepLeavesNoClosed
  BY DEF Init, SweepLeavesNoClosed
<1>2. IInv /\ SweepLeavesNoClosed /\ [Next]_vars => SweepLeavesNoClosed'
  <2> SUFFICES ASSUME IInv, SweepLeavesNoClosed, [Next]_vars PROVE SweepLeavesNoClosed'
    OBVIOUS
  <2>0. TypeOK /\ mvecClis \in Seq(Cli) /\ iter \in Nat
    BY DEF IInv, TypeOK
  <2>1. CASE loopPc = "sweep" /\ UNCHANGED <<mbCloseFlag, mvecClis, loop>>
    BY <2>1 DEF SweepLeavesNoClosed, loop
  <2>2. CASE loopPc' # "sweep"
    BY <2>2 DEF SweepLeavesNoClosed
  <2>3. CASE OnBaseTimer
    BY <2>0, <2>3 DEF OnBaseTimer, SweepLeavesNoClosed
  <2>4. CASE SweepClosed
    <3>1. iter \in 1 .. Len(mvecClis)
      BY <2>4, SweepPosition DEF SweepClosed
    <3>2. /\ Len(mvecClis') = Len(mvecClis) - 1 /\ mvecClis' \in Seq(Cli)
          /\ \A i \in 1 .. Len(mvecClis) - 1 :
                mvecClis'[i] = IF i < iter THEN mvecClis[i] ELSE mvecClis[i + 1]
      BY <2>0, <2>4, <3>1, RemoveAtElements DEF SweepClosed
    <3>3. iter' = iter /\ mbCloseFlag' = mbCloseFlag /\ loopPc = "sweep"
      BY <2>4 DEF SweepClosed, Sweeping, handle, loop
    <3>4. QED
      BY <2>0, <3>1, <3>2, <3>3 DEF SweepLeavesNoClosed
  <2>5. ASSUME NEW timeout \in BOOLEAN, SweepOpen(timeout) PROVE SweepLeavesNoClosed'
    BY <2>0, <2>5 DEF SweepOpen, Sweeping, SweepLeavesNoClosed
  <2>6. ASSUME NEW c \in Cli, AddCli(c) \/ OnRecv(c) \/ PeerCloses(c) \/ OnClose(c)
        PROVE  loopPc' # "sweep"
    BY <2>6 DEF AddCli, OnRecv, PeerCloses, OnClose, loop
  <2>7. CASE Accepting
    BY <2>7, <2>2 DEF Accepting, PushTask, PushBack
  <2>8. ASSUME NEW c \in Cli, Task(c) PROVE UNCHANGED <<mbCloseFlag, mvecClis, loop>>
    BY <2>8 DEF Task, DispatchTask, TestClose, Wait, NewMsg, DeleteMsg, NoHandler, ParseDone,
                TaskQuit, handle
  <2>9. CASE BroadCast \/ Cast \/ UNCHANGED vars
    <3>1. UNCHANGED <<mbCloseFlag, mvecClis, loop>>
      BY <2>9 DEF BroadCast, Cast, CastCheck, CastSend, CastEnd, vars, handle
    <3>2. QED
      BY <2>1, <2>2, <3>1 DEF loop
  <2>10. CASE SweepEnd
    BY <2>2, <2>10 DEF SweepEnd
  <2>11. QED
    BY <2>1, <2>2, <2>3, <2>4, <2>5, <2>6, <2>7, <2>8, <2>9, <2>10 DEF Next, Sweep, loop
<1>3. QED
  BY <1>1, <1>2, Invariance, PTL DEF Spec

-----------------------------------------------------------------------------
(* The singletons. *)


Locked == {"while", "new", "construct", "store", "unlock"}

\* A thread is between Lock and UnLock exactly when it holds the mutex.
OneHoldsMutex == \A t \in Thread : pc[t] \in Locked <=> mcStaticMutex = t

\* What a thread knows at each place of Instance.
Place ==
    \A t \in Thread :
        /\ pc[t] = "new" => allocated = 0
        /\ pc[t] \in {"construct", "store"} =>
              mpInstance = NULL /\ allocated = 1 /\ new[t] = 1
        /\ pc[t] = "store" => 1 \in built
        /\ pc[t] \in {"unlock", "return"} => mpInstance # NULL

\* The only object is nobody's, in a thread's hand or in mpInstance.
Whole ==
    /\ allocated \in {0, 1}
    /\ mpInstance # NULL => mpInstance = 1 /\ allocated = 1 /\ 1 \in built
    /\ allocated = 1 /\ mpInstance = NULL =>
          \E t \in Thread : pc[t] \in {"construct", "store"}

InstanceInv == InstanceTypeOK /\ OneHoldsMutex /\ Place /\ Whole

LEMMA InstanceStarts == InstanceInit => InstanceInv
  BY ThreadAssumption DEF InstanceInit, InstanceInv, InstanceTypeOK, OneHoldsMutex, Place, Whole, Pc, Locked, NULL

\* One step of one thread, whichever it is, keeps the invariant.
LEMMA InstanceStep ==
  ASSUME InstanceInv, NEW t \in Thread, Call(t) \/ Instance(t)
  PROVE  InstanceInv'
<1> USE ThreadAssumption DEF InstanceInv, NULL, Goes
<1>1. CASE Call(t) \/ Check(t)
  <2>1. InstanceTypeOK'
    BY <1>1 DEF InstanceTypeOK, Pc, Call, Check
  <2>2. OneHoldsMutex'
    BY <1>1 DEF InstanceTypeOK, OneHoldsMutex, Locked, Call, Check
  <2>3. Place'
    BY <1>1 DEF InstanceTypeOK, Place, Call, Check
  <2>4. Whole'
    BY <1>1 DEF InstanceTypeOK, Whole, Call, Check
  <2> QED BY <2>1, <2>2, <2>3, <2>4
<1>2. CASE Lock(t)
  <2>1. InstanceTypeOK'
    BY <1>2 DEF InstanceTypeOK, Pc, Lock
  <2>2. OneHoldsMutex'
    BY <1>2 DEF InstanceTypeOK, OneHoldsMutex, Locked, Lock
  <2>3. Place'
    BY <1>2 DEF InstanceTypeOK, Place, Lock
  <2>4. Whole'
    BY <1>2 DEF InstanceTypeOK, Whole, Lock
  <2> QED BY <2>1, <2>2, <2>3, <2>4
<1>3. CASE While(t)
  \* t has the mutex, so nobody else has an object in hand.
  <2>1. mpInstance = NULL => allocated = 0
    BY <1>3 DEF OneHoldsMutex, Whole, Locked, While
  <2>2. InstanceTypeOK'
    BY <1>3 DEF InstanceTypeOK, Pc, While
  <2>3. OneHoldsMutex'
    BY <1>3 DEF InstanceTypeOK, OneHoldsMutex, Locked, While
  <2>4. Place'
    BY <1>3, <2>1 DEF InstanceTypeOK, Place, While
  <2>5. Whole'
    BY <1>3 DEF InstanceTypeOK, Whole, While
  <2> QED BY <2>2, <2>3, <2>4, <2>5
<1>4. CASE New(t)
  <2>1. allocated = 0 /\ mpInstance = NULL
    BY <1>4 DEF Place, Whole, New
  <2>2. \A u \in Thread \ {t} : pc[u] \notin Locked
    BY <1>4 DEF OneHoldsMutex, Locked, New
  <2>3. InstanceTypeOK'
    BY <1>4, <2>1 DEF InstanceTypeOK, Pc, New
  <2>4. OneHoldsMutex'
    BY <1>4 DEF InstanceTypeOK, OneHoldsMutex, Locked, New
  <2>5. Place'
    BY <1>4, <2>1, <2>2 DEF InstanceTypeOK, Place, Locked, New
  <2>6. Whole'
    BY <1>4, <2>1 DEF InstanceTypeOK, Whole, New
  <2> QED BY <2>3, <2>4, <2>5, <2>6
<1>5. CASE Construct(t)
  <2>1. allocated = 1 /\ new[t] = 1 /\ mpInstance = NULL
    BY <1>5 DEF Place, Construct
  <2>2. InstanceTypeOK'
    BY <1>5, <2>1 DEF InstanceTypeOK, Pc, Construct
  <2>3. OneHoldsMutex'
    BY <1>5 DEF InstanceTypeOK, OneHoldsMutex, Locked, Construct
  <2>4. Place'
    BY <1>5, <2>1 DEF InstanceTypeOK, Place, Construct
  <2>5. Whole'
    BY <1>5, <2>1 DEF InstanceTypeOK, Whole, Construct
  <2> QED BY <2>2, <2>3, <2>4, <2>5
<1>6. CASE Store(t)
  <2>1. allocated = 1 /\ new[t] = 1 /\ 1 \in built
    BY <1>6 DEF Place, Store
  <2>2. \A u \in Thread \ {t} : pc[u] \notin Locked
    BY <1>6 DEF OneHoldsMutex, Locked, Store
  <2>3. InstanceTypeOK'
    BY <1>6, <2>1 DEF InstanceTypeOK, Pc, Store
  <2>4. OneHoldsMutex'
    BY <1>6 DEF InstanceTypeOK, OneHoldsMutex, Locked, Store
  <2>5. Place'
    BY <1>6, <2>1, <2>2 DEF InstanceTypeOK, Place, Locked, Store
  <2>6. Whole'
    BY <1>6, <2>1 DEF InstanceTypeOK, Whole, Store
  <2> QED BY <2>3, <2>4, <2>5, <2>6
<1>7. CASE UnLock(t)
  <2>1. InstanceTypeOK'
    BY <1>7 DEF InstanceTypeOK, Pc, UnLock
  <2>2. OneHoldsMutex'
    BY <1>7 DEF InstanceTypeOK, OneHoldsMutex, Locked, UnLock
  <2>3. Place'
    BY <1>7 DEF InstanceTypeOK, Place, UnLock
  <2>4. Whole'
    BY <1>7 DEF InstanceTypeOK, Whole, UnLock
  <2> QED BY <2>1, <2>2, <2>3, <2>4
<1>8. CASE Return(t)
  <2>1. InstanceTypeOK'
    BY <1>8 DEF InstanceTypeOK, Pc, Return
  <2>2. OneHoldsMutex'
    BY <1>8 DEF InstanceTypeOK, OneHoldsMutex, Locked, Return
  <2>3. Place'
    BY <1>8 DEF InstanceTypeOK, Place, Return
  <2>4. Whole'
    BY <1>8 DEF InstanceTypeOK, Whole, Return
  <2> QED BY <2>1, <2>2, <2>3, <2>4
<1>9. QED
  BY <1>1, <1>2, <1>3, <1>4, <1>5, <1>6, <1>7, <1>8 DEF Instance

LEMMA InstanceStutters == ASSUME InstanceInv, UNCHANGED instanceVars PROVE InstanceInv'
  BY DEF InstanceInv, InstanceTypeOK, OneHoldsMutex, Place, Whole, instanceVars

LEMMA InstanceInvariance == InstanceSpec => []InstanceInv
<1>1. InstanceInv /\ [InstanceNext]_instanceVars => InstanceInv'
  BY InstanceStep, InstanceStutters DEF InstanceNext
<1>2. QED
  BY InstanceStarts, <1>1, PTL DEF InstanceSpec

\* The pointer, the mutex and the objects of a thread are what their types
\* say, whatever the interleaving of the calls of Instance.
THEOREM InstanceTyped == InstanceSpec => []InstanceTypeOK
  BY InstanceInvariance, PTL DEF InstanceInv

\* Instance runs new T() once, however many threads saw mpInstance NULL.
THEOREM OneInstance == InstanceSpec => []MadeOnce
<1>1. InstanceInv => MadeOnce
  BY DEF InstanceInv, Whole, MadeOnce
<1>2. QED
  BY InstanceInvariance, <1>1, PTL

\* At return mpInstance points to an object whose constructor has returned,
\* also for the threads that read it without the mutex.
THEOREM NeverHalfBuilt == InstanceSpec => []ReturnsBuilt
<1>1. InstanceInv => ReturnsBuilt
  BY DEF InstanceInv, Place, Whole, ReturnsBuilt
<1>2. QED
  BY InstanceInvariance, <1>1, PTL

\* Each step of Instance creates the object of Once, gets it, or stutters.
LEMMA InstanceRefines ==
  ASSUME InstanceInv, [InstanceNext]_instanceVars, InstanceInv' PROVE [OneObject!Next]_(OneObject!vars)
<1> USE DEF OneObject!Next, OneObject!vars, OneObject!Create, OneObject!Get, NULL
<1>6. Made = mpInstance /\ Made' = mpInstance'
  BY DEF InstanceInv, Whole, Made
<1>1. ASSUME NEW t \in Thread, Store(t) PROVE OneObject!Create
  BY <1>1, <1>6 DEF InstanceInv, Place, Store, Goes
<1>2. ASSUME NEW t \in Thread, Return(t) PROVE OneObject!Get(t)
  BY <1>2, <1>6 DEF InstanceInv, Place, Return, Goes
<1>3. ASSUME NEW t \in Thread,
             Call(t) \/ Check(t) \/ Lock(t) \/ While(t) \/ New(t) \/ Construct(t) \/ UnLock(t)
      PROVE  UNCHANGED OneObject!vars
  BY <1>3, <1>6 DEF Call, Check, Lock, While, New, Construct, UnLock
<1>4. CASE UNCHANGED instanceVars
  BY <1>4, <1>6 DEF instanceVars
<1>5. QED
  BY <1>1, <1>2, <1>3, <1>4 DEF InstanceNext, Instance

\* Instance implements an object that is created once, and whole before
\* anyone gets it.
THEOREM RefinesOnce == InstanceSpec => ImplementsOnce
<1>1. InstanceInit => OneObject!Init
  BY DEF InstanceInit, OneObject!Init, Made, NULL
<1>2. QED
  BY <1>1, InstanceInvariance, InstanceRefines, PTL DEF InstanceSpec, ImplementsOnce, OneObject!Spec
==============================================================================
