------------------------------- MODULE WsInput -------------------------------
(***************************************************************************)
(* The receive path of one connection: two threads, one shared buffer.     *)
(*                                                                         *)
(* The event-loop thread runs CWsCli::OnRecv, which appends what was read  *)
(* to mpRecvBuffer under mcRecvBufferMutex (CWsInput::PushMsg) and then    *)
(* posts mcUvSem.  The connection's task thread runs CWsCli::TaskExcute,   *)
(* which waits for the semaphore, moves the whole of mpRecvBuffer to the   *)
(* private cache under the mutex and parses (CWsInput::ProcMsg).           *)
(*                                                                         *)
(* A chunk is what one read callback carries: neither thread ever splits   *)
(* one, so a buffer is a sequence of chunks.  What the parser then         *)
(* consumes from the cache is the subject of WsMsgParse; here the cache    *)
(* keeps every chunk moved to it.                                          *)
(***************************************************************************)
EXTENDS Naturals, Sequences

CONSTANTS Chunk,        \* the values a read callback can carry
          MaxChunks     \* bound: read callbacks with data in one behaviour

ASSUME ChunkAssumption == Chunk # {}
ASSUME MaxChunksAssumption == MaxChunks \in Nat

VARIABLES mutex,        \* holder of mcRecvBufferMutex, or "free"
          sem,          \* value of mcUvSem
          mbCloseFlag,
          recvBuffer,   \* contents of mpRecvBuffer
          msgCache,     \* every chunk appended to mstMsgCache.pBuffer
          parsed,       \* how many chunks of msgCache ParseMsg was run on
          loopPc,       \* where the event-loop thread is in OnRecv
          taskPc,       \* where the task thread is in TaskExcute
          pBuf,         \* the chunk OnRecv was called with: <<>> or <<c>>
          received      \* history: every chunk OnRecv was called with

vars == <<mutex, sem, mbCloseFlag, recvBuffer, msgCache, parsed, loopPc,
          taskPc, pBuf, received>>

LoopPc == {"idle", "lock", "append", "unlock", "post"}
TaskPc == {"test", "wait", "lock", "move", "unlock", "parse", "done"}

Init == /\ mutex = "free"
        /\ sem = 0
        /\ mbCloseFlag = FALSE
        /\ recvBuffer = <<>>
        /\ msgCache = <<>>
        /\ parsed = 0
        /\ loopPc = "idle"
        /\ taskPc = "test"
        /\ pBuf = <<>>
        /\ received = <<>>

LoopGoes(from, to) == loopPc = from /\ loopPc' = to
TaskGoes(from, to) == taskPc = from /\ taskPc' = to

-----------------------------------------------------------------------------
(* The event-loop thread. *)

\* A read callback with data.  libuv calls none on a closed handle, and the
\* callback with nRead <= 0 changes nothing, so it is no action.
OnRecv(c) ==
    /\ ~mbCloseFlag
    /\ Len(received) < MaxChunks
    /\ LoopGoes("idle", "lock")
    /\ pBuf' = <<c>>
    /\ received' = Append(received, c)
    /\ UNCHANGED <<mutex, sem, mbCloseFlag, recvBuffer, msgCache, parsed, taskPc>>

PushLock ==
    /\ LoopGoes("lock", "append")
    /\ mutex = "free"
    /\ mutex' = "loop"
    /\ UNCHANGED <<sem, mbCloseFlag, recvBuffer, msgCache, parsed, taskPc, pBuf, received>>

PushAppend ==
    /\ LoopGoes("append", "unlock")
    /\ recvBuffer' = recvBuffer \o pBuf
    /\ pBuf' = <<>>
    /\ UNCHANGED <<mutex, sem, mbCloseFlag, msgCache, parsed, taskPc, received>>

\* Mutant: OnRecv returns without the post.
PushUnLock_NoPost ==
    /\ LoopGoes("unlock", "idle")
    /\ mutex' = "free"
    /\ UNCHANGED <<sem, mbCloseFlag, recvBuffer, msgCache, parsed, taskPc, pBuf, received>>

PushUnLock ==
    /\ LoopGoes("unlock", "post")
    /\ mutex' = "free"
    /\ UNCHANGED <<sem, mbCloseFlag, recvBuffer, msgCache, parsed, taskPc, pBuf, received>>

Post ==
    /\ LoopGoes("post", "idle")
    /\ sem' = sem + 1
    /\ UNCHANGED <<mutex, mbCloseFlag, recvBuffer, msgCache, parsed, taskPc, pBuf, received>>

\* The close callback of the handle.  It only sets the flag: nothing is
\* posted, so a task thread asleep in Wait is not told.
OnClose ==
    /\ ~mbCloseFlag
    /\ loopPc = "idle"
    /\ mbCloseFlag' = TRUE
    /\ UNCHANGED <<mutex, sem, recvBuffer, msgCache, parsed, loopPc, taskPc, pBuf, received>>

-----------------------------------------------------------------------------
(* The task thread. *)


\* The condition of the loop of TaskExcute.
TestClose ==
    /\ taskPc = "test"
    /\ taskPc' = IF mbCloseFlag THEN "done" ELSE "wait"
    /\ UNCHANGED <<mutex, sem, mbCloseFlag, recvBuffer, msgCache, parsed, loopPc, pBuf, received>>

Wait ==
    /\ TaskGoes("wait", "lock")
    /\ sem > 0
    /\ sem' = sem - 1
    /\ UNCHANGED <<mutex, mbCloseFlag, recvBuffer, msgCache, parsed, loopPc, pBuf, received>>

ProcLock ==
    /\ TaskGoes("lock", "move")
    /\ mutex = "free"
    /\ mutex' = "task"
    /\ UNCHANGED <<sem, mbCloseFlag, recvBuffer, msgCache, parsed, loopPc, pBuf, received>>

\* Mutant: the receive buffer is not reset after it was copied.
ProcMove_NoReset ==
    /\ TaskGoes("move", "unlock")
    /\ msgCache' = msgCache \o recvBuffer
    /\ UNCHANGED <<mutex, sem, mbCloseFlag, recvBuffer, parsed, loopPc, pBuf, received>>

\* Mutant: what arrived last is put in front of what is still in the cache.
ProcMove_Prepends ==
    /\ TaskGoes("move", "unlock")
    /\ msgCache' = recvBuffer \o msgCache
    /\ recvBuffer' = <<>>
    /\ UNCHANGED <<mutex, sem, mbCloseFlag, parsed, loopPc, pBuf, received>>

ProcMove ==
    /\ TaskGoes("move", "unlock")
    /\ msgCache' = msgCache \o recvBuffer
    /\ recvBuffer' = <<>>
    /\ UNCHANGED <<mutex, sem, mbCloseFlag, parsed, loopPc, pBuf, received>>

ProcUnLock ==
    /\ TaskGoes("unlock", "parse")
    /\ mutex' = "free"
    /\ UNCHANGED <<sem, mbCloseFlag, recvBuffer, msgCache, parsed, loopPc, pBuf, received>>

ParseMsg ==
    /\ TaskGoes("parse", "test")
    /\ parsed' = Len(msgCache)
    /\ UNCHANGED <<mutex, sem, mbCloseFlag, recvBuffer, msgCache, loopPc, pBuf, received>>

-----------------------------------------------------------------------------
Loop == PushLock \/ PushAppend \/ PushUnLock \/ Post
Task == TestClose \/ Wait \/ ProcLock \/ ProcMove \/ ProcUnLock \/ ParseMsg

Next == \/ \E c \in Chunk : OnRecv(c)
        \/ Loop
        \/ OnClose
        \/ Task

\* A thread that can run does run; no data need arrive and no handle need
\* close.  The mutex is contended, so a thread that finds it free again and
\* again gets it (uv_mutex is not starved by two threads that let go of it).
Fairness == /\ WF_vars(Loop) /\ SF_vars(PushLock)
            /\ WF_vars(Task) /\ SF_vars(ProcLock)

Spec == Init /\ [][Next]_vars /\ Fairness

-----------------------------------------------------------------------------
TypeOK ==
    /\ mutex \in {"free", "loop", "task"}
    /\ sem \in Nat
    /\ mbCloseFlag \in BOOLEAN
    /\ recvBuffer \in Seq(Chunk)
    /\ msgCache \in Seq(Chunk)
    /\ parsed \in Nat
    /\ loopPc \in LoopPc
    /\ taskPc \in TaskPc
    /\ pBuf \in Seq(Chunk)
    /\ received \in Seq(Chunk)

\* Only the holder of mcRecvBufferMutex is between Lock and UnLock, so the
\* Append of PushMsg and the Append/SetBuffLen(0) of ProcMsg never overlap.
BufferExclusive ==
    /\ loopPc \in {"append", "unlock"} <=> mutex = "loop"
    /\ taskPc \in {"move", "unlock"} <=> mutex = "task"

\* No byte that OnRecv was given is lost, repeated or reordered on its way
\* through mpRecvBuffer into the cache of the parser.
NothingLost == (msgCache \o recvBuffer) \o pBuf = received

\* No lost wakeup: data left in mpRecvBuffer is always announced, by a post
\* that is still to be taken, by the push about to post, or because the
\* task thread is already on its way to move the buffer.
Announced ==
    recvBuffer # <<>> => \/ sem > 0
                         \/ loopPc \in {"unlock", "post"}
                         \/ taskPc \in {"lock", "move"}

\* The task thread goes back to sleep only after it ran the parser on all
\* that it moved.
ParsedAll == taskPc \in {"test", "wait", "lock", "move", "done"} => parsed = Len(msgCache)

\* When the task thread sleeps, nothing is posted and no push is under way,
\* everything that was ever received has been given to the parser.
SleepsOnlyWhenDone ==
    taskPc = "wait" /\ sem = 0 /\ loopPc = "idle" => parsed = Len(received)



\* OnClose posts nothing: a task thread that is asleep with no post pending
\* when its connection closes is not woken by the close, and stays in Wait for good, and with it the thread
\* and the reference its pool holds on the connection.
AsleepStaysAsleep ==
    [][mbCloseFlag' /\ taskPc = "wait" /\ sem = 0 => taskPc' = "wait" /\ sem' = 0]_vars

Pipe == INSTANCE ChunkPipe WITH seen <- SubSeq(msgCache, 1, parsed),
                                shut <- mbCloseFlag

\* The two threads, the mutex and the semaphore implement a pipe of chunks
\* from the socket to the parser.
ImplementsPipe == Pipe!Spec
==============================================================================
