------------------------------ MODULE WsServer ------------------------------
(***************************************************************************)
(* The life of the connections of the server: accepted on the event-loop   *)
(* thread, served by a task thread each, swept by the base timer, written  *)
(* to by BroadCast from any thread, and freed when the last reference is   *)
(* given back.                                                             *)
(*                                                                         *)
(* A CWsCli is a counted object: CWsServer::mvecClis holds a reference     *)
(* (AddCli), every CWsMsg holds one (its constructor and destructor), and  *)
(* the task pool holds one from PushTask until the task quit.  The pool    *)
(* and the close of a handle are libraries: a CTask is a CRcObject, and    *)
(* libuv runs a pending close callback before it runs timers again.        *)
(***************************************************************************)
EXTENDS Integers, Sequences, SequencesExt, FiniteSets

CONSTANTS Cli,          \* the connections that may be accepted
          MaxData,      \* bound: read callbacks with data, per connection
          MaxMsgs       \* bound: messages made, per connection

ASSUME CliAssumption == IsFiniteSet(Cli)
ASSUME BoundsAssumption == MaxData \in Nat /\ MaxMsgs \in Nat

VARIABLES life,         \* "unborn", "alive" or "freed"
          mlReferCount,
          mbCloseFlag,
          closing,      \* connections whose close callback is pending
          sem,          \* value of mcUvSem
          reads,        \* how often mcUvSem was posted
          task,         \* where the task thread of a connection is
          made,         \* messages made of what the connection sent
          leaked,       \* messages whose handler was not found
          mvecClis,
          vecMutex,     \* holder of mcvecClisMutex: "free", "loop" or "cast"
          loopPc,       \* where the event-loop thread is
          loopCli,      \* the connection AddCli works on: {} or {c}
          iter,         \* position of OnBaseTimer in mvecClis
          castPc,       \* where the thread in BroadCast is
          castIter      \* its position in mvecClis

object == <<life, mlReferCount>>
handle == <<mbCloseFlag, closing>>
data == <<sem, reads>>
messages == <<made, leaked>>
loop == <<loopPc, loopCli, iter>>
cast == <<castPc, castIter>>
vars == <<object, handle, data, task, messages, mvecClis, vecMutex, loop, cast>>

LoopPc == {"idle", "push", "insert", "sweep"}
CastPc == {"idle", "check", "send"}
TaskPc == {"none", "queued", "test", "wait", "parse", "handle", "quit", "done"}

Init == /\ life = [c \in Cli |-> "unborn"]
        /\ mlReferCount = [c \in Cli |-> 0]
        /\ mbCloseFlag = [c \in Cli |-> FALSE]
        /\ closing = {}
        /\ sem = [c \in Cli |-> 0]
        /\ reads = [c \in Cli |-> 0]
        /\ task = [c \in Cli |-> "none"]
        /\ made = [c \in Cli |-> 0]
        /\ leaked = [c \in Cli |-> 0]
        /\ mvecClis = <<>>
        /\ vecMutex = "free"
        /\ loopPc = "idle"
        /\ loopCli = {}
        /\ iter = 1
        /\ castPc = "idle"
        /\ castIter = 1

\* IncRef and the UNREF macro, which deletes the object when DecRef returns
\* zero or less.
REF(c) == /\ mlReferCount' = [mlReferCount EXCEPT ![c] = @ + 1]
          /\ UNCHANGED life

UNREF(c) ==
    /\ mlReferCount' = [mlReferCount EXCEPT ![c] = @ - 1]
    /\ life' = IF mlReferCount[c] - 1 <= 0 THEN [life EXCEPT ![c] = "freed"] ELSE life

-----------------------------------------------------------------------------
(* The event-loop thread: accepting. *)

\* OnAccept: AddCli makes the connection and takes the reference of mvecClis.
AddCli(c) ==
    /\ loopPc = "idle"
    /\ life[c] = "unborn"
    /\ life' = [life EXCEPT ![c] = "alive"]
    /\ mlReferCount' = [mlReferCount EXCEPT ![c] = @ + 1]
    /\ loopPc' = "push"
    /\ loopCli' = {c}
    /\ UNCHANGED <<handle, data, task, messages, mvecClis, vecMutex, iter, cast>>

\* Mutant: the pool keeps a bare pointer.
PushTask_NoRef(c) ==
    /\ loopPc = "push"
    /\ c \in loopCli
    /\ task' = [task EXCEPT ![c] = "queued"]
    /\ loopPc' = "insert"
    /\ UNCHANGED <<object, handle, data, messages, mvecClis, vecMutex, loopCli, iter, cast>>

\* sUvTaskPool->PushTask: the pool holds a reference from here on.
PushTask(c) ==
    /\ loopPc = "push"
    /\ c \in loopCli
    /\ REF(c)
    /\ task' = [task EXCEPT ![c] = "queued"]
    /\ loopPc' = "insert"
    /\ UNCHANGED <<handle, data, messages, mvecClis, vecMutex, loopCli, iter, cast>>

PushBack(c) ==
    /\ loopPc = "insert"
    /\ c \in loopCli
    /\ vecMutex = "free"
    /\ mvecClis' = Append(mvecClis, c)
    /\ loopPc' = "idle"
    /\ loopCli' = {}
    /\ UNCHANGED <<object, handle, data, task, messages, vecMutex, iter, cast>>

-----------------------------------------------------------------------------
(* The event-loop thread: reads and closes. *)

\* A connection whose handle is open.
Open(c) == life[c] = "alive" /\ c \notin closing /\ ~mbCloseFlag[c]

\* OnRecv with data posts mcUvSem (WsInput has the steps).
OnRecv(c) ==
    /\ loopPc = "idle"
    /\ Open(c)
    /\ reads[c] < MaxData
    /\ reads' = [reads EXCEPT ![c] = @ + 1]
    /\ sem' = [sem EXCEPT ![c] = @ + 1]
    /\ UNCHANGED <<object, handle, task, messages, mvecClis, vecMutex, loop, cast>>

\* The peer is gone, or the read failed: the library closes the handle.
PeerCloses(c) ==
    /\ loopPc = "idle"
    /\ Open(c)
    /\ closing' = closing \cup {c}
    /\ UNCHANGED <<object, mbCloseFlag, data, task, messages, mvecClis, vecMutex, loop, cast>>

\* The close callback.
OnClose(c) ==
    /\ loopPc = "idle"
    /\ c \in closing
    /\ closing' = closing \ {c}
    /\ mbCloseFlag' = [mbCloseFlag EXCEPT ![c] = TRUE]
    /\ UNCHANGED <<object, data, task, messages, mvecClis, vecMutex, loop, cast>>

-----------------------------------------------------------------------------
(* The event-loop thread: the sweep of the base timer. *)

OnBaseTimer ==
    /\ loopPc = "idle"
    /\ closing = {}
    /\ vecMutex = "free"
    /\ vecMutex' = "loop"
    /\ loopPc' = "sweep"
    /\ iter' = 1
    /\ UNCHANGED <<object, handle, data, task, messages, mvecClis, loopCli, cast>>

Sweeping == loopPc = "sweep" /\ iter <= Len(mvecClis)

\* Mutant: the iterator is moved on after an erase.
SweepClosed_SkipsNext ==
    /\ Sweeping
    /\ mbCloseFlag[mvecClis[iter]]
    /\ UNREF(mvecClis[iter])
    /\ mvecClis' = RemoveAt(mvecClis, iter)
    /\ iter' = iter + 1
    /\ UNCHANGED <<handle, data, task, messages, vecMutex, loopPc, loopCli, cast>>

\* Mutant: a closed connection is stepped over.
SweepClosed_NoErase ==
    /\ Sweeping
    /\ mbCloseFlag[mvecClis[iter]]
    /\ iter' = iter + 1
    /\ UNCHANGED <<object, handle, data, task, messages, mvecClis, vecMutex,
                   loopPc, loopCli, cast>>

\* A closed connection leaves mvecClis, and with it goes its reference.
SweepClosed ==
    /\ Sweeping
    /\ mbCloseFlag[mvecClis[iter]]
    /\ UNREF(mvecClis[iter])
    /\ mvecClis' = RemoveAt(mvecClis, iter)
    /\ UNCHANGED <<handle, data, task, messages, vecMutex, loop, cast>>

\* OnTick closes a connection that was not active for WS_KEEP_ALIVE_SEC.
SweepOpen(timeout) ==
    /\ Sweeping
    /\ ~mbCloseFlag[mvecClis[iter]]
    /\ closing' = IF timeout THEN closing \cup {mvecClis[iter]} ELSE closing
    /\ iter' = iter + 1
    /\ UNCHANGED <<object, mbCloseFlag, data, task, messages, mvecClis, vecMutex,
                   loopPc, loopCli, cast>>

SweepEnd ==
    /\ loopPc = "sweep"
    /\ iter > Len(mvecClis)
    /\ loopPc' = "idle"
    /\ vecMutex' = "free"
    /\ UNCHANGED <<object, handle, data, task, messages, mvecClis, loopCli, iter, cast>>

-----------------------------------------------------------------------------
(* The task thread of a connection. *)

TaskGoes(c, from, to) == task[c] = from /\ task' = [task EXCEPT ![c] = to]

\* The pool gives the task a thread.
DispatchTask(c) ==
    /\ TaskGoes(c, "queued", "test")
    /\ UNCHANGED <<object, handle, data, messages, mvecClis, vecMutex, loop, cast>>

TestClose(c) ==
    /\ TaskGoes(c, "test", IF mbCloseFlag[c] THEN "quit" ELSE "wait")
    /\ UNCHANGED <<object, handle, data, messages, mvecClis, vecMutex, loop, cast>>

Wait(c) ==
    /\ TaskGoes(c, "wait", "parse")
    /\ sem[c] > 0
    /\ sem' = [sem EXCEPT ![c] = @ - 1]
    /\ UNCHANGED <<object, handle, reads, messages, mvecClis, vecMutex, loop, cast>>

\* ParseMsg found a message: the new CWsMsg refers to the connection.
NewMsg(c) ==
    /\ TaskGoes(c, "parse", "handle")
    /\ made[c] < MaxMsgs
    /\ made' = [made EXCEPT ![c] = @ + 1]
    /\ REF(c)
    /\ UNCHANGED <<handle, data, leaked, mvecClis, vecMutex, loop, cast>>

\* Mutant: the destructor of CWsMsg leaves the count alone.
DeleteMsg_KeepsRef(c) ==
    /\ TaskGoes(c, "handle", "parse")
    /\ UNCHANGED <<object, handle, data, messages, mvecClis, vecMutex, loop, cast>>

\* The handler answered, or the frame type asks for none: the message is
\* deleted and gives its reference back.
DeleteMsg(c) ==
    /\ TaskGoes(c, "handle", "parse")
    /\ UNREF(c)
    /\ UNCHANGED <<handle, data, messages, mvecClis, vecMutex, loop, cast>>

\* There is no handler for the protocol: the assertion returns before the
\* message is deleted.
NoHandler(c) ==
    /\ TaskGoes(c, "handle", "parse")
    /\ leaked' = [leaked EXCEPT ![c] = @ + 1]
    /\ UNCHANGED <<object, handle, data, made, mvecClis, vecMutex, loop, cast>>

ParseDone(c) ==
    /\ TaskGoes(c, "parse", "test")
    /\ UNCHANGED <<object, handle, data, messages, mvecClis, vecMutex, loop, cast>>

\* TaskExcute returned: the pool gives its reference back.
TaskQuit(c) ==
    /\ TaskGoes(c, "quit", "done")
    /\ UNREF(c)
    /\ UNCHANGED <<handle, data, messages, mvecClis, vecMutex, loop, cast>>

-----------------------------------------------------------------------------
(* A thread in BroadCast. *)

BroadCast ==
    /\ castPc = "idle"
    /\ vecMutex = "free"
    /\ vecMutex' = "cast"
    /\ castPc' = "check"
    /\ castIter' = 1
    /\ UNCHANGED <<object, handle, data, task, messages, mvecClis, loop>>

CastCheck ==
    /\ castPc = "check"
    /\ castIter <= Len(mvecClis)
    /\ IF mbCloseFlag[mvecClis[castIter]]
       THEN castIter' = castIter + 1 /\ UNCHANGED castPc
       ELSE castPc' = "send" /\ UNCHANGED castIter
    /\ UNCHANGED <<object, handle, data, task, messages, mvecClis, vecMutex, loop>>

\* Send to the connection found open, which may have been closed since.
CastSend ==
    /\ castPc = "send"
    /\ castPc' = "check"
    /\ castIter' = castIter + 1
    /\ UNCHANGED <<object, handle, data, task, messages, mvecClis, vecMutex, loop>>

CastEnd ==
    /\ castPc = "check"
    /\ castIter > Len(mvecClis)
    /\ castPc' = "idle"
    /\ vecMutex' = "free"
    /\ UNCHANGED <<object, handle, data, task, messages, mvecClis, castIter, loop>>

-----------------------------------------------------------------------------
Accepting == \E c \in Cli : PushTask(c) \/ PushBack(c)
Sweep == SweepClosed \/ (\E timeout \in BOOLEAN : SweepOpen(timeout)) \/ SweepEnd
Task(c) == \/ DispatchTask(c) \/ TestClose(c) \/ Wait(c)
           \/ NewMsg(c) \/ DeleteMsg(c) \/ NoHandler(c) \/ ParseDone(c)
           \/ TaskQuit(c)
Cast == CastCheck \/ CastSend \/ CastEnd

Next == \/ \E c \in Cli : AddCli(c) \/ OnRecv(c) \/ PeerCloses(c) \/ OnClose(c)
        \/ Accepting
        \/ OnBaseTimer
        \/ Sweep
        \/ \E c \in Cli : Task(c)
        \/ BroadCast
        \/ Cast

\* Every thread that can run does.  The base timer repeats every second and
\* its callback is run, a pending close callback too; BroadCast may be called
\* again and again, and the event loop still gets the mutex.
Fairness == /\ WF_vars(Accepting) /\ SF_vars(\E c \in Cli : PushBack(c))
            /\ \A c \in Cli : WF_vars(OnClose(c))
            /\ SF_vars(OnBaseTimer)
            /\ WF_vars(Sweep)
            /\ WF_vars(Cast)
            /\ \A c \in Cli : WF_vars(Task(c))

Spec == Init /\ [][Next]_vars /\ Fairness

-----------------------------------------------------------------------------
InVector(c) == c \in Range(mvecClis)

\* mvecClis has, or is about to get, the reference that AddCli took.
VectorRef(c) == InVector(c) \/ c \in loopCli

PoolRef(c) == task[c] \notin {"none", "done"}

Count(b) == IF b THEN 1 ELSE 0

TypeOK ==
    /\ life \in [Cli -> {"unborn", "alive", "freed"}]
    /\ mlReferCount \in [Cli -> Nat]
    /\ mbCloseFlag \in [Cli -> BOOLEAN]
    /\ closing \subseteq Cli
    /\ sem \in [Cli -> Nat]
    /\ reads \in [Cli -> Nat]
    /\ task \in [Cli -> TaskPc]
    /\ made \in [Cli -> Nat]
    /\ leaked \in [Cli -> Nat]
    /\ mvecClis \in Seq(Cli)
    /\ vecMutex \in {"free", "loop", "cast"}
    /\ loopPc \in LoopPc
    /\ loopCli \subseteq Cli
    /\ iter \in Nat \ {0}
    /\ castPc \in CastPc
    /\ castIter \in Nat \ {0}

\* The count of a connection is the number of its holders: mvecClis, the
\* pool, the message being handled and the messages never deleted.
RefCountIsHolders ==
    \A c \in Cli :
        mlReferCount[c] = Count(VectorRef(c)) + Count(PoolRef(c))
                          + Count(task[c] = "handle") + leaked[c]

\* Nobody reaches a connection that was freed: not the event loop through
\* mvecClis or a pending close callback, not the task thread, not BroadCast.
NoUseAfterFree ==
    \A c \in Cli :
        VectorRef(c) \/ PoolRef(c) \/ c \in closing => life[c] = "alive"

\* A connection without a holder was freed (or never existed): nothing but a
\* message that was never deleted or a task that never ends keeps one alive.
NoOrphan ==
    \A c \in Cli :
        life[c] = "alive" => VectorRef(c) \/ PoolRef(c) \/ leaked[c] > 0

\* The sweep passes over no closed connection: erase gives the position of
\* the next one, which must not be skipped.
SweepLeavesNoClosed ==
    loopPc = "sweep" => \A i \in DOMAIN mvecClis : i < iter => ~mbCloseFlag[mvecClis[i]]

\* BroadCast's iterator stays valid between its check and its Send: no other
\* thread changes mvecClis meanwhile.
CastKeepsVector ==
    [][castPc # "idle" => mvecClis' = mvecClis]_vars

\* A closed connection leaves mvecClis.
ClosedLeavesVector ==
    \A c \in Cli : mbCloseFlag[c] ~> ~InVector(c)

\* The memory of a closed connection is reclaimed, unless its task thread
\* sleeps (OnClose does not wake it) or one of its messages was leaked.
Reclaimed ==
    \A c \in Cli :
        mbCloseFlag[c] ~> \/ life[c] = "freed"
                          \/ task[c] = "wait" /\ sem[c] = 0
                          \/ leaked[c] > 0
==============================================================================
