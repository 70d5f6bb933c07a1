------------------------------- MODULE PfSend -------------------------------
(***************************************************************************)
(* The send side of one connection of PushFramework                        *)
(* (private/PhysicalConnection.cpp and PhysicalConnection_Win.cpp).        *)
(* Services and the streamer serialize packets into oBuffer; at most one   *)
(* WSASend at a time takes its first bytes; a worker that is told of the   *)
(* completion pops them and posts the next one.  A close that waits for    *)
(* pending packets leaves the socket to the last completion.               *)
(*                                                                         *)
(* Every method holds csLock for its whole body and is one action.  A byte *)
(* is named by its packet and its place in it.                             *)
(***************************************************************************)
EXTENDS Integers, Sequences

CONSTANTS Packets,         \* packets pushed, by number
          SizeOf,          \* bytes of a serialized packet
          Broadcast,       \* the ones the streamer sends, the least first
          BufferSize,      \* uIntermediateSendBufferSize
          SendBufferSize,  \* uSendBufferSize
          MaxIo            \* bound: completions that are being handled

ASSUME SendAssumption ==
    /\ Packets \subseteq Nat /\ SizeOf \in [Packets -> Nat \ {0}] /\ Broadcast \subseteq Packets
    /\ BufferSize \in Nat \ {0} /\ SendBufferSize \in Nat \ {0} /\ MaxIo \in Nat

VARIABLES status,     \* "Connected" stands for Attached too
          oBuffer,    \* the bytes in the intermediate buffer
          posted,     \* the bytes of the WSASend under way, <<>> if none
          writing,    \* bWriteInProgress
          completed,  \* bytes a completion reports that no worker has handled
          io,         \* ioWorkersReferenceCounter, writes only
          handled,    \* workers past OnSendCompleted that have yet to decrement
          todo,       \* packets that nobody has to push again
          accepted,   \* history: every byte that went into oBuffer
          wire,       \* history: every byte the network took
          failed,     \* history: a WSASend failed
          waited      \* history: Close(true) was called on the open connection

buffers == <<oBuffer, posted, writing, io>>
history == <<accepted, wire, failed, waited>>
vars == <<status, buffers, completed, handled, todo, history>>

Byte == Packets \X Nat
Prefix(s, n) == SubSeq(s, 1, n)
Rest(s, n) == SubSeq(s, n + 1, Len(s))

TypeOK ==
    /\ status \in {"Connected", "WaitingForWrite", "Disposable"}
    /\ oBuffer \in Seq(Byte) /\ posted \in Seq(Byte)
    /\ accepted \in Seq(Byte) /\ wire \in Seq(Byte)
    /\ Len(oBuffer) <= BufferSize /\ Len(posted) <= SendBufferSize
    /\ completed \in 0 .. SendBufferSize
    /\ io \in Nat /\ handled \in Nat /\ todo \subseteq Packets
    /\ writing \in BOOLEAN /\ failed \in BOOLEAN /\ waited \in BOOLEAN

Init ==
    /\ status = "Connected"
    /\ oBuffer = <<>> /\ posted = <<>> /\ accepted = <<>> /\ wire = <<>>
    /\ writing = FALSE /\ completed = 0 /\ io = 0 /\ handled = 0
    /\ todo = Packets /\ failed = FALSE /\ waited = FALSE

----------------------------------------------------------------------------
Serialized(p) == [i \in 1 .. SizeOf[p] |-> <<p, i>>]

\* WriteBytes with s in oBuffer: WSASend takes its first bytes, or fails.
WriteBytes(s, success) ==
    IF success
    THEN /\ posted' = Prefix(s, IF Len(s) < SendBufferSize THEN Len(s) ELSE SendBufferSize)
         /\ writing' = TRUE /\ io' = io + 1
         /\ UNCHANGED failed
    ELSE failed' = TRUE /\ UNCHANGED <<posted, writing, io>>

\* Mutant: a new packet is sent at once, whatever is under way.
MayWrite_Always == TRUE
\* The test on bWriteInProgress.
MayWrite == ~writing

\* PushPacketCommon.  Its answer is SendResult_OK when the packet fits and the
\* write, if it is tried, succeeds: a service pushes once, whatever the answer,
\* the streamer pushes the same packet again until the answer is OK.
Offered(p) == p \in todo /\ (p \in Broadcast => \A q \in todo \cap Broadcast : p <= q)
Answered(p, ok) == todo' = IF ok \/ p \notin Broadcast THEN todo \ {p} ELSE todo

PushRefused(p) ==
    /\ Offered(p)
    /\ \/ status # "Connected"                            \* SendResult_NotOK
       \/ BufferSize - Len(oBuffer) < SizeOf[p]           \* SendResult_Retry
       \/ p \in Broadcast                                 \* TryPushPacket: csLock is held
    /\ Answered(p, FALSE)
    /\ UNCHANGED <<status, buffers, completed, handled, history>>

PushPacket(p, success) ==
    /\ Offered(p) /\ status = "Connected"
    /\ BufferSize - Len(oBuffer) >= SizeOf[p]
    /\ oBuffer' = oBuffer \o Serialized(p)
    /\ accepted' = accepted \o Serialized(p)
    /\ IF MayWrite
       THEN WriteBytes(oBuffer', success) /\ Answered(p, success)
       ELSE UNCHANGED <<posted, writing, io, failed>> /\ Answered(p, TRUE)
    /\ UNCHANGED <<status, completed, handled, wire, waited>>

\* Close, by any thread.
Close(wait) ==
    /\ status = "Connected"
    /\ status' = IF wait /\ oBuffer # <<>> THEN "WaitingForWrite" ELSE "Disposable"
    /\ waited' = wait
    /\ UNCHANGED <<buffers, completed, handled, todo, accepted, wire, failed>>

----------------------------------------------------------------------------
\* The network takes n bytes of the write and completes it, or fails it; the
\* workers ignore a failed completion (DemuxImpl_Win.cpp).
Sent(n) ==
    /\ posted # <<>> /\ n \in 1 .. Len(posted)
    /\ wire' = wire \o Prefix(posted, n)
    /\ completed' = n
    /\ posted' = <<>>
    /\ UNCHANGED <<status, oBuffer, writing, io, handled, todo, accepted, failed, waited>>
NotSent ==
    /\ posted # <<>>
    /\ posted' = <<>> /\ failed' = TRUE
    /\ UNCHANGED <<status, oBuffer, writing, io, completed, handled, todo, accepted, wire, waited>>

\* Mutant: the rest waits for the next packet.
Continue_Later(s, success) == writing' = FALSE /\ UNCHANGED <<posted, io, failed>>
\* The next write; its failure is not looked at.
Continue(s, success) == WriteBytes(s, success)

\* OnSendCompleted, from OnWriteComplete.
OnSendCompleted(success) ==
    LET rest == Rest(oBuffer, completed)
    IN  /\ completed > 0 /\ handled < MaxIo
        /\ completed' = 0 /\ handled' = handled + 1
        /\ IF status = "Disposable"
           THEN UNCHANGED <<status, buffers, failed>>
           ELSE /\ oBuffer' = rest
                /\ IF rest = <<>> /\ status = "WaitingForWrite"
                   THEN status' = "Disposable" /\ UNCHANGED <<posted, writing, io, failed>>
                   ELSE /\ UNCHANGED status
                        /\ IF rest = <<>>
                           THEN writing' = FALSE /\ UNCHANGED <<posted, io, failed>>
                           ELSE Continue(rest, success)
        /\ UNCHANGED <<todo, accepted, wire, waited>>
Decrement ==
    /\ handled > 0
    /\ handled' = handled - 1 /\ io' = io - 1
    /\ UNCHANGED <<status, oBuffer, posted, writing, completed, todo, history>>

Next ==
    \/ \E p \in Packets : PushRefused(p) \/ (\E success \in BOOLEAN : PushPacket(p, success))
    \/ \E wait \in BOOLEAN : Close(wait)
    \/ \E n \in 1 .. SendBufferSize : Sent(n)
    \/ NotSent
    \/ \E success \in BOOLEAN : OnSendCompleted(success)
    \/ Decrement

\* A peer that reads, and workers that go on; nobody has to push or close.
Fairness ==
    /\ WF_vars(\E n \in 1 .. SendBufferSize : Sent(n))
    /\ WF_vars(\E success \in BOOLEAN : OnSendCompleted(success))
    /\ WF_vars(Decrement)
Spec == Init /\ [][Next]_vars
FairSpec == Spec /\ Fairness

----------------------------------------------------------------------------
IsPrefixOf(s, t) == Len(s) <= Len(t) /\ Prefix(t, Len(s)) = s

(* What the peer gets is what was accepted, byte for byte and in order; as *)
(* long as the connection is not closed the rest of it is in oBuffer, and  *)
(* the write under way carries its first bytes.  After a waiting close the *)
(* socket is only closed when all of it was sent.  Unless a write failed,  *)
(* no byte is accepted twice, and the counter is exact.                    *)
SendsWhatItTook ==
    /\ TypeOK
    /\ IsPrefixOf(wire, accepted)
    /\ status # "Disposable" =>
          /\ accepted = Prefix(wire, Len(wire) - completed) \o oBuffer
          /\ IsPrefixOf(posted, oBuffer)
          /\ posted # <<>> => completed = 0
    /\ status = "Disposable" /\ waited => wire = accepted
    /\ ~failed => /\ \A i, j \in DOMAIN accepted : accepted[i] = accepted[j] => i = j
                  /\ io = handled + (IF posted # <<>> THEN 1 ELSE 0)
                                  + (IF completed > 0 THEN 1 ELSE 0)

(* Unless a write fails, everything that was accepted reaches the network  *)
(* if the connection is not closed at once, and a waiting close ends.      *)
FlushedInTheEnd ==
    []~failed =>
        /\ (status # "Disposable") ~> (wire = accepted \/ status = "Disposable")
        /\ (status = "WaitingForWrite") ~> (status = "Disposable" /\ wire = accepted)
=============================================================================
