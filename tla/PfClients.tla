----------------------------- MODULE PfClients -----------------------------
(***************************************************************************)
(* The life of a connection in PushFramework, with the client factory of   *)
(* the example server (Websocket Server/WebsocketServer): accepted, read   *)
(* by the workers of the completion port (private/Dispatcher_Win.cpp),     *)
(* logged in as a client under its key (Dispatcher::ProcessFirstPacket),   *)
(* found by other connections' requests, disconnected or replaced, and     *)
(* deleted by the garbage collector.                                       *)
(*                                                                         *)
(* A PhysicalConnection and the LogicalConnection bound to it live and die *)
(* together and are one name here.  Two counters keep it alive: `usage' of *)
(* the logical, `io' of the physical connection.                           *)
(***************************************************************************)
EXTENDS Integers, FiniteSets

CONSTANTS Conns,           \* connections; each is accepted at most once
          Keys, KeyOf,     \* the names clients log in with
          Workers,         \* threads of the completion port
          MaxConnections,  \* ChannelFactory::nMaxConnections
          MaxBurst,        \* bound: messages that one read can bring
          Writable,        \* bound: connections on which WSASend is not always refused
          None

ASSUME ClientsAssumption ==
    /\ KeyOf \in [Conns -> Keys] /\ None \notin Conns /\ IsFiniteSet(Workers)
    /\ MaxConnections \in Nat /\ MaxBurst \in Nat \ {0}

VARIABLES status,      \* of each connection, "none" before it is accepted
          open,        \* connections whose socket is open
          pending,     \* vectPendingPhysicalConnections
          stage,       \* WebsocketConnectionContext::stage
          io, usage,   \* ioWorkersReferenceCounter, nRefrenceCounter
          read,        \* a connection's WSARecv: "posted", what it brought, "failed"; or
                       \* "init", the event of the acceptor that gets its first one posted
          write,       \* its WSASend: "posted", "sent", "failed"; or "busy", when its
                       \* completion was taken and bWriteInProgress is still set
          map,         \* clientMap: the client of each key
          waiting,     \* waitingList: how often each connection is in it
          streamed,    \* clients the streamer has
          deleted,
          early,       \* history: deleted while a worker had yet to count a read it posted
          pc, my,      \* what a worker does next, and with which connection,
          seen, left,  \* the status it has read, the messages left in its buffer,
          other        \* and the other client it holds

conn == <<status, open, pending, stage>>
port == <<io, read, write>>
life == <<usage, map, waiting, streamed, deleted, early>>
worker == <<pc, my, seen, left, other>>
vars == <<conn, port, life, worker>>

Alive == {"Connected", "Attached"}      \* status >= Connected
Statuses == Alive \cup {"none", "Disposable"}
Reads == {"none", "init", "posted", "data", "eof", "failed"}
Writes == {"none", "posted", "sent", "busy", "failed"}
Joining == {"stream", "return", "restream", "rereturn"}   \* in the map, still logging in
Late == {"initcount", "count"}                            \* a read is posted, not counted
Steps == Joining \cup Late \cup
         {"idle", "init", "read", "wrote", "eof", "unmap", "discard", "loop", "first",
          "attach", "add", "replace", "silent", "readd", "routed", "dec", "lost"}

TypeOK ==
    /\ status \in [Conns -> Statuses]
    /\ open \subseteq Conns /\ pending \subseteq Conns
    /\ stage \in [Conns -> {"handshake", "login", "connected"}]
    /\ io \in [Conns -> Int] /\ usage \in [Conns -> Int]
    /\ read \in [Conns -> Reads] /\ write \in [Conns -> Writes]
    /\ map \in [Keys -> Conns \cup {None}]
    /\ waiting \in [Conns -> Nat]
    /\ streamed \subseteq Conns /\ deleted \subseteq Conns /\ early \subseteq deleted
    /\ pc \in [Workers -> Steps]
    /\ my \in [Workers -> Conns \cup {None}] /\ other \in [Workers -> Conns \cup {None}]
    /\ seen \in [Workers -> Statuses] /\ left \in [Workers -> 0 .. MaxBurst]

Init ==
    /\ status = [c \in Conns |-> "none"] /\ stage = [c \in Conns |-> "handshake"]
    /\ open = {} /\ pending = {}
    /\ io = [c \in Conns |-> 0] /\ usage = [c \in Conns |-> 0]
    /\ read = [c \in Conns |-> "none"] /\ write = [c \in Conns |-> "none"]
    /\ map = [k \in Keys |-> None]
    /\ waiting = [c \in Conns |-> 0] /\ streamed = {} /\ deleted = {} /\ early = {}
    /\ pc = [w \in Workers |-> "idle"]
    /\ my = [w \in Workers |-> None] /\ other = [w \in Workers |-> None]
    /\ seen = [w \in Workers |-> "none"] /\ left = [w \in Workers |-> 0]

Add(f, c, n) == [f EXCEPT ![c] = @ + n]
Clients == {k \in Keys : map[k] # None}

\* PhysicalConnection::Close(false), under its lock.  A read or a write that is
\* outstanding fails, and the worker that is told of it ignores it (DemuxImpl_Win.cpp):
\* its count is never given back.
Failing(f, c) == IF f[c] = "posted" THEN [f EXCEPT ![c] = "failed"] ELSE f
Close(c) ==
    IF status[c] \in Alive
    THEN /\ status' = [status EXCEPT ![c] = "Disposable"]
         /\ open' = open \ {c}
         /\ read' = Failing(read, c) /\ write' = Failing(write, c)
    ELSE UNCHANGED <<status, open, read, write>>

\* WriteBytes, under the same lock: a WSASend is posted and counted.
WriteBytes(c) ==
    /\ c \in open \cap Writable
    /\ write' = [write EXCEPT ![c] = "posted"] /\ io' = Add(io, c, 1)
\* PushPacket: nothing is sent at once when the connection is closed, when a write is in
\* progress, which takes the bytes with it later, or when WSASend refuses.
PushPacket(c) ==
    \/ status[c] \in Alive /\ write[c] = "none" /\ WriteBytes(c)
    \/ UNCHANGED <<write, io>>

----------------------------------------------------------------------------
(* The acceptor: SetupPhysicalConnection, which leaves an event for a      *)
(* worker to post the first read.                                          *)
Accept(c) ==
    /\ status[c] = "none"
    /\ Cardinality(Clients) < MaxConnections
    /\ status' = [status EXCEPT ![c] = "Connected"]
    /\ open' = open \cup {c} /\ pending' = pending \cup {c}
    /\ read' = [read EXCEPT ![c] = "init"]
    /\ UNCHANGED <<stage, io, write, life, worker>>

(* The peer and the network: messages arrive or the peer leaves, a write is *)
(* done, and either may fail, which is ignored like a failure at the close. *)
Arrive(c) ==
    /\ read[c] = "posted"
    /\ \E what \in {"data", "eof"} : read' = [read EXCEPT ![c] = what]
    /\ UNCHANGED <<conn, io, write, life, worker>>
Sent(c) ==
    /\ write[c] = "posted"
    /\ write' = [write EXCEPT ![c] = "sent"]
    /\ UNCHANGED <<conn, io, read, life, worker>>
Fail(c) ==
    /\ \/ read[c] = "posted" /\ read' = Failing(read, c) /\ UNCHANGED write
       \/ write[c] = "posted" /\ write' = Failing(write, c) /\ UNCHANGED read
    /\ UNCHANGED <<conn, io, life, worker>>

(* The timer: CloseNonLogged on a connection that took too long, and       *)
(* GarbageCollector::Activate; the streamer: ProcessItem on a closed one.  *)
Expire(c) ==
    /\ c \in pending /\ status[c] \in Alive
    /\ Close(c)
    /\ UNCHANGED <<pending, stage, io, life, worker>>
\* Mutant: without LogicalConnection's own counter.
CanDelete_NoUsage(c) == status[c] = "Disposable" /\ io[c] = 0
CanDelete(c) == usage[c] = 0 /\ status[c] = "Disposable" /\ io[c] = 0
Collect(c) ==
    /\ waiting[c] > 0 /\ CanDelete(c)
    /\ deleted' = deleted \cup {c}
    /\ waiting' = Add(waiting, c, -1)
    /\ early' = IF \E w \in Workers : my[w] = c /\ pc[w] \in Late THEN early \cup {c} ELSE early
    /\ UNCHANGED <<conn, port, usage, map, streamed, worker>>
Drop(c) ==
    /\ c \in streamed /\ status[c] \notin Alive
    /\ streamed' = streamed \ {c}
    /\ usage' = Add(usage, c, -1)
    /\ UNCHANGED <<conn, port, map, waiting, deleted, early, worker>>
\* ProcessItem on one that is alive, with a packet.
Broadcast(c) ==
    /\ c \in streamed /\ status[c] \in Alive
    /\ PushPacket(c)
    /\ UNCHANGED <<conn, read, life, worker>>

----------------------------------------------------------------------------
(* A worker w.                                                             *)
At(w, step) == pc[w] = step
MyKey(w) == KeyOf[my[w]]
Goto(w, step) == pc' = [pc EXCEPT ![w] = step] /\ UNCHANGED <<my, seen, left, other>>
\* The same, with another client in hand.
Hold(w, c, step) ==
    /\ pc' = [pc EXCEPT ![w] = step] /\ other' = [other EXCEPT ![w] = c]
    /\ UNCHANGED <<my, seen, left>>
\* The next packet of the buffer.
NextPacket(w) ==
    /\ pc' = [pc EXCEPT ![w] = "loop"]
    /\ left' = [left EXCEPT ![w] = @ - 1] /\ other' = [other EXCEPT ![w] = None]
    /\ UNCHANGED <<my, seen>>

\* GetQueuedCompletionStatus: a read, a write, or the event of the acceptor.
Take(w, c, step, n) ==
    /\ At(w, "idle")
    /\ pc' = [pc EXCEPT ![w] = step]
    /\ my' = [my EXCEPT ![w] = c] /\ left' = [left EXCEPT ![w] = n]
    /\ UNCHANGED <<conn, io, life, seen, other>>
GetRead(w, c, n) ==
    /\ read[c] \in {"data", "eof"} /\ (n = 0 <=> read[c] = "eof")
    /\ read' = [read EXCEPT ![c] = "none"] /\ UNCHANGED write
    /\ Take(w, c, "read", n)
GetWritten(w, c) ==
    /\ write[c] = "sent"
    /\ write' = [write EXCEPT ![c] = "busy"] /\ UNCHANGED read
    /\ Take(w, c, "wrote", 0)
GetAccepted(w, c) ==
    /\ read[c] = "init"
    /\ read' = [read EXCEPT ![c] = "none"] /\ UNCHANGED write
    /\ Take(w, c, "init", 0)
Get(w, c) ==
    \/ \E n \in 0 .. MaxBurst : GetRead(w, c, n)
    \/ GetWritten(w, c) \/ GetAccepted(w, c)

\* Done with a completion.
Done(w) ==
    /\ pc' = [pc EXCEPT ![w] = "idle"] /\ my' = [my EXCEPT ![w] = None]
    /\ seen' = [seen EXCEPT ![w] = "none"] /\ left' = [left EXCEPT ![w] = 0]
    /\ UNCHANGED other

\* PhysicalConnection::PostReceive; WSARecv may refuse.
PostReceive(c) ==
    /\ status[c] \in Alive /\ c \in open
    /\ read' = [read EXCEPT ![c] = "posted"]
\* OnInitializeReady.
FirstRead(w) ==
    /\ At(w, "init")
    /\ \/ PostReceive(my[w]) /\ Goto(w, "initcount")
       \/ UNCHANGED read /\ Done(w)
    /\ UNCHANGED <<conn, io, write, life>>
CountFirst(w) ==
    /\ At(w, "initcount")
    /\ io' = Add(io, my[w], 1)
    /\ Done(w)
    /\ UNCHANGED <<conn, read, write, life>>

\* PhysicalConnection::OnSendCompleted: a closed connection is left as it is; else the
\* buffer is empty, or its rest is written, which may fail.
OnSendCompleted(w) ==
    /\ At(w, "wrote")
    /\ \/ UNCHANGED <<write, io>>
       \/ status[my[w]] \in Alive /\ write' = [write EXCEPT ![my[w]] = "none"] /\ UNCHANGED io
       \/ status[my[w]] \in Alive /\ WriteBytes(my[w])
    /\ Goto(w, "dec")
    /\ UNCHANGED <<conn, read, life>>

\* OnReceiveComplete: the status is read once and goes for the whole buffer.
ReadStatus(w) ==
    /\ At(w, "read")
    /\ seen' = [seen EXCEPT ![w] = status[my[w]]]
    /\ pc' = [pc EXCEPT ![w] = IF status[my[w]] \notin Alive THEN "dec"
                               ELSE IF left[w] = 0 THEN "eof" ELSE "loop"]
    /\ UNCHANGED <<conn, port, life, my, left, other>>
PeerClosed(w) ==
    /\ At(w, "eof")
    /\ Close(my[w])
    /\ Goto(w, IF seen[w] = "Attached" THEN "unmap" ELSE "dec")
    /\ UNCHANGED <<pending, stage, io, life>>

\* ClientFactoryImpl::Disconnect, from onClientDisconnected.
Disconnect(w) ==
    /\ At(w, "unmap")
    /\ map' = [map EXCEPT ![MyKey(w)] = None]          \* RemoveIfExisting: by key
    /\ Goto(w, IF map[MyKey(w)] = None THEN "dec" ELSE "discard")
    /\ UNCHANGED <<conn, port, usage, waiting, streamed, deleted, early>>
Discard(w) ==
    /\ At(w, "discard")
    /\ Close(my[w])
    /\ waiting' = Add(waiting, my[w], 1)
    /\ Goto(w, "dec")
    /\ UNCHANGED <<pending, stage, io, usage, map, streamed, deleted, early>>

(* The processing loop, by the status that was read: a request of a client *)
(* goes to its service, a packet of a connection to ProcessFirstPacket.    *)
Looping(w, s) == At(w, "loop") /\ left[w] > 0 /\ seen[w] = s
\* EchoService, and RoutedCommunicationService when it finds nobody.
Serve(w) ==
    /\ Looping(w, "Attached")
    /\ PushPacket(my[w])
    /\ NextPacket(w)
    /\ UNCHANGED <<conn, read, life>>
\* RoutedCommunicationService: FindClient, PushPacket and ReturnClient.
Find(w, k) ==
    /\ Looping(w, "Attached") /\ map[k] # None
    /\ usage' = Add(usage, map[k], 1)
    /\ Hold(w, map[k], "routed")
    /\ UNCHANGED <<conn, port, map, waiting, streamed, deleted, early>>
\* Mutant: does not give the client back.
Return_Forget(w) ==
    /\ At(w, "routed")
    /\ PushPacket(other[w])
    /\ NextPacket(w)
    /\ UNCHANGED <<conn, read, life>>
Return(w) ==
    /\ At(w, "routed")
    /\ PushPacket(other[w])
    /\ usage' = Add(usage, other[w], -1)
    /\ NextPacket(w)
    /\ UNCHANGED <<conn, read, map, waiting, streamed, deleted, early>>

\* onFirstRequest: the handshake takes the whole buffer and is answered, the login makes
\* a client, and what follows is undefined.
FirstRequest(w) ==
    /\ Looping(w, "Connected")
    /\ stage' = [stage EXCEPT ![my[w]] = IF @ = "handshake" THEN "login" ELSE "connected"]
    /\ left' = IF stage[my[w]] = "handshake" THEN [left EXCEPT ![w] = 0] ELSE left
    /\ pc' = [pc EXCEPT ![w] = IF stage[my[w]] = "handshake" THEN "loop"
                               ELSE IF stage[my[w]] = "login" THEN "first" ELSE "lost"]
    /\ IF stage[my[w]] = "handshake" THEN PushPacket(my[w]) ELSE UNCHANGED <<write, io>>
    /\ UNCHANGED <<status, open, pending, read, life, my, seen, other>>

\* ProcessFirstPacket, once there is a client.
First(w) ==
    /\ At(w, "first")
    /\ pending' = pending \ {my[w]}
    /\ IF my[w] \in pending
       THEN Goto(w, "attach") /\ UNCHANGED io
       ELSE NextPacket(w) /\ io' = Add(io, my[w], -1)
    /\ UNCHANGED <<status, open, stage, read, write, life>>
Attach(w) ==
    /\ At(w, "attach")
    /\ status' = [status EXCEPT ![my[w]] = "Attached"]
    /\ Goto(w, "add")
    /\ UNCHANGED <<open, pending, stage, port, life>>
\* AddLogicalConnection: the client of the key, new or old, gets a reference.
AddLogical(w) ==
    /\ At(w, "add")
    /\ IF map[MyKey(w)] = None
       THEN /\ map' = [map EXCEPT ![MyKey(w)] = my[w]]
            /\ usage' = Add(usage, my[w], 1)
            /\ Goto(w, "stream")
       ELSE /\ usage' = Add(usage, map[MyKey(w)], 1)
            /\ Hold(w, map[MyKey(w)], "replace")
            /\ UNCHANGED map
    /\ UNCHANGED <<conn, port, waiting, streamed, deleted, early>>
\* Mutant: the new client takes the place of the old one, which stays in the map.
Replace_Keep(w) ==
    /\ At(w, "replace")
    /\ Goto(w, "silent")
    /\ UNCHANGED <<conn, port, life>>
\* SilentDisconnect of the old one, and AddLogicalConnection again.
Replace(w) ==
    /\ At(w, "replace")
    /\ map' = [map EXCEPT ![MyKey(w)] = None]
    /\ Goto(w, IF map[MyKey(w)] = None THEN "readd" ELSE "silent")
    /\ UNCHANGED <<conn, port, usage, waiting, streamed, deleted, early>>
Silent(w) ==
    /\ At(w, "silent")
    /\ Close(other[w])
    /\ waiting' = Add(waiting, other[w], 1)
    /\ Goto(w, "readd")
    /\ UNCHANGED <<pending, stage, io, usage, map, streamed, deleted, early>>
Readd(w) ==
    /\ At(w, "readd")
    /\ IF map[MyKey(w)] = None
       THEN map' = [map EXCEPT ![MyKey(w)] = my[w]] /\ usage' = Add(usage, my[w], 1)
       ELSE UNCHANGED map /\ usage' = Add(usage, map[MyKey(w)], 1)
    /\ Hold(w, None, "restream")
    /\ UNCHANGED <<conn, port, waiting, streamed, deleted, early>>
\* AddClient: BroadcastStreamer::AddItem.
Stream(w) ==
    /\ pc[w] \in {"stream", "restream"}
    /\ usage' = Add(usage, my[w], 1)
    /\ streamed' = streamed \cup {my[w]}
    /\ Goto(w, IF At(w, "stream") THEN "return" ELSE "rereturn")
    /\ UNCHANGED <<conn, port, map, waiting, deleted, early>>
\* The end of ProcessFirstPacket: a client that replaced nobody is welcomed.
Welcome(w) ==
    /\ pc[w] \in {"return", "rereturn"}
    /\ IF At(w, "return") THEN PushPacket(my[w]) ELSE UNCHANGED <<write, io>>
    /\ NextPacket(w)
\* Mutant: the reference is not given back.
LoggedIn_Keep(w) ==
    /\ Welcome(w)
    /\ UNCHANGED <<conn, read, life>>
LoggedIn(w) ==
    /\ Welcome(w)
    /\ usage' = Add(usage, my[w], -1)
    /\ UNCHANGED <<conn, read, map, waiting, streamed, deleted, early>>

(* The end of the buffer: after a part of a packet the next read is posted. *)
(* Nothing is posted after a frame that is no text message.                *)
EndOfBuffer(w) == At(w, "loop") /\ left[w] = 0
ReadNext(w) ==
    /\ EndOfBuffer(w)
    /\ \/ PostReceive(my[w]) /\ Goto(w, "count")
       \/ UNCHANGED read /\ Goto(w, "dec")
    /\ UNCHANGED <<conn, io, write, life>>
CountRead(w) ==
    /\ At(w, "count")
    /\ io' = Add(io, my[w], 1)
    /\ Goto(w, "dec")
    /\ UNCHANGED <<conn, read, write, life>>
Release(w) ==
    /\ At(w, "dec")
    /\ io' = Add(io, my[w], -1)
    /\ Done(w)
    /\ UNCHANGED <<conn, read, write, life>>

Handle(w) ==
    \/ FirstRead(w) \/ CountFirst(w) \/ OnSendCompleted(w)
    \/ ReadStatus(w) \/ PeerClosed(w) \/ Disconnect(w) \/ Discard(w)
    \/ Serve(w) \/ (\E k \in Keys : Find(w, k)) \/ Return(w)
    \/ FirstRequest(w) \/ First(w) \/ Attach(w) \/ AddLogical(w)
    \/ Replace(w) \/ Silent(w) \/ Readd(w) \/ Stream(w) \/ LoggedIn(w)
    \/ ReadNext(w) \/ CountRead(w) \/ Release(w)

Next ==
    \/ \E c \in Conns : \/ Accept(c) \/ Arrive(c) \/ Sent(c) \/ Fail(c)
                        \/ Expire(c) \/ Collect(c) \/ Drop(c) \/ Broadcast(c)
                        \/ \E w \in Workers : Get(w, c)
    \/ \E w \in Workers : Handle(w)

Spec == Init /\ [][Next]_vars

\* Threads go on, the timer comes round, and the completions of a connection get their
\* turn: they are queued, and a worker that is free takes the first.  No peer has to do
\* anything, and nobody has to make the streamer look at a client again.
Fairness ==
    /\ \A w \in Workers : WF_vars(Handle(w))
    /\ \A c \in Conns : SF_vars(\E w \in Workers : Get(w, c)) /\ WF_vars(Collect(c))
FairSpec == Spec /\ Fairness

----------------------------------------------------------------------------
Uses(w, c) ==
    \/ other[w] = c
    \/ my[w] = c /\ pc[w] \in Joining

(* The usage of a client is exactly the streamer's reference and those of  *)
(* the workers that found it or are logging it in: no path of logging in,  *)
(* routing and disconnecting loses or keeps one.                           *)
UsageIsHolders ==
    \A c \in Conns :
        usage[c] = Cardinality({w \in Workers : Uses(w, c)}) + (IF c \in streamed THEN 1 ELSE 0)

(* Nobody has a client that was deleted: no worker, no read or write, not  *)
(* the streamer or the map, and it is not deleted again.  What is left out *)
(* is a client that was deleted `early': PostReceive counts a read after   *)
(* posting it, its last completion may overtake the count, and a client    *)
(* can be deleted with that count, a write and its decrement still to come. *)
NoUseAfterFree ==
    \A c \in deleted :
        /\ \A w \in Workers :
              ~Uses(w, c) /\ (my[w] = c => c \in early /\ pc[w] \in Late \cup {"wrote", "dec"})
        /\ read[c] = "none"
        /\ c \notin early => write[c] \notin {"posted", "sent"}
        /\ c \notin streamed /\ waiting[c] = 0
        /\ \A k \in Keys : map[k] # c

(* What FindClient returns, and whom a login replaces, is alive; and a     *)
(* client in the map is not given to the garbage collector: also when      *)
(* several connections log in and out under one key.                       *)
FoundIsAlive ==
    /\ \A w \in Workers : other[w] \notin deleted
    /\ \A c \in Conns : (\E k \in Keys : map[k] = c) => c \notin deleted /\ waiting[c] = 0

(* A client that was disconnected, and that the streamer has let go of, is *)
(* deleted in the end, whatever the workers had in hand, unless a write of *)
(* it failed: such a write is counted for ever.                            *)
Reclaimed ==
    \A c \in Conns :
        (waiting[c] > 0 /\ c \notin streamed) ~> (c \in deleted \/ write[c] = "failed")
=============================================================================
