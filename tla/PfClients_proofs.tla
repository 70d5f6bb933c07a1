-------------------------- MODULE PfClients_proofs --------------------------
(***************************************************************************)
(* Proofs about PfClients, for any number of connections, keys and workers *)
(* and any assignment of keys.                                             *)
(***************************************************************************)
EXTENDS PfClients, FiniteSetTheorems, TLAPS

(***************************************************************************)
(* The inductive invariant IInv is the conjunction of the parts below.  A  *)
(* connection is fresh until its login puts it into the map; what is asked *)
(* of a fresh one is that nobody knows it.                                 *)
(***************************************************************************)
PreMap == {"first", "attach", "add", "replace", "silent", "readd"}
Active == Steps \ {"idle", "wrote", "initcount", "count", "dec"}
Fresh(c) == stage[c] # "connected" \/ \E w \in Workers : my[w] = c /\ pc[w] \in PreMap

\* At most one worker is reading the buffer of a connection, and then no read is posted.
Alone ==
    /\ \A w \in Workers : pc[w] \in Active => my[w] \in Conns /\ read[my[w]] = "none"
    /\ \A v, w \in Workers :
          pc[v] \in Active /\ pc[w] \in Active /\ my[v] = my[w] => v = w
Started ==
    \A c \in Conns : status[c] = "none" =>
        read[c] = "none" /\ write[c] = "none" /\ \A w \in Workers : my[w] # c
HasConn ==
    \A w \in Workers :
        /\ IF pc[w] = "idle" THEN my[w] = None ELSE my[w] \in Conns
        /\ pc[w] \in PreMap \cup Joining \cup {"routed"} => left[w] > 0
\* Where a worker has gone further than a first packet.
Places ==
    /\ \A c \in Conns : status[c] = "Attached" => stage[c] = "connected"
    /\ \A w \in Workers :
          /\ pc[w] \in PreMap \cup Joining => stage[my[w]] = "connected"
          /\ pc[w] \in {"unmap", "discard"} => ~Fresh(my[w])
          /\ At(w, "eof") /\ seen[w] = "Attached" => ~Fresh(my[w])
          /\ pc[w] \in {"stream", "restream"} => my[w] \notin streamed
\* The other connection of a worker.
Others ==
    \A w \in Workers :
        /\ other[w] # None => pc[w] \in {"routed", "replace", "silent", "readd"}
        /\ pc[w] \in {"routed", "replace", "silent", "readd"} => other[w] \in Conns
        /\ pc[w] \in {"replace", "silent", "readd"} => KeyOf[other[w]] = MyKey(w)
FreshIsNew ==
    \A c \in Conns : Fresh(c) =>
        /\ \A k \in Keys : map[k] # c
        /\ \A w \in Workers : other[w] # c
        /\ waiting[c] = 0 /\ c \notin deleted /\ usage[c] = 0 /\ c \notin streamed
MapKey == \A k \in Keys : map[k] # None => KeyOf[map[k]] = k
Disposing(c) ==
    \/ waiting[c] > 0
    \/ c \in deleted
    \/ \E w \in Workers : (At(w, "discard") /\ my[w] = c) \/ (At(w, "silent") /\ other[w] = c)
Disposed == \A c \in Conns : Disposing(c) => \A k \in Keys : map[k] # c

Users(c) == {w \in Workers : Uses(w, c)}
Holders(c) == Cardinality(Users(c)) + (IF c \in streamed THEN 1 ELSE 0)
Known(c) == (\E k \in Keys : map[k] = c) \/ \E w \in Workers : other[w] = c
Held == \A c \in Conns : Known(c) => usage[c] >= Holders(c)

----------------------------------------------------------------------------
\* Types: a buffer runs out before it is read further, and the garbage collector takes
\* a connection off its list only when it is on it.
LEMMA TypeStep == ASSUME TypeOK, HasConn, Others, Next
                  PROVE  TypeOK'
<1> USE ClientsAssumption DEF ClientsAssumption, TypeOK, Statuses, Reads, Writes, Steps,
            Joining, Late, Alive, HasConn, PreMap, Others, Clients, At, worker, conn,
            port, life
<1>1. ASSUME NEW c \in Conns, Accept(c) PROVE TypeOK'
  BY <1>1 DEF Accept
<1>2. ASSUME NEW c \in Conns, Arrive(c) PROVE TypeOK'
  BY <1>2 DEF Arrive
<1>3. ASSUME NEW c \in Conns, Sent(c) PROVE TypeOK'
  BY <1>3 DEF Sent
<1>4. ASSUME NEW c \in Conns, Fail(c) PROVE TypeOK'
  BY <1>4 DEF Fail, Failing
<1>5. ASSUME NEW c \in Conns, Expire(c) PROVE TypeOK'
  BY <1>5 DEF Expire, Close, Failing
<1>6. ASSUME NEW c \in Conns, Collect(c) PROVE TypeOK'
  BY <1>6 DEF Collect, Add
<1>7. ASSUME NEW c \in Conns, Drop(c) PROVE TypeOK'
  BY <1>7 DEF Drop, Add
<1>8. ASSUME NEW c \in Conns, Broadcast(c) PROVE TypeOK'
  BY <1>8 DEF Broadcast, PushPacket, WriteBytes, Add
<1>9. ASSUME NEW w \in Workers, NEW c \in Conns, NEW n \in 0 .. MaxBurst, GetRead(w, c, n)
       PROVE TypeOK'
  BY <1>9 DEF GetRead, Take
<1>10. ASSUME NEW w \in Workers, NEW c \in Conns, GetWritten(w, c) PROVE TypeOK'
  BY <1>10 DEF GetWritten, Take
<1>11. ASSUME NEW w \in Workers, NEW c \in Conns, GetAccepted(w, c) PROVE TypeOK'
  BY <1>11 DEF GetAccepted, Take
<1>12. ASSUME NEW w \in Workers, FirstRead(w) PROVE TypeOK'
  BY <1>12 DEF FirstRead, PostReceive, Done, Goto, MyKey
<1>13. ASSUME NEW w \in Workers, CountFirst(w) PROVE TypeOK'
  BY <1>13 DEF CountFirst, Add, Done, MyKey
<1>14. ASSUME NEW w \in Workers, OnSendCompleted(w) PROVE TypeOK'
  BY <1>14 DEF OnSendCompleted, Goto, MyKey, PushPacket, WriteBytes, Add
<1>15. ASSUME NEW w \in Workers, ReadStatus(w) PROVE TypeOK'
  BY <1>15 DEF ReadStatus, Goto, MyKey
<1>16. ASSUME NEW w \in Workers, PeerClosed(w) PROVE TypeOK'
  BY <1>16 DEF PeerClosed, Close, Failing, Goto, MyKey
<1>17. ASSUME NEW w \in Workers, Disconnect(w) PROVE TypeOK'
  BY <1>17 DEF Disconnect, Goto, MyKey
<1>18. ASSUME NEW w \in Workers, Discard(w) PROVE TypeOK'
  BY <1>18 DEF Discard, Close, Failing, Add, Goto, MyKey
<1>19. ASSUME NEW w \in Workers, Serve(w) PROVE TypeOK'
  BY <1>19 DEF Serve, Looping, NextPacket, Goto, MyKey, PushPacket, WriteBytes, Add
<1>20. ASSUME NEW w \in Workers, NEW k \in Keys, Find(w, k) PROVE TypeOK'
  BY <1>20 DEF Find, Looping, Hold, Add, Goto, MyKey
<1>21. ASSUME NEW w \in Workers, Return(w) PROVE TypeOK'
  BY <1>21 DEF Return, NextPacket, Add, Goto, MyKey, PushPacket, WriteBytes
<1>22. ASSUME NEW w \in Workers, FirstRequest(w) PROVE TypeOK'
  BY <1>22 DEF FirstRequest, Looping, Goto, MyKey, PushPacket, WriteBytes, Add
<1>23. ASSUME NEW w \in Workers, First(w) PROVE TypeOK'
  BY <1>23 DEF First, NextPacket, Add, Goto, MyKey
<1>24. ASSUME NEW w \in Workers, Attach(w) PROVE TypeOK'
  BY <1>24 DEF Attach, Goto, MyKey
<1>25. ASSUME NEW w \in Workers, AddLogical(w) PROVE TypeOK'
  BY <1>25 DEF AddLogical, Hold, Add, Goto, MyKey
<1>26. ASSUME NEW w \in Workers, Replace(w) PROVE TypeOK'
  BY <1>26 DEF Replace, Goto, MyKey
<1>27. ASSUME NEW w \in Workers, Silent(w) PROVE TypeOK'
  BY <1>27 DEF Silent, Close, Failing, Add, Goto, MyKey
<1>28. ASSUME NEW w \in Workers, Readd(w) PROVE TypeOK'
  BY <1>28 DEF Readd, Hold, Add, Goto, MyKey
<1>29. ASSUME NEW w \in Workers, Stream(w) PROVE TypeOK'
  BY <1>29 DEF Stream, Add, Goto, MyKey
<1>30. ASSUME NEW w \in Workers, LoggedIn(w) PROVE TypeOK'
  BY <1>30 DEF LoggedIn, Welcome, NextPacket, Add, MyKey, PushPacket, WriteBytes
<1>31. ASSUME NEW w \in Workers, ReadNext(w) PROVE TypeOK'
  BY <1>31 DEF ReadNext, PostReceive, EndOfBuffer, Goto, MyKey
<1>32. ASSUME NEW w \in Workers, CountRead(w) PROVE TypeOK'
  BY <1>32 DEF CountRead, Add, Goto, MyKey
<1>33. ASSUME NEW w \in Workers, Release(w) PROVE TypeOK'
  BY <1>33 DEF Release, Add, Done, MyKey
<1> QED BY <1>1, <1>2, <1>3, <1>4, <1>5, <1>6, <1>7, <1>8, <1>9, <1>10, <1>11, <1>12,
           <1>13, <1>14, <1>15, <1>16, <1>17, <1>18, <1>19, <1>20, <1>21, <1>22, <1>23,
           <1>24, <1>25, <1>26, <1>27, <1>28, <1>29, <1>30, <1>31, <1>32, <1>33
       DEF Next, Handle, Get

\* A worker that is doing something does it for a connection, with a message in hand.
LEMMA HasConnStep == ASSUME TypeOK, HasConn, Next
                     PROVE  HasConn'
<1> USE ClientsAssumption DEF ClientsAssumption, TypeOK, Statuses, Reads, Writes, Steps,
            Joining, Late, Alive, HasConn, PreMap, At, worker, conn, port, life
<1>1. ASSUME NEW c \in Conns, Accept(c) PROVE HasConn'
  BY <1>1 DEF Accept
<1>2. ASSUME NEW c \in Conns, Arrive(c) PROVE HasConn'
  BY <1>2 DEF Arrive
<1>3. ASSUME NEW c \in Conns, Sent(c) PROVE HasConn'
  BY <1>3 DEF Sent
<1>4. ASSUME NEW c \in Conns, Fail(c) PROVE HasConn'
  BY <1>4 DEF Fail, Failing
<1>5. ASSUME NEW c \in Conns, Expire(c) PROVE HasConn'
  BY <1>5 DEF Expire, Close, Failing
<1>6. ASSUME NEW c \in Conns, Collect(c) PROVE HasConn'
  BY <1>6 DEF Collect, Add
<1>7. ASSUME NEW c \in Conns, Drop(c) PROVE HasConn'
  BY <1>7 DEF Drop, Add
<1>8. ASSUME NEW c \in Conns, Broadcast(c) PROVE HasConn'
  BY <1>8 DEF Broadcast
<1>9. ASSUME NEW w \in Workers, NEW c \in Conns, NEW n \in 0 .. MaxBurst, GetRead(w, c, n)
       PROVE HasConn'
  BY <1>9 DEF GetRead, Take
<1>10. ASSUME NEW w \in Workers, NEW c \in Conns, GetWritten(w, c) PROVE HasConn'
  BY <1>10 DEF GetWritten, Take
<1>11. ASSUME NEW w \in Workers, NEW c \in Conns, GetAccepted(w, c) PROVE HasConn'
  BY <1>11 DEF GetAccepted, Take
<1>12. ASSUME NEW w \in Workers, FirstRead(w) PROVE HasConn'
  BY <1>12 DEF FirstRead, PostReceive, Done, Goto, MyKey
<1>13. ASSUME NEW w \in Workers, CountFirst(w) PROVE HasConn'
  BY <1>13 DEF CountFirst, Add, Done, MyKey
<1>14. ASSUME NEW w \in Workers, OnSendCompleted(w) PROVE HasConn'
  BY <1>14 DEF OnSendCompleted, Goto, MyKey
<1>15. ASSUME NEW w \in Workers, ReadStatus(w) PROVE HasConn'
  BY <1>15 DEF ReadStatus, Goto, MyKey
<1>16. ASSUME NEW w \in Workers, PeerClosed(w) PROVE HasConn'
  BY <1>16 DEF PeerClosed, Close, Failing, Goto, MyKey
<1>17. ASSUME NEW w \in Workers, Disconnect(w) PROVE HasConn'
  BY <1>17 DEF Disconnect, Goto, MyKey
<1>18. ASSUME NEW w \in Workers, Discard(w) PROVE HasConn'
  BY <1>18 DEF Discard, Close, Failing, Add, Goto, MyKey
<1>19. ASSUME NEW w \in Workers, Serve(w) PROVE HasConn'
  BY <1>19 DEF Serve, Looping, NextPacket, Goto, MyKey
<1>20. ASSUME NEW w \in Workers, NEW k \in Keys, Find(w, k) PROVE HasConn'
  BY <1>20 DEF Find, Looping, Hold, Add, Goto, MyKey
<1>21. ASSUME NEW w \in Workers, Return(w) PROVE HasConn'
  BY <1>21 DEF Return, NextPacket, Add, Goto, MyKey
<1>22. ASSUME NEW w \in Workers, FirstRequest(w) PROVE HasConn'
  BY <1>22 DEF FirstRequest, Looping, Goto, MyKey
<1>23. ASSUME NEW w \in Workers, First(w) PROVE HasConn'
  BY <1>23 DEF First, NextPacket, Add, Goto, MyKey
<1>24. ASSUME NEW w \in Workers, Attach(w) PROVE HasConn'
  BY <1>24 DEF Attach, Goto, MyKey
<1>25. ASSUME NEW w \in Workers, AddLogical(w) PROVE HasConn'
  BY <1>25 DEF AddLogical, Hold, Add, Goto, MyKey
<1>26. ASSUME NEW w \in Workers, Replace(w) PROVE HasConn'
  BY <1>26 DEF Replace, Goto, MyKey
<1>27. ASSUME NEW w \in Workers, Silent(w) PROVE HasConn'
  BY <1>27 DEF Silent, Close, Failing, Add, Goto, MyKey
<1>28. ASSUME NEW w \in Workers, Readd(w) PROVE HasConn'
  BY <1>28 DEF Readd, Hold, Add, Goto, MyKey
<1>29. ASSUME NEW w \in Workers, Stream(w) PROVE HasConn'
  BY <1>29 DEF Stream, Add, Goto, MyKey
<1>30. ASSUME NEW w \in Workers, LoggedIn(w) PROVE HasConn'
  BY <1>30 DEF LoggedIn, Welcome, NextPacket, Add, MyKey
<1>31. ASSUME NEW w \in Workers, ReadNext(w) PROVE HasConn'
  BY <1>31 DEF ReadNext, PostReceive, EndOfBuffer, Goto, MyKey
<1>32. ASSUME NEW w \in Workers, CountRead(w) PROVE HasConn'
  BY <1>32 DEF CountRead, Add, Goto, MyKey
<1>33. ASSUME NEW w \in Workers, Release(w) PROVE HasConn'
  BY <1>33 DEF Release, Add, Done, MyKey
<1> QED BY <1>1, <1>2, <1>3, <1>4, <1>5, <1>6, <1>7, <1>8, <1>9, <1>10, <1>11, <1>12,
           <1>13, <1>14, <1>15, <1>16, <1>17, <1>18, <1>19, <1>20, <1>21, <1>22, <1>23,
           <1>24, <1>25, <1>26, <1>27, <1>28, <1>29, <1>30, <1>31, <1>32, <1>33
       DEF Next, Handle, Get

\* Nobody reads a connection that was not accepted.
LEMMA StartedStep == ASSUME TypeOK, HasConn, Started, Next
                     PROVE  Started'
<1> USE ClientsAssumption DEF ClientsAssumption, TypeOK, Statuses, Reads, Writes, Steps,
            Joining, Late, Alive, HasConn, Started, At, worker, conn, port, life
<1>1. ASSUME NEW c \in Conns, Accept(c) PROVE Started'
  BY <1>1 DEF Accept
<1>2. ASSUME NEW c \in Conns, Arrive(c) PROVE Started'
  BY <1>2 DEF Arrive
<1>3. ASSUME NEW c \in Conns, Sent(c) PROVE Started'
  BY <1>3 DEF Sent
<1>4. ASSUME NEW c \in Conns, Fail(c) PROVE Started'
  BY <1>4 DEF Fail, Failing
<1>5. ASSUME NEW c \in Conns, Expire(c) PROVE Started'
  BY <1>5 DEF Expire, Close, Failing
<1>6. ASSUME NEW c \in Conns, Collect(c) PROVE Started'
  BY <1>6 DEF Collect, Add
<1>7. ASSUME NEW c \in Conns, Drop(c) PROVE Started'
  BY <1>7 DEF Drop, Add
<1>8. ASSUME NEW c \in Conns, Broadcast(c) PROVE Started'
  BY <1>8 DEF Broadcast, PushPacket, WriteBytes, Add
<1>9. ASSUME NEW w \in Workers, NEW c \in Conns, NEW n \in 0 .. MaxBurst, GetRead(w, c, n)
       PROVE Started'
  BY <1>9 DEF GetRead, Take
<1>10. ASSUME NEW w \in Workers, NEW c \in Conns, GetWritten(w, c) PROVE Started'
  BY <1>10 DEF GetWritten, Take
<1>11. ASSUME NEW w \in Workers, NEW c \in Conns, GetAccepted(w, c) PROVE Started'
  BY <1>11 DEF GetAccepted, Take
<1>12. ASSUME NEW w \in Workers, FirstRead(w) PROVE Started'
  BY <1>12 DEF FirstRead, PostReceive, Done, Goto, MyKey
<1>13. ASSUME NEW w \in Workers, CountFirst(w) PROVE Started'
  BY <1>13 DEF CountFirst, Add, Done, MyKey
<1>14. ASSUME NEW w \in Workers, OnSendCompleted(w) PROVE Started'
  BY <1>14 DEF OnSendCompleted, Goto, MyKey, WriteBytes, Add
<1>15. ASSUME NEW w \in Workers, ReadStatus(w) PROVE Started'
  BY <1>15 DEF ReadStatus, Goto, MyKey
<1>16. ASSUME NEW w \in Workers, PeerClosed(w) PROVE Started'
  BY <1>16 DEF PeerClosed, Close, Failing, Goto, MyKey
<1>17. ASSUME NEW w \in Workers, Disconnect(w) PROVE Started'
  BY <1>17 DEF Disconnect, Goto, MyKey
<1>18. ASSUME NEW w \in Workers, Discard(w) PROVE Started'
  BY <1>18 DEF Discard, Close, Failing, Add, Goto, MyKey
<1>19. ASSUME NEW w \in Workers, Serve(w) PROVE Started'
  BY <1>19 DEF Serve, Looping, NextPacket, Goto, MyKey, PushPacket, WriteBytes, Add
<1>20. ASSUME NEW w \in Workers, NEW k \in Keys, Find(w, k) PROVE Started'
  BY <1>20 DEF Find, Looping, Hold, Add, Goto, MyKey
<1>21. ASSUME NEW w \in Workers, Return(w) PROVE Started'
  BY <1>21 DEF Return, NextPacket, Add, Goto, MyKey, PushPacket, WriteBytes
<1>22. ASSUME NEW w \in Workers, FirstRequest(w) PROVE Started'
  BY <1>22 DEF FirstRequest, Looping, Goto, MyKey, PushPacket, WriteBytes, Add
<1>23. ASSUME NEW w \in Workers, First(w) PROVE Started'
  BY <1>23 DEF First, NextPacket, Add, Goto, MyKey
<1>24. ASSUME NEW w \in Workers, Attach(w) PROVE Started'
  BY <1>24 DEF Attach, Goto, MyKey
<1>25. ASSUME NEW w \in Workers, AddLogical(w) PROVE Started'
  BY <1>25 DEF AddLogical, Hold, Add, Goto, MyKey
<1>26. ASSUME NEW w \in Workers, Replace(w) PROVE Started'
  BY <1>26 DEF Replace, Goto, MyKey
<1>27. ASSUME NEW w \in Workers, Silent(w) PROVE Started'
  BY <1>27 DEF Silent, Close, Failing, Add, Goto, MyKey
<1>28. ASSUME NEW w \in Workers, Readd(w) PROVE Started'
  BY <1>28 DEF Readd, Hold, Add, Goto, MyKey
<1>29. ASSUME NEW w \in Workers, Stream(w) PROVE Started'
  BY <1>29 DEF Stream, Add, Goto, MyKey
<1>30. ASSUME NEW w \in Workers, LoggedIn(w) PROVE Started'
  BY <1>30 DEF LoggedIn, Welcome, NextPacket, Add, MyKey, PushPacket, WriteBytes
<1>31. ASSUME NEW w \in Workers, ReadNext(w) PROVE Started'
  BY <1>31 DEF ReadNext, PostReceive, EndOfBuffer, Goto, MyKey
<1>32. ASSUME NEW w \in Workers, CountRead(w) PROVE Started'
  BY <1>32 DEF CountRead, Add, Goto, MyKey
<1>33. ASSUME NEW w \in Workers, Release(w) PROVE Started'
  BY <1>33 DEF Release, Add, Done, MyKey
<1> QED BY <1>1, <1>2, <1>3, <1>4, <1>5, <1>6, <1>7, <1>8, <1>9, <1>10, <1>11, <1>12,
           <1>13, <1>14, <1>15, <1>16, <1>17, <1>18, <1>19, <1>20, <1>21, <1>22, <1>23,
           <1>24, <1>25, <1>26, <1>27, <1>28, <1>29, <1>30, <1>31, <1>32, <1>33
       DEF Next, Handle, Get

\* One worker at a time reads a connection: the next read is posted after the buffer.
LEMMA AloneStep == ASSUME TypeOK, HasConn, Started, Alone, Next
                   PROVE  Alone'
<1> USE DEF TypeOK, Statuses, Reads, Writes, Steps, Joining, Late, Alive, HasConn,
            Started, Alone, Active, At, worker, conn, port, life
<1>1. ASSUME NEW c \in Conns, Accept(c) PROVE Alone'
  BY <1>1 DEF Accept
<1>2. ASSUME NEW c \in Conns, Arrive(c) PROVE Alone'
  BY <1>2 DEF Arrive
<1>3. ASSUME NEW c \in Conns, Sent(c) PROVE Alone'
  BY <1>3 DEF Sent
<1>4. ASSUME NEW c \in Conns, Fail(c) PROVE Alone'
  BY <1>4 DEF Fail, Failing
<1>5. ASSUME NEW c \in Conns, Expire(c) PROVE Alone'
  BY <1>5 DEF Expire, Close, Failing
<1>6. ASSUME NEW c \in Conns, Collect(c) PROVE Alone'
  BY <1>6 DEF Collect, Add
<1>7. ASSUME NEW c \in Conns, Drop(c) PROVE Alone'
  BY <1>7 DEF Drop, Add
<1>8. ASSUME NEW c \in Conns, Broadcast(c) PROVE Alone'
  BY <1>8 DEF Broadcast
<1>9. ASSUME NEW w \in Workers, NEW c \in Conns, NEW n \in 0 .. MaxBurst, GetRead(w, c, n)
       PROVE Alone'
  BY <1>9 DEF GetRead, Take
<1>10. ASSUME NEW w \in Workers, NEW c \in Conns, GetWritten(w, c) PROVE Alone'
  BY <1>10 DEF GetWritten, Take
<1>11. ASSUME NEW w \in Workers, NEW c \in Conns, GetAccepted(w, c) PROVE Alone'
  BY <1>11 DEF GetAccepted, Take
<1>12. ASSUME NEW w \in Workers, FirstRead(w) PROVE Alone'
  BY <1>12 DEF FirstRead, PostReceive, Done, Goto, MyKey
<1>13. ASSUME NEW w \in Workers, CountFirst(w) PROVE Alone'
  BY <1>13 DEF CountFirst, Add, Done, MyKey
<1>14. ASSUME NEW w \in Workers, OnSendCompleted(w) PROVE Alone'
  BY <1>14 DEF OnSendCompleted, Goto, MyKey
<1>15. ASSUME NEW w \in Workers, ReadStatus(w) PROVE Alone'
  BY <1>15 DEF ReadStatus, Goto, MyKey
<1>16. ASSUME NEW w \in Workers, PeerClosed(w) PROVE Alone'
  BY <1>16 DEF PeerClosed, Close, Failing, Goto, MyKey
<1>17. ASSUME NEW w \in Workers, Disconnect(w) PROVE Alone'
  BY <1>17 DEF Disconnect, Goto, MyKey
<1>18. ASSUME NEW w \in Workers, Discard(w) PROVE Alone'
  BY <1>18 DEF Discard, Close, Failing, Add, Goto, MyKey
<1>19. ASSUME NEW w \in Workers, Serve(w) PROVE Alone'
  BY <1>19 DEF Serve, Looping, NextPacket, Goto, MyKey
<1>20. ASSUME NEW w \in Workers, NEW k \in Keys, Find(w, k) PROVE Alone'
  BY <1>20 DEF Find, Looping, Hold, Add, Goto, MyKey
<1>21. ASSUME NEW w \in Workers, Return(w) PROVE Alone'
  BY <1>21 DEF Return, NextPacket, Add, Goto, MyKey
<1>22. ASSUME NEW w \in Workers, FirstRequest(w) PROVE Alone'
  BY <1>22 DEF FirstRequest, Looping, Goto, MyKey
<1>23. ASSUME NEW w \in Workers, First(w) PROVE Alone'
  BY <1>23 DEF First, NextPacket, Add, Goto, MyKey
<1>24. ASSUME NEW w \in Workers, Attach(w) PROVE Alone'
  BY <1>24 DEF Attach, Goto, MyKey
<1>25. ASSUME NEW w \in Workers, AddLogical(w) PROVE Alone'
  BY <1>25 DEF AddLogical, Hold, Add, Goto, MyKey
<1>26. ASSUME NEW w \in Workers, Replace(w) PROVE Alone'
  BY <1>26 DEF Replace, Goto, MyKey
<1>27. ASSUME NEW w \in Workers, Silent(w) PROVE Alone'
  BY <1>27 DEF Silent, Close, Failing, Add, Goto, MyKey
<1>28. ASSUME NEW w \in Workers, Readd(w) PROVE Alone'
  BY <1>28 DEF Readd, Hold, Add, Goto, MyKey
<1>29. ASSUME NEW w \in Workers, Stream(w) PROVE Alone'
  BY <1>29 DEF Stream, Add, Goto, MyKey
<1>30. ASSUME NEW w \in Workers, LoggedIn(w) PROVE Alone'
  BY <1>30 DEF LoggedIn, Welcome, NextPacket, Add, MyKey
<1>31. ASSUME NEW w \in Workers, ReadNext(w) PROVE Alone'
  BY <1>31 DEF ReadNext, PostReceive, EndOfBuffer, Goto, MyKey
<1>32. ASSUME NEW w \in Workers, CountRead(w) PROVE Alone'
  BY <1>32 DEF CountRead, Add, Goto, MyKey
<1>33. ASSUME NEW w \in Workers, Release(w) PROVE Alone'
  BY <1>33 DEF Release, Add, Done, MyKey
<1> QED BY <1>1, <1>2, <1>3, <1>4, <1>5, <1>6, <1>7, <1>8, <1>9, <1>10, <1>11, <1>12,
           <1>13, <1>14, <1>15, <1>16, <1>17, <1>18, <1>19, <1>20, <1>21, <1>22, <1>23,
           <1>24, <1>25, <1>26, <1>27, <1>28, <1>29, <1>30, <1>31, <1>32, <1>33
       DEF Next, Handle, Get

\* The other client in hand is one of the key the worker logs in with, or was found.
LEMMA OthersStep == ASSUME TypeOK, HasConn, MapKey, Others, Next
                    PROVE  Others'
<1> USE ClientsAssumption DEF ClientsAssumption, TypeOK, Statuses, Reads, Writes, Steps,
            Joining, Late, Alive, HasConn, MapKey, Others, At, MyKey, worker, conn, port,
            life
<1>1. ASSUME NEW c \in Conns, Accept(c) PROVE Others'
  BY <1>1 DEF Accept
<1>2. ASSUME NEW c \in Conns, Arrive(c) PROVE Others'
  BY <1>2 DEF Arrive
<1>3. ASSUME NEW c \in Conns, Sent(c) PROVE Others'
  BY <1>3 DEF Sent
<1>4. ASSUME NEW c \in Conns, Fail(c) PROVE Others'
  BY <1>4 DEF Fail, Failing
<1>5. ASSUME NEW c \in Conns, Expire(c) PROVE Others'
  BY <1>5 DEF Expire, Close, Failing
<1>6. ASSUME NEW c \in Conns, Collect(c) PROVE Others'
  BY <1>6 DEF Collect, Add
<1>7. ASSUME NEW c \in Conns, Drop(c) PROVE Others'
  BY <1>7 DEF Drop, Add
<1>8. ASSUME NEW c \in Conns, Broadcast(c) PROVE Others'
  BY <1>8 DEF Broadcast
<1>9. ASSUME NEW w \in Workers, NEW c \in Conns, NEW n \in 0 .. MaxBurst, GetRead(w, c, n)
       PROVE Others'
  BY <1>9 DEF GetRead, Take
<1>10. ASSUME NEW w \in Workers, NEW c \in Conns, GetWritten(w, c) PROVE Others'
  BY <1>10 DEF GetWritten, Take
<1>11. ASSUME NEW w \in Workers, NEW c \in Conns, GetAccepted(w, c) PROVE Others'
  BY <1>11 DEF GetAccepted, Take
<1>12. ASSUME NEW w \in Workers, FirstRead(w) PROVE Others'
  BY <1>12 DEF FirstRead, PostReceive, Done, Goto
<1>13. ASSUME NEW w \in Workers, CountFirst(w) PROVE Others'
  BY <1>13 DEF CountFirst, Add, Done
<1>14. ASSUME NEW w \in Workers, OnSendCompleted(w) PROVE Others'
  BY <1>14 DEF OnSendCompleted, Goto
<1>15. ASSUME NEW w \in Workers, ReadStatus(w) PROVE Others'
  BY <1>15 DEF ReadStatus, Goto
<1>16. ASSUME NEW w \in Workers, PeerClosed(w) PROVE Others'
  BY <1>16 DEF PeerClosed, Close, Failing, Goto
<1>17. ASSUME NEW w \in Workers, Disconnect(w) PROVE Others'
  BY <1>17 DEF Disconnect, Goto
<1>18. ASSUME NEW w \in Workers, Discard(w) PROVE Others'
  BY <1>18 DEF Discard, Close, Failing, Add, Goto
<1>19. ASSUME NEW w \in Workers, Serve(w) PROVE Others'
  BY <1>19 DEF Serve, Looping, NextPacket, Goto
<1>20. ASSUME NEW w \in Workers, NEW k \in Keys, Find(w, k) PROVE Others'
  BY <1>20 DEF Find, Looping, Hold, Add, Goto
<1>21. ASSUME NEW w \in Workers, Return(w) PROVE Others'
  BY <1>21 DEF Return, NextPacket, Add, Goto
<1>22. ASSUME NEW w \in Workers, FirstRequest(w) PROVE Others'
  BY <1>22 DEF FirstRequest, Looping, Goto
<1>23. ASSUME NEW w \in Workers, First(w) PROVE Others'
  BY <1>23 DEF First, NextPacket, Add, Goto
<1>24. ASSUME NEW w \in Workers, Attach(w) PROVE Others'
  BY <1>24 DEF Attach, Goto
<1>25. ASSUME NEW w \in Workers, AddLogical(w) PROVE Others'
  BY <1>25 DEF AddLogical, Hold, Add, Goto
<1>26. ASSUME NEW w \in Workers, Replace(w) PROVE Others'
  BY <1>26 DEF Replace, Goto
<1>27. ASSUME NEW w \in Workers, Silent(w) PROVE Others'
  BY <1>27 DEF Silent, Close, Failing, Add, Goto
<1>28. ASSUME NEW w \in Workers, Readd(w) PROVE Others'
  BY <1>28 DEF Readd, Hold, Add, Goto
<1>29. ASSUME NEW w \in Workers, Stream(w) PROVE Others'
  BY <1>29 DEF Stream, Add, Goto
<1>30. ASSUME NEW w \in Workers, LoggedIn(w) PROVE Others'
  BY <1>30 DEF LoggedIn, Welcome, NextPacket, Add
<1>31. ASSUME NEW w \in Workers, ReadNext(w) PROVE Others'
  BY <1>31 DEF ReadNext, PostReceive, EndOfBuffer, Goto
<1>32. ASSUME NEW w \in Workers, CountRead(w) PROVE Others'
  BY <1>32 DEF CountRead, Add, Goto
<1>33. ASSUME NEW w \in Workers, Release(w) PROVE Others'
  BY <1>33 DEF Release, Add, Done
<1> QED BY <1>1, <1>2, <1>3, <1>4, <1>5, <1>6, <1>7, <1>8, <1>9, <1>10, <1>11, <1>12,
           <1>13, <1>14, <1>15, <1>16, <1>17, <1>18, <1>19, <1>20, <1>21, <1>22, <1>23,
           <1>24, <1>25, <1>26, <1>27, <1>28, <1>29, <1>30, <1>31, <1>32, <1>33
       DEF Next, Handle, Get

\* A client stands in the map under its own key.
LEMMA MapKeyStep == ASSUME TypeOK, HasConn, MapKey, Next
                    PROVE  MapKey'
<1> USE ClientsAssumption DEF ClientsAssumption, TypeOK, Statuses, Reads, Writes, Steps,
            Joining, Late, Alive, HasConn, MapKey, At, MyKey, worker, conn, port, life
<1>1. ASSUME NEW c \in Conns, Accept(c) PROVE MapKey'
  BY <1>1 DEF Accept
<1>2. ASSUME NEW c \in Conns, Arrive(c) PROVE MapKey'
  BY <1>2 DEF Arrive
<1>3. ASSUME NEW c \in Conns, Sent(c) PROVE MapKey'
  BY <1>3 DEF Sent
<1>4. ASSUME NEW c \in Conns, Fail(c) PROVE MapKey'
  BY <1>4 DEF Fail, Failing
<1>5. ASSUME NEW c \in Conns, Expire(c) PROVE MapKey'
  BY <1>5 DEF Expire, Close, Failing
<1>6. ASSUME NEW c \in Conns, Collect(c) PROVE MapKey'
  BY <1>6 DEF Collect, Add
<1>7. ASSUME NEW c \in Conns, Drop(c) PROVE MapKey'
  BY <1>7 DEF Drop, Add
<1>8. ASSUME NEW c \in Conns, Broadcast(c) PROVE MapKey'
  BY <1>8 DEF Broadcast
<1>9. ASSUME NEW w \in Workers, NEW c \in Conns, NEW n \in 0 .. MaxBurst, GetRead(w, c, n)
       PROVE MapKey'
  BY <1>9 DEF GetRead, Take
<1>10. ASSUME NEW w \in Workers, NEW c \in Conns, GetWritten(w, c) PROVE MapKey'
  BY <1>10 DEF GetWritten, Take
<1>11. ASSUME NEW w \in Workers, NEW c \in Conns, GetAccepted(w, c) PROVE MapKey'
  BY <1>11 DEF GetAccepted, Take
<1>12. ASSUME NEW w \in Workers, FirstRead(w) PROVE MapKey'
  BY <1>12 DEF FirstRead, PostReceive, Done, Goto
<1>13. ASSUME NEW w \in Workers, CountFirst(w) PROVE MapKey'
  BY <1>13 DEF CountFirst, Add, Done
<1>14. ASSUME NEW w \in Workers, OnSendCompleted(w) PROVE MapKey'
  BY <1>14 DEF OnSendCompleted, Goto
<1>15. ASSUME NEW w \in Workers, ReadStatus(w) PROVE MapKey'
  BY <1>15 DEF ReadStatus, Goto
<1>16. ASSUME NEW w \in Workers, PeerClosed(w) PROVE MapKey'
  BY <1>16 DEF PeerClosed, Close, Failing, Goto
<1>17. ASSUME NEW w \in Workers, Disconnect(w) PROVE MapKey'
  BY <1>17 DEF Disconnect, Goto
<1>18. ASSUME NEW w \in Workers, Discard(w) PROVE MapKey'
  BY <1>18 DEF Discard, Close, Failing, Add, Goto
<1>19. ASSUME NEW w \in Workers, Serve(w) PROVE MapKey'
  BY <1>19 DEF Serve, Looping, NextPacket, Goto
<1>20. ASSUME NEW w \in Workers, NEW k \in Keys, Find(w, k) PROVE MapKey'
  BY <1>20 DEF Find, Looping, Hold, Add, Goto
<1>21. ASSUME NEW w \in Workers, Return(w) PROVE MapKey'
  BY <1>21 DEF Return, NextPacket, Add, Goto
<1>22. ASSUME NEW w \in Workers, FirstRequest(w) PROVE MapKey'
  BY <1>22 DEF FirstRequest, Looping, Goto
<1>23. ASSUME NEW w \in Workers, First(w) PROVE MapKey'
  BY <1>23 DEF First, NextPacket, Add, Goto
<1>24. ASSUME NEW w \in Workers, Attach(w) PROVE MapKey'
  BY <1>24 DEF Attach, Goto
<1>25. ASSUME NEW w \in Workers, AddLogical(w) PROVE MapKey'
  BY <1>25 DEF AddLogical, Hold, Add, Goto
<1>26. ASSUME NEW w \in Workers, Replace(w) PROVE MapKey'
  BY <1>26 DEF Replace, Goto
<1>27. ASSUME NEW w \in Workers, Silent(w) PROVE MapKey'
  BY <1>27 DEF Silent, Close, Failing, Add, Goto
<1>28. ASSUME NEW w \in Workers, Readd(w) PROVE MapKey'
  BY <1>28 DEF Readd, Hold, Add, Goto
<1>29. ASSUME NEW w \in Workers, Stream(w) PROVE MapKey'
  BY <1>29 DEF Stream, Add, Goto
<1>30. ASSUME NEW w \in Workers, LoggedIn(w) PROVE MapKey'
  BY <1>30 DEF LoggedIn, Welcome, NextPacket, Add
<1>31. ASSUME NEW w \in Workers, ReadNext(w) PROVE MapKey'
  BY <1>31 DEF ReadNext, PostReceive, EndOfBuffer, Goto
<1>32. ASSUME NEW w \in Workers, CountRead(w) PROVE MapKey'
  BY <1>32 DEF CountRead, Add, Goto
<1>33. ASSUME NEW w \in Workers, Release(w) PROVE MapKey'
  BY <1>33 DEF Release, Add, Done
<1> QED BY <1>1, <1>2, <1>3, <1>4, <1>5, <1>6, <1>7, <1>8, <1>9, <1>10, <1>11, <1>12,
           <1>13, <1>14, <1>15, <1>16, <1>17, <1>18, <1>19, <1>20, <1>21, <1>22, <1>23,
           <1>24, <1>25, <1>26, <1>27, <1>28, <1>29, <1>30, <1>31, <1>32, <1>33
       DEF Next, Handle, Get

\* A connection past its first packets is one that is attached, or being attached.
LEMMA PlacesStep == ASSUME TypeOK, HasConn, Started, Alone, FreshIsNew, Places, Next
                    PROVE  Places'
<1> USE ClientsAssumption DEF ClientsAssumption, TypeOK, Statuses, Reads, Writes, Steps,
            Joining, Late, Alive, HasConn, Started, Alone, FreshIsNew, Places, Fresh,
            PreMap, Active, At, worker, conn, port, life
<1>1. ASSUME NEW c \in Conns, Accept(c) PROVE Places'
  BY <1>1 DEF Accept
<1>2. ASSUME NEW c \in Conns, Arrive(c) PROVE Places'
  BY <1>2 DEF Arrive
<1>3. ASSUME NEW c \in Conns, Sent(c) PROVE Places'
  BY <1>3 DEF Sent
<1>4. ASSUME NEW c \in Conns, Fail(c) PROVE Places'
  BY <1>4 DEF Fail, Failing
<1>5. ASSUME NEW c \in Conns, Expire(c) PROVE Places'
  BY <1>5 DEF Expire, Close, Failing
<1>6. ASSUME NEW c \in Conns, Collect(c) PROVE Places'
  BY <1>6 DEF Collect, Add
<1>7. ASSUME NEW c \in Conns, Drop(c) PROVE Places'
  BY <1>7 DEF Drop, Add
<1>8. ASSUME NEW c \in Conns, Broadcast(c) PROVE Places'
  BY <1>8 DEF Broadcast
<1>9. ASSUME NEW w \in Workers, NEW c \in Conns, NEW n \in 0 .. MaxBurst, GetRead(w, c, n)
       PROVE Places'
  BY <1>9 DEF GetRead, Take
<1>10. ASSUME NEW w \in Workers, NEW c \in Conns, GetWritten(w, c) PROVE Places'
  BY <1>10 DEF GetWritten, Take
<1>11. ASSUME NEW w \in Workers, NEW c \in Conns, GetAccepted(w, c) PROVE Places'
  BY <1>11 DEF GetAccepted, Take
<1>12. ASSUME NEW w \in Workers, FirstRead(w) PROVE Places'
  BY <1>12 DEF FirstRead, PostReceive, Done, Goto, MyKey
<1>13. ASSUME NEW w \in Workers, CountFirst(w) PROVE Places'
  BY <1>13 DEF CountFirst, Add, Done, MyKey
<1>14. ASSUME NEW w \in Workers, OnSendCompleted(w) PROVE Places'
  BY <1>14 DEF OnSendCompleted, Goto, MyKey
<1>15. ASSUME NEW w \in Workers, ReadStatus(w) PROVE Places'
  BY <1>15 DEF ReadStatus, Goto, MyKey
<1>16. ASSUME NEW w \in Workers, PeerClosed(w) PROVE Places'
  BY <1>16 DEF PeerClosed, Close, Failing, Goto, MyKey
<1>17. ASSUME NEW w \in Workers, Disconnect(w) PROVE Places'
  BY <1>17 DEF Disconnect, Goto, MyKey
<1>18. ASSUME NEW w \in Workers, Discard(w) PROVE Places'
  BY <1>18 DEF Discard, Close, Failing, Add, Goto, MyKey
<1>19. ASSUME NEW w \in Workers, Serve(w) PROVE Places'
  BY <1>19 DEF Serve, Looping, NextPacket, Goto, MyKey
<1>20. ASSUME NEW w \in Workers, NEW k \in Keys, Find(w, k) PROVE Places'
  BY <1>20 DEF Find, Looping, Hold, Add, Goto, MyKey
<1>21. ASSUME NEW w \in Workers, Return(w) PROVE Places'
  BY <1>21 DEF Return, NextPacket, Add, Goto, MyKey
<1>22. ASSUME NEW w \in Workers, FirstRequest(w) PROVE Places'
  BY <1>22 DEF FirstRequest, Looping, Goto, MyKey
<1>23. ASSUME NEW w \in Workers, First(w) PROVE Places'
  BY <1>23 DEF First, NextPacket, Add, Goto, MyKey
<1>24. ASSUME NEW w \in Workers, Attach(w) PROVE Places'
  BY <1>24 DEF Attach, Goto, MyKey
<1>25. ASSUME NEW w \in Workers, AddLogical(w) PROVE Places'
  BY <1>25 DEF AddLogical, Hold, Add, Goto, MyKey
<1>26. ASSUME NEW w \in Workers, Replace(w) PROVE Places'
  BY <1>26 DEF Replace, Goto, MyKey
<1>27. ASSUME NEW w \in Workers, Silent(w) PROVE Places'
  BY <1>27 DEF Silent, Close, Failing, Add, Goto, MyKey
<1>28. ASSUME NEW w \in Workers, Readd(w) PROVE Places'
  BY <1>28 DEF Readd, Hold, Add, Goto, MyKey
<1>29. ASSUME NEW w \in Workers, Stream(w) PROVE Places'
  BY <1>29 DEF Stream, Add, Goto, MyKey
<1>30. ASSUME NEW w \in Workers, LoggedIn(w) PROVE Places'
  BY <1>30 DEF LoggedIn, Welcome, NextPacket, Add, MyKey
<1>31. ASSUME NEW w \in Workers, ReadNext(w) PROVE Places'
  BY <1>31 DEF ReadNext, PostReceive, EndOfBuffer, Goto, MyKey
<1>32. ASSUME NEW w \in Workers, CountRead(w) PROVE Places'
  BY <1>32 DEF CountRead, Add, Goto, MyKey
<1>33. ASSUME NEW w \in Workers, Release(w) PROVE Places'
  BY <1>33 DEF Release, Add, Done, MyKey
<1> QED BY <1>1, <1>2, <1>3, <1>4, <1>5, <1>6, <1>7, <1>8, <1>9, <1>10, <1>11, <1>12,
           <1>13, <1>14, <1>15, <1>16, <1>17, <1>18, <1>19, <1>20, <1>21, <1>22, <1>23,
           <1>24, <1>25, <1>26, <1>27, <1>28, <1>29, <1>30, <1>31, <1>32, <1>33
       DEF Next, Handle, Get

\* A second AddLogicalConnection ends the freshness of the connection that logs in.
LEMMA ReaddFresh ==
    ASSUME TypeOK, HasConn, Alone, Others, Places, FreshIsNew, NEW w \in Workers, Readd(w)
    PROVE  FreshIsNew'
<1>1. my[w] \in Conns /\ MyKey(w) \in Keys /\ Fresh(my[w]) /\ other[w] \in Conns
  BY ClientsAssumption DEF ClientsAssumption, Readd, At, MyKey, HasConn, Others, Fresh, PreMap
<1>2. UNCHANGED <<my, stage>> /\ pc' = [pc EXCEPT ![w] = "restream"]
  BY DEF Readd, Hold, conn
<1>3. \A c \in Conns : Fresh(c)' => Fresh(c) /\ c # my[w]
  <2> SUFFICES ASSUME NEW c \in Conns, Fresh(c)' PROVE Fresh(c) /\ c # my[w]
    OBVIOUS
  <2>1. Fresh(c)
    BY <1>2 DEF Fresh, PreMap, TypeOK
  <2>2. stage[my[w]] = "connected"
    BY DEF Readd, At, Places, PreMap
  <2>3. \A v \in Workers : pc[v] \in PreMap /\ my[v] = my[w] => v = w
    BY DEF Readd, At, Alone, Active, PreMap, Steps
  <2>4. c # my[w]
    BY <1>2, <2>2, <2>3 DEF Fresh, PreMap, TypeOK
  <2> QED BY <2>1, <2>4
<1>4. ASSUME NEW c \in Conns, Fresh(c), c # my[w]
      PROVE  /\ \A k \in Keys : map'[k] # c
             /\ \A v \in Workers : other'[v] # c
             /\ usage'[c] = 0
  BY <1>1, <1>4, ClientsAssumption DEF ClientsAssumption, Readd, Hold, Add, FreshIsNew, TypeOK
<1>5. UNCHANGED <<waiting, deleted, streamed>>
  BY DEF Readd
<1> QED BY <1>3, <1>4, <1>5 DEF FreshIsNew

\* Before its login has put it into the map nobody knows a connection.
LEMMA FreshStep == ASSUME TypeOK, HasConn, Started, Alone, Others, Places, Disposed,
                          FreshIsNew, Next
                   PROVE  FreshIsNew'
<1>28. ASSUME NEW w \in Workers, Readd(w) PROVE FreshIsNew'
  BY <1>28, ReaddFresh
<1> USE ClientsAssumption DEF ClientsAssumption, TypeOK, Statuses, Reads, Writes, Steps,
            Joining, Late, Alive, HasConn, Started, Alone, Others, Places, FreshIsNew,
            Fresh, PreMap, Active, At, MyKey, worker, conn, port, life
<1>1. ASSUME NEW c \in Conns, Accept(c) PROVE FreshIsNew'
  BY <1>1 DEF Accept
<1>2. ASSUME NEW c \in Conns, Arrive(c) PROVE FreshIsNew'
  BY <1>2 DEF Arrive
<1>3. ASSUME NEW c \in Conns, Sent(c) PROVE FreshIsNew'
  BY <1>3 DEF Sent
<1>4. ASSUME NEW c \in Conns, Fail(c) PROVE FreshIsNew'
  BY <1>4 DEF Fail, Failing
<1>5. ASSUME NEW c \in Conns, Expire(c) PROVE FreshIsNew'
  BY <1>5 DEF Expire
<1>6. ASSUME NEW c \in Conns, Collect(c) PROVE FreshIsNew'
  BY <1>6 DEF Collect, Add
<1>7. ASSUME NEW c \in Conns, Drop(c) PROVE FreshIsNew'
  BY <1>7 DEF Drop, Add
<1>8. ASSUME NEW c \in Conns, Broadcast(c) PROVE FreshIsNew'
  BY <1>8 DEF Broadcast
<1>9. ASSUME NEW w \in Workers, NEW c \in Conns, NEW n \in 0 .. MaxBurst, GetRead(w, c, n)
       PROVE FreshIsNew'
  BY <1>9 DEF GetRead, Take
<1>10. ASSUME NEW w \in Workers, NEW c \in Conns, GetWritten(w, c) PROVE FreshIsNew'
  BY <1>10 DEF GetWritten, Take
<1>11. ASSUME NEW w \in Workers, NEW c \in Conns, GetAccepted(w, c) PROVE FreshIsNew'
  BY <1>11 DEF GetAccepted, Take
<1>12. ASSUME NEW w \in Workers, FirstRead(w) PROVE FreshIsNew'
  BY <1>12 DEF FirstRead, PostReceive, Done, Goto
<1>13. ASSUME NEW w \in Workers, CountFirst(w) PROVE FreshIsNew'
  BY <1>13 DEF CountFirst, Add, Done
<1>14. ASSUME NEW w \in Workers, OnSendCompleted(w) PROVE FreshIsNew'
  BY <1>14 DEF OnSendCompleted, Goto
<1>15. ASSUME NEW w \in Workers, ReadStatus(w) PROVE FreshIsNew'
  BY <1>15 DEF ReadStatus, Goto
<1>16. ASSUME NEW w \in Workers, PeerClosed(w) PROVE FreshIsNew'
  BY <1>16 DEF PeerClosed, Goto
<1>17. ASSUME NEW w \in Workers, Disconnect(w) PROVE FreshIsNew'
  BY <1>17 DEF Disconnect, Goto
<1>18. ASSUME NEW w \in Workers, Discard(w) PROVE FreshIsNew'
  BY <1>18 DEF Discard, Add, Goto
<1>19. ASSUME NEW w \in Workers, Serve(w) PROVE FreshIsNew'
  BY <1>19 DEF Serve, Looping, NextPacket, Goto
<1>20. ASSUME NEW w \in Workers, NEW k \in Keys, Find(w, k) PROVE FreshIsNew'
  BY <1>20 DEF Find, Looping, Hold, Add, Goto
<1>21. ASSUME NEW w \in Workers, Return(w) PROVE FreshIsNew'
  BY <1>21 DEF Return, NextPacket, Add, Goto
<1>22. ASSUME NEW w \in Workers, FirstRequest(w) PROVE FreshIsNew'
  BY <1>22 DEF FirstRequest, Looping, Goto
<1>23. ASSUME NEW w \in Workers, First(w) PROVE FreshIsNew'
  BY <1>23 DEF First, NextPacket, Add, Goto
<1>24. ASSUME NEW w \in Workers, Attach(w) PROVE FreshIsNew'
  BY <1>24 DEF Attach, Goto
<1>25. ASSUME NEW w \in Workers, AddLogical(w) PROVE FreshIsNew'
  BY <1>25 DEF AddLogical, Hold, Add, Goto
<1>26. ASSUME NEW w \in Workers, Replace(w) PROVE FreshIsNew'
  BY <1>26 DEF Replace, Goto
<1>27. ASSUME NEW w \in Workers, Silent(w) PROVE FreshIsNew'
  BY <1>27 DEF Silent, Add, Goto
<1>29. ASSUME NEW w \in Workers, Stream(w) PROVE FreshIsNew'
  <2>1. my[w] \in Conns /\ stage[my[w]] = "connected"
    BY <1>29 DEF Stream
  <2>2. ~Fresh(my[w])
    BY <1>29, <2>1 DEF Stream
  <2>3. \A c \in Conns : Fresh(c)' => Fresh(c)
    BY <1>29 DEF Stream, Goto
  <2> HIDE DEF Fresh, Alone, Started, Places, Others
  <2> QED BY <1>29, <2>1, <2>2, <2>3 DEF Stream, Add, Goto
<1>30. ASSUME NEW w \in Workers, LoggedIn(w) PROVE FreshIsNew'
  BY <1>30 DEF LoggedIn, Welcome, NextPacket, Add
<1>31. ASSUME NEW w \in Workers, ReadNext(w) PROVE FreshIsNew'
  BY <1>31 DEF ReadNext, PostReceive, EndOfBuffer, Goto
<1>32. ASSUME NEW w \in Workers, CountRead(w) PROVE FreshIsNew'
  BY <1>32 DEF CountRead, Add, Goto
<1>33. ASSUME NEW w \in Workers, Release(w) PROVE FreshIsNew'
  BY <1>33 DEF Release, Add, Done
<1> QED BY <1>1, <1>2, <1>3, <1>4, <1>5, <1>6, <1>7, <1>8, <1>9, <1>10, <1>11, <1>12,
           <1>13, <1>14, <1>15, <1>16, <1>17, <1>18, <1>19, <1>20, <1>21, <1>22, <1>23,
           <1>24, <1>25, <1>26, <1>27, <1>28, <1>29, <1>30, <1>31, <1>32, <1>33
       DEF Next, Handle, Get

\* A client that is given to the garbage collector has left the map.
LEMMA DisposedStep == ASSUME TypeOK, HasConn, Alone, Others, MapKey, Places, FreshIsNew,
                             Disposed, Next
                      PROVE  Disposed'
<1> USE ClientsAssumption DEF ClientsAssumption, TypeOK, Statuses, Reads, Writes, Steps,
            Joining, Late, Alive, HasConn, Alone, Others, MapKey, Places, FreshIsNew,
            Fresh, Disposed, Disposing, PreMap, Active, At, MyKey, worker, conn, port,
            life
<1>1. ASSUME NEW c \in Conns, Accept(c) PROVE Disposed'
  BY <1>1 DEF Accept
<1>2. ASSUME NEW c \in Conns, Arrive(c) PROVE Disposed'
  BY <1>2 DEF Arrive
<1>3. ASSUME NEW c \in Conns, Sent(c) PROVE Disposed'
  BY <1>3 DEF Sent
<1>4. ASSUME NEW c \in Conns, Fail(c) PROVE Disposed'
  BY <1>4 DEF Fail, Failing
<1>5. ASSUME NEW c \in Conns, Expire(c) PROVE Disposed'
  BY <1>5 DEF Expire, Close, Failing
<1>6. ASSUME NEW c \in Conns, Collect(c) PROVE Disposed'
  BY <1>6 DEF Collect, Add
<1>7. ASSUME NEW c \in Conns, Drop(c) PROVE Disposed'
  BY <1>7 DEF Drop, Add
<1>8. ASSUME NEW c \in Conns, Broadcast(c) PROVE Disposed'
  BY <1>8 DEF Broadcast
<1>9. ASSUME NEW w \in Workers, NEW c \in Conns, NEW n \in 0 .. MaxBurst, GetRead(w, c, n)
       PROVE Disposed'
  BY <1>9 DEF GetRead, Take
<1>10. ASSUME NEW w \in Workers, NEW c \in Conns, GetWritten(w, c) PROVE Disposed'
  BY <1>10 DEF GetWritten, Take
<1>11. ASSUME NEW w \in Workers, NEW c \in Conns, GetAccepted(w, c) PROVE Disposed'
  BY <1>11 DEF GetAccepted, Take
<1>12. ASSUME NEW w \in Workers, FirstRead(w) PROVE Disposed'
  BY <1>12 DEF FirstRead, PostReceive, Done, Goto
<1>13. ASSUME NEW w \in Workers, CountFirst(w) PROVE Disposed'
  BY <1>13 DEF CountFirst, Add, Done
<1>14. ASSUME NEW w \in Workers, OnSendCompleted(w) PROVE Disposed'
  BY <1>14 DEF OnSendCompleted, Goto
<1>15. ASSUME NEW w \in Workers, ReadStatus(w) PROVE Disposed'
  BY <1>15 DEF ReadStatus, Goto
<1>16. ASSUME NEW w \in Workers, PeerClosed(w) PROVE Disposed'
  BY <1>16 DEF PeerClosed, Close, Failing, Goto
<1>17. ASSUME NEW w \in Workers, Disconnect(w) PROVE Disposed'
  BY <1>17 DEF Disconnect, Goto
<1>18. ASSUME NEW w \in Workers, Discard(w) PROVE Disposed'
  BY <1>18 DEF Discard, Close, Failing, Add, Goto
<1>19. ASSUME NEW w \in Workers, Serve(w) PROVE Disposed'
  BY <1>19 DEF Serve, Looping, NextPacket, Goto
<1>20. ASSUME NEW w \in Workers, NEW k \in Keys, Find(w, k) PROVE Disposed'
  BY <1>20 DEF Find, Looping, Hold, Add, Goto
<1>21. ASSUME NEW w \in Workers, Return(w) PROVE Disposed'
  BY <1>21 DEF Return, NextPacket, Add, Goto
<1>22. ASSUME NEW w \in Workers, FirstRequest(w) PROVE Disposed'
  BY <1>22 DEF FirstRequest, Looping, Goto
<1>23. ASSUME NEW w \in Workers, First(w) PROVE Disposed'
  BY <1>23 DEF First, NextPacket, Add, Goto
<1>24. ASSUME NEW w \in Workers, Attach(w) PROVE Disposed'
  BY <1>24 DEF Attach, Goto
<1>25. ASSUME NEW w \in Workers, AddLogical(w) PROVE Disposed'
  BY <1>25 DEF AddLogical, Hold, Add, Goto
<1>26. ASSUME NEW w \in Workers, Replace(w) PROVE Disposed'
  BY <1>26 DEF Replace, Goto
<1>27. ASSUME NEW w \in Workers, Silent(w) PROVE Disposed'
  BY <1>27 DEF Silent, Close, Failing, Add, Goto
<1>28. ASSUME NEW w \in Workers, Readd(w) PROVE Disposed'
  BY <1>28 DEF Readd, Hold, Add, Goto
<1>29. ASSUME NEW w \in Workers, Stream(w) PROVE Disposed'
  BY <1>29 DEF Stream, Add, Goto
<1>30. ASSUME NEW w \in Workers, LoggedIn(w) PROVE Disposed'
  BY <1>30 DEF LoggedIn, Welcome, NextPacket, Add
<1>31. ASSUME NEW w \in Workers, ReadNext(w) PROVE Disposed'
  BY <1>31 DEF ReadNext, PostReceive, EndOfBuffer, Goto
<1>32. ASSUME NEW w \in Workers, CountRead(w) PROVE Disposed'
  BY <1>32 DEF CountRead, Add, Goto
<1>33. ASSUME NEW w \in Workers, Release(w) PROVE Disposed'
  BY <1>33 DEF Release, Add, Done
<1> QED BY <1>1, <1>2, <1>3, <1>4, <1>5, <1>6, <1>7, <1>8, <1>9, <1>10, <1>11, <1>12,
           <1>13, <1>14, <1>15, <1>16, <1>17, <1>18, <1>19, <1>20, <1>21, <1>22, <1>23,
           <1>24, <1>25, <1>26, <1>27, <1>28, <1>29, <1>30, <1>31, <1>32, <1>33
       DEF Next, Handle, Get

----------------------------------------------------------------------------
(* How the references are counted.  Most steps move none; every step but   *)
(* the second AddLogicalConnection of a login keeps usage and holders even.*)
Counting ==
    \/ \E c \in Conns : Drop(c)
    \/ \E w \in Workers : \/ (\E k \in Keys : Find(w, k)) \/ Return(w)
                        \/ AddLogical(w) \/ Readd(w) \/ Stream(w) \/ LoggedIn(w)
Quiet ==
    /\ UNCHANGED <<usage, streamed>>
    /\ \A c \in Conns : Users(c)' = Users(c) /\ (Known(c)' => Known(c))
Even == \A c \in Conns : usage'[c] - Holders(c)' = usage[c] - Holders(c)

\* The steps that move references are the seven of Counting.
LEMMA QuietStep == ASSUME TypeOK, HasConn, Others, Next
                   PROVE  Quiet \/ Counting
<1> USE ClientsAssumption DEF ClientsAssumption, TypeOK, Statuses, Reads, Writes, Steps,
            Joining, Late, Alive, HasConn, Others, Quiet, Users, Uses, Known, At, MyKey,
            worker, conn, port, life
<1>1. ASSUME NEW c \in Conns, Accept(c) PROVE Quiet \/ Counting
  BY <1>1 DEF Accept
<1>2. ASSUME NEW c \in Conns, Arrive(c) PROVE Quiet \/ Counting
  BY <1>2 DEF Arrive
<1>3. ASSUME NEW c \in Conns, Sent(c) PROVE Quiet \/ Counting
  BY <1>3 DEF Sent
<1>4. ASSUME NEW c \in Conns, Fail(c) PROVE Quiet \/ Counting
  BY <1>4 DEF Fail, Failing
<1>5. ASSUME NEW c \in Conns, Expire(c) PROVE Quiet \/ Counting
  BY <1>5 DEF Expire, Close, Failing
<1>6. ASSUME NEW c \in Conns, Collect(c) PROVE Quiet \/ Counting
  BY <1>6 DEF Collect, Add
<1>7. ASSUME NEW c \in Conns, Drop(c) PROVE Quiet \/ Counting
  BY <1>7 DEF Counting
<1>8. ASSUME NEW c \in Conns, Broadcast(c) PROVE Quiet \/ Counting
  BY <1>8 DEF Broadcast
<1>9. ASSUME NEW w \in Workers, NEW c \in Conns, NEW n \in 0 .. MaxBurst, GetRead(w, c, n)
       PROVE Quiet \/ Counting
  BY <1>9 DEF GetRead, Take
<1>10. ASSUME NEW w \in Workers, NEW c \in Conns, GetWritten(w, c) PROVE Quiet \/ Counting
  BY <1>10 DEF GetWritten, Take
<1>11. ASSUME NEW w \in Workers, NEW c \in Conns, GetAccepted(w, c) PROVE Quiet \/ Counting
  BY <1>11 DEF GetAccepted, Take
<1>12. ASSUME NEW w \in Workers, FirstRead(w) PROVE Quiet \/ Counting
  BY <1>12 DEF FirstRead, PostReceive, Done, Goto
<1>13. ASSUME NEW w \in Workers, CountFirst(w) PROVE Quiet \/ Counting
  BY <1>13 DEF CountFirst, Add, Done
<1>14. ASSUME NEW w \in Workers, OnSendCompleted(w) PROVE Quiet \/ Counting
  BY <1>14 DEF OnSendCompleted, Goto
<1>15. ASSUME NEW w \in Workers, ReadStatus(w) PROVE Quiet \/ Counting
  BY <1>15 DEF ReadStatus, Goto
<1>16. ASSUME NEW w \in Workers, PeerClosed(w) PROVE Quiet \/ Counting
  BY <1>16 DEF PeerClosed, Close, Failing, Goto
<1>17. ASSUME NEW w \in Workers, Disconnect(w) PROVE Quiet \/ Counting
  BY <1>17 DEF Disconnect, Goto
<1>18. ASSUME NEW w \in Workers, Discard(w) PROVE Quiet \/ Counting
  BY <1>18 DEF Discard, Close, Failing, Add, Goto
<1>19. ASSUME NEW w \in Workers, Serve(w) PROVE Quiet \/ Counting
  BY <1>19 DEF Serve, Looping, NextPacket, Goto
<1>20. ASSUME NEW w \in Workers, NEW k \in Keys, Find(w, k) PROVE Quiet \/ Counting
  BY <1>20 DEF Counting
<1>21. ASSUME NEW w \in Workers, Return(w) PROVE Quiet \/ Counting
  BY <1>21 DEF Counting
<1>22. ASSUME NEW w \in Workers, FirstRequest(w) PROVE Quiet \/ Counting
  BY <1>22 DEF FirstRequest, Looping, Goto
<1>23. ASSUME NEW w \in Workers, First(w) PROVE Quiet \/ Counting
  BY <1>23 DEF First, NextPacket, Add, Goto
<1>24. ASSUME NEW w \in Workers, Attach(w) PROVE Quiet \/ Counting
  BY <1>24 DEF Attach, Goto
<1>25. ASSUME NEW w \in Workers, AddLogical(w) PROVE Quiet \/ Counting
  BY <1>25 DEF Counting
<1>26. ASSUME NEW w \in Workers, Replace(w) PROVE Quiet \/ Counting
  BY <1>26 DEF Replace, Goto
<1>27. ASSUME NEW w \in Workers, Silent(w) PROVE Quiet \/ Counting
  BY <1>27 DEF Silent, Close, Failing, Add, Goto
<1>28. ASSUME NEW w \in Workers, Readd(w) PROVE Quiet \/ Counting
  BY <1>28 DEF Counting
<1>29. ASSUME NEW w \in Workers, Stream(w) PROVE Quiet \/ Counting
  BY <1>29 DEF Counting
<1>30. ASSUME NEW w \in Workers, LoggedIn(w) PROVE Quiet \/ Counting
  BY <1>30 DEF Counting
<1>31. ASSUME NEW w \in Workers, ReadNext(w) PROVE Quiet \/ Counting
  BY <1>31 DEF ReadNext, PostReceive, EndOfBuffer, Goto
<1>32. ASSUME NEW w \in Workers, CountRead(w) PROVE Quiet \/ Counting
  BY <1>32 DEF CountRead, Add, Goto
<1>33. ASSUME NEW w \in Workers, Release(w) PROVE Quiet \/ Counting
  BY <1>33 DEF Release, Add, Done
<1> QED BY <1>1, <1>2, <1>3, <1>4, <1>5, <1>6, <1>7, <1>8, <1>9, <1>10, <1>11, <1>12,
           <1>13, <1>14, <1>15, <1>16, <1>17, <1>18, <1>19, <1>20, <1>21, <1>22, <1>23,
           <1>24, <1>25, <1>26, <1>27, <1>28, <1>29, <1>30, <1>31, <1>32, <1>33
       DEF Next, Handle, Get

\* One worker more or less is one holder more or less.
LEMMA UsersCount ==
    ASSUME NEW S \in SUBSET Workers, NEW w \in Workers
    PROVE  /\ Cardinality(S) \in Nat
           /\ w \notin S => Cardinality(S \cup {w}) = Cardinality(S) + 1
           /\ w \in S => Cardinality(S \ {w}) = Cardinality(S) - 1
<1>1. IsFiniteSet(S)
  BY FS_Subset, ClientsAssumption DEF ClientsAssumption
<1> QED BY <1>1, FS_AddElement, FS_RemoveElement, FS_CardinalityType

\* The number of holders is a number.
LEMMA HoldersInt == ASSUME NEW c \in Conns PROVE Holders(c) \in Nat /\ Cardinality(Users(c)) \in Nat
<1>1. Users(c) \in SUBSET Workers
  BY DEF Users
<1>2. IsFiniteSet(Users(c))
  BY <1>1, FS_Subset, ClientsAssumption DEF ClientsAssumption
<1> QED BY <1>2, FS_CardinalityType DEF Holders

\* A connection before its login has no holder and no reference.
LEMMA FreshHolders ==
    ASSUME TypeOK, Alone, Places, Others, FreshIsNew, NEW c \in Conns, Fresh(c)
    PROVE  Users(c) = {} /\ Holders(c) = 0 /\ usage[c] = 0
<1>1. Users(c) = {}
  BY ClientsAssumption DEF ClientsAssumption, TypeOK, Statuses, Steps, Joining, Late, Alive,
     Alone, Places, Others, FreshIsNew, Fresh, PreMap, Active, Users, Uses, Joining
<1>2. c \notin streamed /\ usage[c] = 0
  BY DEF FreshIsNew
<1> QED BY <1>1, <1>2, FS_EmptySet DEF Holders

\* Every step but Readd changes the usage of a client as it changes its holders.
LEMMA EvenStep ==
    ASSUME TypeOK, HasConn, Alone, Others, Places, FreshIsNew, MapKey, Next,
           ~ \E w \in Workers : Readd(w)
    PROVE  Even
<1> SUFFICES ASSUME NEW c \in Conns PROVE usage'[c] - Holders(c)' = usage[c] - Holders(c)
  BY DEF Even
<1> USE ClientsAssumption DEF ClientsAssumption
<1>0. Holders(c) \in Nat /\ Cardinality(Users(c)) \in Nat /\ usage[c] \in Int
  BY HoldersInt DEF TypeOK
<1>1. CASE Quiet
  BY <1>0, <1>1 DEF Quiet, Holders
<1>2. ASSUME NEW d \in Conns, Drop(d) PROVE usage'[c] - Holders(c)' = usage[c] - Holders(c)
  <2>1. Users(c)' = Users(c)
    BY <1>2 DEF Drop, Users, Uses, Joining, worker
  <2>2. CASE c = d
    BY <1>0, <1>2, <2>1, <2>2 DEF Drop, Add, Holders, TypeOK
  <2>3. CASE c # d
    BY <1>0, <1>2, <2>1, <2>3 DEF Drop, Add, Holders, TypeOK
  <2> QED BY <2>2, <2>3
<1>3. ASSUME NEW w \in Workers, NEW k \in Keys, Find(w, k)
      PROVE  usage'[c] - Holders(c)' = usage[c] - Holders(c)
  <2>1. CASE c = map[k]
    <3>1. Users(c)' = Users(c) \cup {w} /\ w \notin Users(c)
      BY <1>3, <2>1 DEF Find, Looping, Hold, At, Users, Uses, Joining, Others, TypeOK, Steps
    <3>2. Cardinality(Users(c)') = Cardinality(Users(c)) + 1
      BY <3>1, UsersCount DEF Users
    <3> QED BY <1>0, <1>3, <2>1, <3>2 DEF Find, Add, Holders, TypeOK
  <2>2. CASE c # map[k]
    <3>1. Users(c)' = Users(c)
      BY <1>3, <2>2 DEF Find, Looping, Hold, At, Users, Uses, Joining, Others, TypeOK, Steps
    <3> QED BY <1>0, <1>3, <2>2, <3>1 DEF Find, Add, Holders, TypeOK
  <2> QED BY <2>1, <2>2
<1>4. ASSUME NEW w \in Workers, Return(w) PROVE usage'[c] - Holders(c)' = usage[c] - Holders(c)
  <2>1. CASE c = other[w]
    <3>1. Users(c)' = Users(c) \ {w} /\ w \in Users(c)
      BY <1>4, <2>1 DEF Return, NextPacket, At, Users, Uses, Joining, Others, TypeOK, Steps
    <3>2. Cardinality(Users(c)') = Cardinality(Users(c)) - 1
      BY <3>1, UsersCount DEF Users
    <3> QED BY <1>0, <1>4, <2>1, <3>2 DEF Return, Add, Holders, TypeOK
  <2>2. CASE c # other[w]
    <3>1. Users(c)' = Users(c)
      BY <1>4, <2>2 DEF Return, NextPacket, At, Users, Uses, Joining, Others, TypeOK, Steps
    <3> QED BY <1>0, <1>4, <2>2, <3>1 DEF Return, Add, Holders, TypeOK
  <2> QED BY <2>1, <2>2
<1>5. ASSUME NEW w \in Workers, AddLogical(w) PROVE usage'[c] - Holders(c)' = usage[c] - Holders(c)
  <2> DEFINE d == IF map[MyKey(w)] = None THEN my[w] ELSE map[MyKey(w)]
  <2>1. my[w] \in Conns /\ MyKey(w) \in Keys
    BY <1>5 DEF AddLogical, At, HasConn, MyKey
  <2>2. usage' = Add(usage, d, 1) /\ streamed' = streamed /\ d \in Conns
    BY <1>5, <2>1 DEF AddLogical, TypeOK
  <2>3. other[w] = None
    BY <1>5 DEF AddLogical, At, Others
  <2>4. \A v \in Workers : v # w => (Uses(v, c)' <=> Uses(v, c))
    BY <1>5 DEF AddLogical, Goto, Hold, Uses, Joining, TypeOK
  <2>5. ~Uses(w, c) /\ (Uses(w, c)' <=> c = d)
    BY <1>5, <2>1, <2>2, <2>3 DEF AddLogical, At, Goto, Hold, Uses, Joining, TypeOK
  <2> HIDE DEF d
  <2>6. CASE c = d
    <3>1. Users(c)' = Users(c) \cup {w} /\ w \notin Users(c)
      BY <2>4, <2>5, <2>6 DEF Users
    <3>2. Cardinality(Users(c)') = Cardinality(Users(c)) + 1
      BY <3>1, UsersCount DEF Users
    <3> QED BY <1>0, <2>2, <2>6, <3>2 DEF Add, Holders, TypeOK
  <2>7. CASE c # d
    <3>1. Users(c)' = Users(c)
      BY <2>4, <2>5, <2>7 DEF Users
    <3> QED BY <1>0, <2>2, <2>7, <3>1 DEF Add, Holders, TypeOK
  <2> QED BY <2>6, <2>7
<1>6. ASSUME NEW w \in Workers, Stream(w) PROVE usage'[c] - Holders(c)' = usage[c] - Holders(c)
  <2>1. Users(c)' = Users(c)
    BY <1>6 DEF Stream, Goto, At, Users, Uses, Joining, TypeOK, Steps
  <2>2. my[w] \in Conns /\ my[w] \notin streamed
    BY <1>6 DEF Stream, At, HasConn, Places
  <2>3. CASE c = my[w]
    BY <1>0, <1>6, <2>1, <2>2, <2>3 DEF Stream, Add, Holders, TypeOK
  <2>4. CASE c # my[w]
    BY <1>0, <1>6, <2>1, <2>2, <2>4 DEF Stream, Add, Holders, TypeOK
  <2> QED BY <2>3, <2>4
<1>7. ASSUME NEW w \in Workers, LoggedIn(w) PROVE usage'[c] - Holders(c)' = usage[c] - Holders(c)
  <2>0. my[w] \in Conns /\ other[w] = None
    BY <1>7 DEF LoggedIn, Welcome, HasConn, Others
  <2>1. CASE c = my[w]
    <3>1. Users(c)' = Users(c) \ {w} /\ w \in Users(c)
      BY <1>7, <2>0, <2>1 DEF LoggedIn, Welcome, NextPacket, Users, Uses, Joining, TypeOK, Steps
    <3>2. Cardinality(Users(c)') = Cardinality(Users(c)) - 1
      BY <3>1, UsersCount DEF Users
    <3> QED BY <1>0, <1>7, <2>1, <3>2 DEF LoggedIn, Welcome, Add, Holders, TypeOK
  <2>2. CASE c # my[w]
    <3>1. Users(c)' = Users(c)
      BY <1>7, <2>0, <2>2 DEF LoggedIn, Welcome, NextPacket, Users, Uses, Joining, TypeOK, Steps
    <3> QED BY <1>0, <1>7, <2>2, <3>1 DEF LoggedIn, Welcome, Add, Holders, TypeOK
  <2> QED BY <2>1, <2>2
<1> QED BY QuietStep, <1>1, <1>2, <1>3, <1>4, <1>5, <1>6, <1>7 DEF Counting

\* What is found is held: the usage of a client that is known covers its holders.
LEMMA KnownStep ==
    ASSUME TypeOK, HasConn, Others, Next, ~ \E w \in Workers : Readd(w),
           NEW c \in Conns, Known(c)'
    PROVE  Known(c) \/ Fresh(c)
<1> USE ClientsAssumption DEF ClientsAssumption
<1>1. CASE Quiet
  BY <1>1 DEF Quiet
<1>2. ASSUME NEW d \in Conns, Drop(d) PROVE Known(c)
  BY <1>2 DEF Drop, Known, worker
<1>3. ASSUME NEW w \in Workers, NEW k \in Keys, Find(w, k) PROVE Known(c)
  BY <1>3 DEF Find, Hold, Known, TypeOK
<1>4. ASSUME NEW w \in Workers, Return(w) PROVE Known(c)
  BY <1>4 DEF Return, NextPacket, Known, TypeOK
<1>5. ASSUME NEW w \in Workers, AddLogical(w) PROVE Known(c) \/ Fresh(c)
  BY <1>5 DEF AddLogical, Hold, Goto, At, MyKey, Known, Fresh, PreMap, HasConn, TypeOK
<1>6. ASSUME NEW w \in Workers, Stream(w) PROVE Known(c)
  BY <1>6 DEF Stream, Goto, Known, TypeOK
<1>7. ASSUME NEW w \in Workers, LoggedIn(w) PROVE Known(c)
  BY <1>7 DEF LoggedIn, Welcome, NextPacket, Known, TypeOK
<1> QED BY QuietStep, <1>1, <1>2, <1>3, <1>4, <1>5, <1>6, <1>7 DEF Counting

\* The second AddLogicalConnection gives a reference to whoever has the key, and
\* takes none from the client that is replaced: its usage only gains.
LEMMA ReaddStep ==
    ASSUME TypeOK, HasConn, Alone, Others, Places, FreshIsNew, MapKey, Held,
           NEW w \in Workers, Readd(w)
    PROVE  Held'
<1> SUFFICES ASSUME NEW c \in Conns, Known(c)' PROVE usage'[c] >= Holders(c)'
  BY DEF Held
<1> USE ClientsAssumption DEF ClientsAssumption
<1>0. Holders(c) \in Nat /\ Cardinality(Users(c)) \in Nat /\ usage[c] \in Int
  BY HoldersInt DEF TypeOK
<1>1. my[w] \in Conns /\ MyKey(w) \in Keys /\ other[w] \in Conns /\ Fresh(my[w])
  BY DEF Readd, At, HasConn, MyKey, Others, Fresh, PreMap
<1>2. other[w] # my[w]
  BY <1>1 DEF FreshIsNew
<1>3. usage'[c] \in Int /\ usage'[c] >= usage[c] /\ streamed' = streamed
  BY <1>0 DEF Readd, Add, TypeOK
<1>4. \A v \in Workers : v # w => (Uses(v, c)' <=> Uses(v, c))
  BY DEF Readd, Hold, Uses, Joining, TypeOK
<1>5. Uses(w, c)' <=> c = my[w]
  BY <1>1 DEF Readd, Hold, Uses, Joining, TypeOK
<1>6. CASE c = my[w]
  <2>1. Users(c) = {} /\ Holders(c) = 0 /\ usage[c] = 0 /\ ~Known(c)
    BY <1>1, <1>6, FreshHolders DEF FreshIsNew, Known
  <2>2. map[MyKey(w)] = None
    BY <1>6, <2>1 DEF Readd, Hold, Known, TypeOK
  <2>3. usage'[c] = 1
    BY <1>1, <1>6, <2>1, <2>2 DEF Readd, Add, TypeOK
  <2>4. Users(c)' = Users(c) \cup {w} /\ w \notin Users(c)
    BY <1>4, <1>5, <1>6, <2>1 DEF Users
  <2>5. Cardinality(Users(c)') = Cardinality(Users(c)) + 1
    BY <2>4, UsersCount DEF Users
  <2>6. c \notin streamed
    BY <1>1, <1>6 DEF FreshIsNew
  <2>7. Cardinality(Users(c)) = 0
    BY <2>1, FS_EmptySet
  <2> QED BY <1>3, <2>3, <2>5, <2>6, <2>7 DEF Holders
<1>7. CASE c # my[w]
  <2>1. Known(c)
    BY <1>7 DEF Readd, Hold, Known, TypeOK
  <2>2. usage[c] >= Holders(c)
    BY <2>1 DEF Held
  <2>3. Users(c)' = Users(c) \ {w}
    BY <1>4, <1>5, <1>7 DEF Users
  <2>4. Cardinality(Users(c)') \in Nat /\ Cardinality(Users(c)') <= Cardinality(Users(c))
    <3>1. CASE w \in Users(c)
      BY <1>0, <2>3, <3>1, UsersCount DEF Users
    <3>2. CASE w \notin Users(c)
      <4>1. Users(c)' = Users(c)
        BY <2>3, <3>2
      <4> QED BY <1>0, <4>1
    <3> QED BY <3>1, <3>2
  <2> QED BY <1>0, <1>3, <2>2, <2>4 DEF Holders
<1> QED BY <1>6, <1>7

\* The usage of every client that is known covers its holders, whoever replaces it.
LEMMA HeldStep ==
    ASSUME TypeOK, HasConn, Alone, Others, Places, FreshIsNew, MapKey, Held, Next
    PROVE  Held'
<1>1. ASSUME NEW w \in Workers, Readd(w) PROVE Held'
  BY <1>1, ReaddStep
<1>2. ASSUME ~ \E w \in Workers : Readd(w), NEW c \in Conns, Known(c)'
      PROVE  usage'[c] >= Holders(c)'
  <2>1. usage[c] >= Holders(c)
    <3>1. CASE Fresh(c)
      BY <3>1, FreshHolders
    <3>2. CASE Known(c)
      BY <3>2 DEF Held
    <3> QED BY <1>2, <3>1, <3>2, KnownStep
  <2>2. usage'[c] - Holders(c)' = usage[c] - Holders(c)
    BY <1>2, EvenStep DEF Even
  <2>3. usage[c] \in Int /\ Holders(c) \in Nat
    BY HoldersInt DEF TypeOK
  <2>4. Cardinality(Users(c)') \in Nat
    <3>1. Users(c)' \in SUBSET Workers
      BY DEF Users
    <3>2. IsFiniteSet(Users(c)')
      BY <3>1, FS_Subset, ClientsAssumption DEF ClientsAssumption
    <3> QED BY <3>2, FS_CardinalityType
  <2>5. Holders(c)' \in Nat
    BY <2>4 DEF Holders
  <2>6. usage'[c] \in Int
    BY TypeStep, ClientsAssumption DEF TypeOK
  <2> QED BY <2>1, <2>2, <2>3, <2>5, <2>6
<1> QED BY <1>1, <1>2 DEF Held

\* So a client that a worker has in its hand is not deleted.
InHand == \A w \in Workers : other[w] \notin deleted

\* The garbage collector does not take a client that a worker has in hand.
LEMMA CollectInHand ==
    ASSUME TypeOK, Held, NEW c \in Conns, Collect(c)
    PROVE  \A w \in Workers : other[w] # c
<1> SUFFICES ASSUME NEW w \in Workers, other[w] = c PROVE FALSE
  OBVIOUS
<1>1. w \in Users(c) /\ Known(c)
  BY DEF Users, Uses, Joining, Known
<1>2. Cardinality(Users(c) \ {w}) \in Nat /\ Cardinality(Users(c)) - 1 = Cardinality(Users(c) \ {w})
  BY <1>1, UsersCount DEF Users
<1>3. Cardinality(Users(c)) \in Nat
  BY HoldersInt
<1>4. usage[c] = 0 /\ usage[c] >= Holders(c)
  BY <1>1 DEF Collect, CanDelete, Held
<1> QED BY <1>2, <1>3, <1>4 DEF Holders

\* No step puts a deleted client into the hand of a worker.
LEMMA InHandStep == ASSUME TypeOK, HasConn, Held, Disposed, InHand, Next
                    PROVE  InHand'
<1> USE ClientsAssumption DEF ClientsAssumption, TypeOK, HasConn, PreMap, InHand,
            Disposed, Disposing, At, MyKey, worker, conn, port, life
<1>1. ASSUME NEW c \in Conns, Accept(c) PROVE InHand'
  BY <1>1 DEF Accept
<1>2. ASSUME NEW c \in Conns, Arrive(c) PROVE InHand'
  BY <1>2 DEF Arrive
<1>3. ASSUME NEW c \in Conns, Sent(c) PROVE InHand'
  BY <1>3 DEF Sent
<1>4. ASSUME NEW c \in Conns, Fail(c) PROVE InHand'
  BY <1>4 DEF Fail, Failing
<1>5. ASSUME NEW c \in Conns, Expire(c) PROVE InHand'
  BY <1>5 DEF Expire, Close, Failing
<1>6. ASSUME NEW c \in Conns, Collect(c) PROVE InHand'
  BY <1>6, CollectInHand DEF Collect
<1>7. ASSUME NEW c \in Conns, Drop(c) PROVE InHand'
  BY <1>7 DEF Drop, Add
<1>8. ASSUME NEW c \in Conns, Broadcast(c) PROVE InHand'
  BY <1>8 DEF Broadcast
<1>9. ASSUME NEW w \in Workers, NEW c \in Conns, NEW n \in 0 .. MaxBurst, GetRead(w, c, n)
       PROVE InHand'
  BY <1>9 DEF GetRead, Take
<1>10. ASSUME NEW w \in Workers, NEW c \in Conns, GetWritten(w, c) PROVE InHand'
  BY <1>10 DEF GetWritten, Take
<1>11. ASSUME NEW w \in Workers, NEW c \in Conns, GetAccepted(w, c) PROVE InHand'
  BY <1>11 DEF GetAccepted, Take
<1>12. ASSUME NEW w \in Workers, FirstRead(w) PROVE InHand'
  BY <1>12 DEF FirstRead, PostReceive, Done, Goto
<1>13. ASSUME NEW w \in Workers, CountFirst(w) PROVE InHand'
  BY <1>13 DEF CountFirst, Add, Done
<1>14. ASSUME NEW w \in Workers, OnSendCompleted(w) PROVE InHand'
  BY <1>14 DEF OnSendCompleted, Goto
<1>15. ASSUME NEW w \in Workers, ReadStatus(w) PROVE InHand'
  BY <1>15 DEF ReadStatus, Goto
<1>16. ASSUME NEW w \in Workers, PeerClosed(w) PROVE InHand'
  BY <1>16 DEF PeerClosed, Close, Failing, Goto
<1>17. ASSUME NEW w \in Workers, Disconnect(w) PROVE InHand'
  BY <1>17 DEF Disconnect, Goto
<1>18. ASSUME NEW w \in Workers, Discard(w) PROVE InHand'
  BY <1>18 DEF Discard, Close, Failing, Add, Goto
<1>19. ASSUME NEW w \in Workers, Serve(w) PROVE InHand'
  BY <1>19 DEF Serve, Looping, NextPacket, Goto
<1>20. ASSUME NEW w \in Workers, NEW k \in Keys, Find(w, k) PROVE InHand'
  BY <1>20 DEF Find, Looping, Hold, Add, Goto
<1>21. ASSUME NEW w \in Workers, Return(w) PROVE InHand'
  BY <1>21 DEF Return, NextPacket, Add, Goto
<1>22. ASSUME NEW w \in Workers, FirstRequest(w) PROVE InHand'
  BY <1>22 DEF FirstRequest, Looping, Goto
<1>23. ASSUME NEW w \in Workers, First(w) PROVE InHand'
  BY <1>23 DEF First, NextPacket, Add, Goto
<1>24. ASSUME NEW w \in Workers, Attach(w) PROVE InHand'
  BY <1>24 DEF Attach, Goto
<1>25. ASSUME NEW w \in Workers, AddLogical(w) PROVE InHand'
  BY <1>25 DEF AddLogical, Hold, Add, Goto
<1>26. ASSUME NEW w \in Workers, Replace(w) PROVE InHand'
  BY <1>26 DEF Replace, Goto
<1>27. ASSUME NEW w \in Workers, Silent(w) PROVE InHand'
  BY <1>27 DEF Silent, Close, Failing, Add, Goto
<1>28. ASSUME NEW w \in Workers, Readd(w) PROVE InHand'
  BY <1>28 DEF Readd, Hold, Add, Goto
<1>29. ASSUME NEW w \in Workers, Stream(w) PROVE InHand'
  BY <1>29 DEF Stream, Add, Goto
<1>30. ASSUME NEW w \in Workers, LoggedIn(w) PROVE InHand'
  BY <1>30 DEF LoggedIn, Welcome, NextPacket, Add
<1>31. ASSUME NEW w \in Workers, ReadNext(w) PROVE InHand'
  BY <1>31 DEF ReadNext, PostReceive, EndOfBuffer, Goto
<1>32. ASSUME NEW w \in Workers, CountRead(w) PROVE InHand'
  BY <1>32 DEF CountRead, Add, Goto
<1>33. ASSUME NEW w \in Workers, Release(w) PROVE InHand'
  BY <1>33 DEF Release, Add, Done
<1> QED BY <1>1, <1>2, <1>3, <1>4, <1>5, <1>6, <1>7, <1>8, <1>9, <1>10, <1>11, <1>12,
           <1>13, <1>14, <1>15, <1>16, <1>17, <1>18, <1>19, <1>20, <1>21, <1>22, <1>23,
           <1>24, <1>25, <1>26, <1>27, <1>28, <1>29, <1>30, <1>31, <1>32, <1>33
       DEF Next, Handle, Get

----------------------------------------------------------------------------
IInv ==
    /\ TypeOK /\ HasConn /\ Started /\ Alone /\ Others
    /\ MapKey /\ Places /\ FreshIsNew /\ Disposed /\ Held /\ InHand

\* The invariant holds at the start.
LEMMA InitIInv == Init => IInv
<1> SUFFICES ASSUME Init PROVE IInv
  OBVIOUS
<1> USE ClientsAssumption DEF ClientsAssumption
<1>1. TypeOK /\ HasConn /\ Started /\ Alone /\ Others
  <2>1. TypeOK
    BY DEF Init, TypeOK, Statuses, Reads, Writes, Steps, Alive
  <2>2. HasConn /\ Started /\ Others
    BY DEF Init, HasConn, PreMap, Joining, Started, Others
  <2>3. Alone
    BY DEF Init, Alone, Active
  <2> QED BY <2>1, <2>2, <2>3
<1>2. MapKey /\ Places /\ FreshIsNew /\ Disposed /\ InHand
  BY DEF Init, MapKey, Places, Fresh, PreMap, Joining, FreshIsNew, Disposed, Disposing, InHand, At
<1>3. \A c \in Conns : ~Known(c)
  BY DEF Init, Known
<1> QED BY <1>1, <1>2, <1>3 DEF IInv, Held

\* Every step keeps it.
LEMMA NextIInv == IInv /\ [Next]_vars => IInv'
<1> SUFFICES ASSUME IInv, [Next]_vars PROVE IInv'
  OBVIOUS
<1>1. CASE Next
  <2>1. TypeOK' /\ HasConn' /\ Started'
    BY <1>1, TypeStep, HasConnStep, StartedStep DEF IInv
  <2>2. Alone' /\ Others' /\ MapKey'
    BY <1>1, AloneStep, OthersStep, MapKeyStep DEF IInv
  <2>3. Places' /\ FreshIsNew' /\ Disposed'
    BY <1>1, PlacesStep, FreshStep, DisposedStep DEF IInv
  <2>4. Held' /\ InHand'
    BY <1>1, HeldStep, InHandStep DEF IInv
  <2> QED BY <2>1, <2>2, <2>3, <2>4 DEF IInv
<1>2. CASE UNCHANGED vars
  <2>1. UNCHANGED <<status, open, pending, stage, io, read, write, usage, map, waiting,
                    streamed, deleted, early, pc, my, seen, left, other>>
    BY <1>2 DEF vars, conn, port, life, worker
  <2>2. TypeOK' /\ HasConn' /\ Started' /\ Alone' /\ Others' /\ MapKey' /\ InHand'
    BY <2>1 DEF IInv, TypeOK, HasConn, Started, Alone, Others, MapKey, InHand, MyKey
  <2>3. Places' /\ FreshIsNew' /\ Disposed'
    BY <2>1 DEF IInv, Places, FreshIsNew, Disposed, Disposing, Fresh, At
  <2>4. Held'
    BY <2>1 DEF IInv, Held, Known, Holders, Users, Uses, Joining
  <2> QED BY <2>2, <2>3, <2>4 DEF IInv
<1> QED BY <1>1, <1>2

\* So it holds for ever.
LEMMA Inductive == Spec => []IInv
BY InitIInv, NextIInv, PTL DEF Spec

(* Every variable keeps its type: in particular no worker is sent a        *)
(* connection that is None, whatever the order of the completions          *)
(* (Dispatcher_Win.cpp, ProcessFirstPacket).                               *)
THEOREM TypeCorrect == Spec => []TypeOK
<1>1. IInv => TypeOK
  BY DEF IInv
<1> QED BY <1>1, Inductive, PTL

(* What FindClient returned and whom a login replaces is not deleted while *)
(* a worker has it, and no client of the map is waiting to be deleted, for *)
(* any number of connections under one key (ClientFactoryImpl.cpp).        *)
THEOREM FoundStaysAlive == Spec => []FoundIsAlive
<1>1. IInv => FoundIsAlive
  BY DEF IInv, FoundIsAlive, InHand, Disposed, Disposing, TypeOK
<1> QED BY <1>1, Inductive, PTL

----------------------------------------------------------------------------
(* With a key of its own for every connection nobody is replaced, and the  *)
(* usage of a client is its holders, not one more or less.                 *)
OneKeyEach == \A c, d \in Conns : KeyOf[c] = KeyOf[d] => c = d
NoReplace == \A w \in Workers : pc[w] \notin {"replace", "silent", "readd"}

\* With a key for every connection a login finds nobody in its place.
LEMMA NoReplaceStep == ASSUME OneKeyEach, TypeOK, HasConn, MapKey, FreshIsNew, NoReplace, Next
                       PROVE  NoReplace'
<1> USE ClientsAssumption DEF ClientsAssumption, TypeOK, HasConn, NoReplace, At, MyKey,
            worker, conn, port, life
<1>1. ASSUME NEW c \in Conns, Accept(c) PROVE NoReplace'
  BY <1>1 DEF Accept
<1>2. ASSUME NEW c \in Conns, Arrive(c) PROVE NoReplace'
  BY <1>2 DEF Arrive
<1>3. ASSUME NEW c \in Conns, Sent(c) PROVE NoReplace'
  BY <1>3 DEF Sent
<1>4. ASSUME NEW c \in Conns, Fail(c) PROVE NoReplace'
  BY <1>4 DEF Fail, Failing
<1>5. ASSUME NEW c \in Conns, Expire(c) PROVE NoReplace'
  BY <1>5 DEF Expire, Close, Failing
<1>6. ASSUME NEW c \in Conns, Collect(c) PROVE NoReplace'
  BY <1>6 DEF Collect, Add
<1>7. ASSUME NEW c \in Conns, Drop(c) PROVE NoReplace'
  BY <1>7 DEF Drop, Add
<1>8. ASSUME NEW c \in Conns, Broadcast(c) PROVE NoReplace'
  BY <1>8 DEF Broadcast
<1>9. ASSUME NEW w \in Workers, NEW c \in Conns, NEW n \in 0 .. MaxBurst, GetRead(w, c, n)
       PROVE NoReplace'
  BY <1>9 DEF GetRead, Take
<1>10. ASSUME NEW w \in Workers, NEW c \in Conns, GetWritten(w, c) PROVE NoReplace'
  BY <1>10 DEF GetWritten, Take
<1>11. ASSUME NEW w \in Workers, NEW c \in Conns, GetAccepted(w, c) PROVE NoReplace'
  BY <1>11 DEF GetAccepted, Take
<1>12. ASSUME NEW w \in Workers, FirstRead(w) PROVE NoReplace'
  BY <1>12 DEF FirstRead, PostReceive, Done, Goto
<1>13. ASSUME NEW w \in Workers, CountFirst(w) PROVE NoReplace'
  BY <1>13 DEF CountFirst, Add, Done
<1>14. ASSUME NEW w \in Workers, OnSendCompleted(w) PROVE NoReplace'
  BY <1>14 DEF OnSendCompleted, Goto
<1>15. ASSUME NEW w \in Workers, ReadStatus(w) PROVE NoReplace'
  BY <1>15 DEF ReadStatus, Goto
<1>16. ASSUME NEW w \in Workers, PeerClosed(w) PROVE NoReplace'
  BY <1>16 DEF PeerClosed, Close, Failing, Goto
<1>17. ASSUME NEW w \in Workers, Disconnect(w) PROVE NoReplace'
  BY <1>17 DEF Disconnect, Goto
<1>18. ASSUME NEW w \in Workers, Discard(w) PROVE NoReplace'
  BY <1>18 DEF Discard, Close, Failing, Add, Goto
<1>19. ASSUME NEW w \in Workers, Serve(w) PROVE NoReplace'
  BY <1>19 DEF Serve, Looping, NextPacket, Goto
<1>20. ASSUME NEW w \in Workers, NEW k \in Keys, Find(w, k) PROVE NoReplace'
  BY <1>20 DEF Find, Looping, Hold, Add, Goto
<1>21. ASSUME NEW w \in Workers, Return(w) PROVE NoReplace'
  BY <1>21 DEF Return, NextPacket, Add, Goto
<1>22. ASSUME NEW w \in Workers, FirstRequest(w) PROVE NoReplace'
  BY <1>22 DEF FirstRequest, Looping, Goto
<1>23. ASSUME NEW w \in Workers, First(w) PROVE NoReplace'
  BY <1>23 DEF First, NextPacket, Add, Goto
<1>24. ASSUME NEW w \in Workers, Attach(w) PROVE NoReplace'
  BY <1>24 DEF Attach, Goto
<1>25. ASSUME NEW w \in Workers, AddLogical(w) PROVE NoReplace'
  BY <1>25 DEF AddLogical, Hold, Goto, OneKeyEach, MapKey, FreshIsNew, Fresh, PreMap
<1>26. ASSUME NEW w \in Workers, Replace(w) PROVE NoReplace'
  BY <1>26 DEF Replace, Goto
<1>27. ASSUME NEW w \in Workers, Silent(w) PROVE NoReplace'
  BY <1>27 DEF Silent, Close, Failing, Add, Goto
<1>28. ASSUME NEW w \in Workers, Readd(w) PROVE NoReplace'
  BY <1>28 DEF Readd, Hold, Add, Goto
<1>29. ASSUME NEW w \in Workers, Stream(w) PROVE NoReplace'
  BY <1>29 DEF Stream, Add, Goto
<1>30. ASSUME NEW w \in Workers, LoggedIn(w) PROVE NoReplace'
  BY <1>30 DEF LoggedIn, Welcome, NextPacket, Add
<1>31. ASSUME NEW w \in Workers, ReadNext(w) PROVE NoReplace'
  BY <1>31 DEF ReadNext, PostReceive, EndOfBuffer, Goto
<1>32. ASSUME NEW w \in Workers, CountRead(w) PROVE NoReplace'
  BY <1>32 DEF CountRead, Add, Goto
<1>33. ASSUME NEW w \in Workers, Release(w) PROVE NoReplace'
  BY <1>33 DEF Release, Add, Done
<1> QED BY <1>1, <1>2, <1>3, <1>4, <1>5, <1>6, <1>7, <1>8, <1>9, <1>10, <1>11, <1>12,
           <1>13, <1>14, <1>15, <1>16, <1>17, <1>18, <1>19, <1>20, <1>21, <1>22, <1>23,
           <1>24, <1>25, <1>26, <1>27, <1>28, <1>29, <1>30, <1>31, <1>32, <1>33
       DEF Next, Handle, Get

Exact == NoReplace /\ UsageIsHolders

\* Then no step sets usage and holders apart.
LEMMA ExactStep == ASSUME OneKeyEach, IInv, Exact, Next PROVE Exact'
<1>1. NoReplace'
  BY NoReplaceStep DEF IInv, Exact
<1>2. ~ \E w \in Workers : Readd(w)
  BY DEF Exact, NoReplace, Readd, At
<1>3. Even
  BY <1>2, EvenStep DEF IInv
<1>4. ASSUME NEW c \in Conns PROVE usage'[c] = Holders(c)'
  <2>1. usage[c] = Holders(c)
    BY DEF Exact, UsageIsHolders, Holders, Users
  <2>2. usage'[c] - Holders(c)' = usage[c] - Holders(c)
    BY <1>3 DEF Even
  <2>3. Holders(c) \in Nat
    BY HoldersInt
  <2>4. IsFiniteSet(Users(c)')
    BY FS_Subset, ClientsAssumption DEF ClientsAssumption, Users
  <2>5. Holders(c)' \in Nat
    BY <2>4, FS_CardinalityType DEF Holders
  <2>6. usage'[c] \in Int
    BY TypeStep DEF IInv, TypeOK
  <2> QED BY <2>1, <2>2, <2>3, <2>5, <2>6
<1> QED BY <1>1, <1>4 DEF Exact, UsageIsHolders, Holders, Users

\* Nobody holds anything at the start.
LEMMA InitExact == Init => Exact
<1> SUFFICES ASSUME Init PROVE NoReplace /\ \A c \in Conns : usage[c] = Holders(c)
  BY DEF Exact, UsageIsHolders, Holders, Users
<1>1. NoReplace
  BY DEF Init, NoReplace
<1>2. ASSUME NEW c \in Conns PROVE Users(c) = {} /\ usage[c] = 0 /\ c \notin streamed
  BY ClientsAssumption DEF ClientsAssumption, Init, Users, Uses, Joining
<1> QED BY <1>1, <1>2, FS_EmptySet DEF Holders

(* No path of logging in, routing and disconnecting loses a reference or   *)
(* keeps one (AddRef and DecRef of LogicalConnection), as long as every    *)
(* connection logs in under a key of its own.                              *)
THEOREM NoReferenceIsLost == ASSUME OneKeyEach PROVE Spec => []UsageIsHolders
<1>1. IInv /\ Exact /\ [Next]_vars => Exact'
  <2> SUFFICES ASSUME IInv, Exact, [Next]_vars PROVE Exact'
    OBVIOUS
  <2>1. CASE Next
    BY <2>1, ExactStep
  <2>2. CASE UNCHANGED vars
    BY <2>2 DEF vars, life, worker, Exact, NoReplace, UsageIsHolders, Uses, Joining
  <2> QED BY <2>1, <2>2
<1>2. Exact => UsageIsHolders
  BY DEF Exact
<1> QED BY InitExact, <1>1, <1>2, Inductive, PTL DEF Spec

----------------------------------------------------------------------------
(* How the reads and writes are counted.  A connection is in the list of   *)
(* the acceptor until its login takes it out, so no login finds it gone    *)
(* and counts it down once more.                                           *)
Listed ==
    \A c \in Conns :
        /\ stage[c] # "connected" /\ status[c] # "none" => c \in pending
        /\ \A w \in Workers : At(w, "first") /\ my[w] = c => c \in pending
\* One worker at a time has the completion of a write, and no other write is posted.
Writing ==
    /\ \A w \in Workers : At(w, "wrote") => write[my[w]] = "busy"
    /\ \A v, w \in Workers : At(v, "wrote") /\ At(w, "wrote") /\ my[v] = my[w] => v = w
\* The workers that have counted what they do, those that have it to count, and what is
\* with the system.
Busy(c) == {w \in Workers : my[w] = c /\ pc[w] \notin Late \cup {"init"}}
Owing(c) == {w \in Workers : my[w] = c /\ pc[w] = "initcount"}
ReadOut(c) == IF read[c] \in {"posted", "data", "eof", "failed"} THEN 1 ELSE 0
WriteOut(c) == IF write[c] \in {"posted", "sent", "failed"} THEN 1 ELSE 0
Counted ==
    \A c \in Conns :
        io[c] = Cardinality(Busy(c)) - Cardinality(Owing(c)) + ReadOut(c) + WriteOut(c)
Port == Listed /\ Writing /\ Counted

\* A login finds its connection in the list.
LEMMA ListedStep == ASSUME TypeOK, HasConn, Started, Alone, Places, Listed, Next
                    PROVE  Listed'
<1> USE ClientsAssumption DEF ClientsAssumption, TypeOK, Statuses, Steps, Joining,
            Late, Alive, PreMap, HasConn, Started, Alone, Places, Active, Listed, At, worker, conn,
            port, life
<1>1. ASSUME NEW c \in Conns, Accept(c) PROVE Listed'
  BY <1>1 DEF Accept
<1>2. ASSUME NEW c \in Conns, Arrive(c) PROVE Listed'
  BY <1>2 DEF Arrive
<1>3. ASSUME NEW c \in Conns, Sent(c) PROVE Listed'
  BY <1>3 DEF Sent
<1>4. ASSUME NEW c \in Conns, Fail(c) PROVE Listed'
  BY <1>4 DEF Fail, Failing
<1>5. ASSUME NEW c \in Conns, Expire(c) PROVE Listed'
  BY <1>5 DEF Expire, Close, Failing
<1>6. ASSUME NEW c \in Conns, Collect(c) PROVE Listed'
  BY <1>6 DEF Collect, Add
<1>7. ASSUME NEW c \in Conns, Drop(c) PROVE Listed'
  BY <1>7 DEF Drop, Add
<1>8. ASSUME NEW c \in Conns, Broadcast(c) PROVE Listed'
  BY <1>8 DEF Broadcast
<1>9. ASSUME NEW w \in Workers, NEW c \in Conns, NEW n \in 0 .. MaxBurst, GetRead(w, c, n)
       PROVE Listed'
  BY <1>9 DEF GetRead, Take
<1>10. ASSUME NEW w \in Workers, NEW c \in Conns, GetWritten(w, c) PROVE Listed'
  BY <1>10 DEF GetWritten, Take
<1>11. ASSUME NEW w \in Workers, NEW c \in Conns, GetAccepted(w, c) PROVE Listed'
  BY <1>11 DEF GetAccepted, Take
<1>12. ASSUME NEW w \in Workers, FirstRead(w) PROVE Listed'
  BY <1>12 DEF FirstRead, PostReceive, Done, Goto
<1>13. ASSUME NEW w \in Workers, CountFirst(w) PROVE Listed'
  BY <1>13 DEF CountFirst, Add, Done
<1>14. ASSUME NEW w \in Workers, OnSendCompleted(w) PROVE Listed'
  BY <1>14 DEF OnSendCompleted, Goto
<1>15. ASSUME NEW w \in Workers, ReadStatus(w) PROVE Listed'
  BY <1>15 DEF ReadStatus, Goto
<1>16. ASSUME NEW w \in Workers, PeerClosed(w) PROVE Listed'
  BY <1>16 DEF PeerClosed, Close, Failing, Goto
<1>17. ASSUME NEW w \in Workers, Disconnect(w) PROVE Listed'
  BY <1>17 DEF Disconnect, Goto
<1>18. ASSUME NEW w \in Workers, Discard(w) PROVE Listed'
  BY <1>18 DEF Discard, Close, Failing, Add, Goto
<1>19. ASSUME NEW w \in Workers, Serve(w) PROVE Listed'
  BY <1>19 DEF Serve, Looping, NextPacket
<1>20. ASSUME NEW w \in Workers, NEW k \in Keys, Find(w, k) PROVE Listed'
  BY <1>20 DEF Find, Looping, Hold, Add
<1>21. ASSUME NEW w \in Workers, Return(w) PROVE Listed'
  BY <1>21 DEF Return, NextPacket, Add
<1>22. ASSUME NEW w \in Workers, FirstRequest(w) PROVE Listed'
  BY <1>22 DEF FirstRequest, Looping
<1>23. ASSUME NEW w \in Workers, First(w) PROVE Listed'
  BY <1>23 DEF First, NextPacket, Add, Goto
<1>24. ASSUME NEW w \in Workers, Attach(w) PROVE Listed'
  BY <1>24 DEF Attach, Goto
<1>25. ASSUME NEW w \in Workers, AddLogical(w) PROVE Listed'
  BY <1>25 DEF AddLogical, Hold, Add, Goto
<1>26. ASSUME NEW w \in Workers, Replace(w) PROVE Listed'
  BY <1>26 DEF Replace, Goto
<1>27. ASSUME NEW w \in Workers, Silent(w) PROVE Listed'
  BY <1>27 DEF Silent, Close, Failing, Add, Goto
<1>28. ASSUME NEW w \in Workers, Readd(w) PROVE Listed'
  BY <1>28 DEF Readd, Hold, Add
<1>29. ASSUME NEW w \in Workers, Stream(w) PROVE Listed'
  BY <1>29 DEF Stream, Add, Goto
<1>30. ASSUME NEW w \in Workers, LoggedIn(w) PROVE Listed'
  BY <1>30 DEF LoggedIn, Welcome, NextPacket, Add
<1>31. ASSUME NEW w \in Workers, ReadNext(w) PROVE Listed'
  BY <1>31 DEF ReadNext, PostReceive, EndOfBuffer, Goto
<1>32. ASSUME NEW w \in Workers, CountRead(w) PROVE Listed'
  BY <1>32 DEF CountRead, Add, Goto
<1>33. ASSUME NEW w \in Workers, Release(w) PROVE Listed'
  BY <1>33 DEF Release, Add, Done
<1> QED BY <1>1, <1>2, <1>3, <1>4, <1>5, <1>6, <1>7, <1>8, <1>9, <1>10, <1>11, <1>12,
           <1>13, <1>14, <1>15, <1>16, <1>17, <1>18, <1>19, <1>20, <1>21, <1>22, <1>23,
           <1>24, <1>25, <1>26, <1>27, <1>28, <1>29, <1>30, <1>31, <1>32, <1>33
       DEF Next, Handle, Get

\* Nobody writes on a connection whose completion a worker has.
LEMMA WritingStep == ASSUME TypeOK, HasConn, Started, Writing, Next
                     PROVE  Writing'
<1> USE ClientsAssumption DEF ClientsAssumption, TypeOK, Statuses, Writes, Steps, Joining,
            Late, Alive, HasConn, Started, Writing, At, worker, conn, port, life
<1>1. ASSUME NEW c \in Conns, Accept(c) PROVE Writing'
  BY <1>1 DEF Accept
<1>2. ASSUME NEW c \in Conns, Arrive(c) PROVE Writing'
  BY <1>2 DEF Arrive
<1>3. ASSUME NEW c \in Conns, Sent(c) PROVE Writing'
  BY <1>3 DEF Sent
<1>4. ASSUME NEW c \in Conns, Fail(c) PROVE Writing'
  BY <1>4 DEF Fail, Failing
<1>5. ASSUME NEW c \in Conns, Expire(c) PROVE Writing'
  BY <1>5 DEF Expire, Close, Failing
<1>6. ASSUME NEW c \in Conns, Collect(c) PROVE Writing'
  BY <1>6 DEF Collect, Add
<1>7. ASSUME NEW c \in Conns, Drop(c) PROVE Writing'
  BY <1>7 DEF Drop, Add
<1>8. ASSUME NEW c \in Conns, Broadcast(c) PROVE Writing'
  BY <1>8 DEF Broadcast, PushPacket, WriteBytes, Add
<1>9. ASSUME NEW w \in Workers, NEW c \in Conns, NEW n \in 0 .. MaxBurst, GetRead(w, c, n)
       PROVE Writing'
  BY <1>9 DEF GetRead, Take
<1>10. ASSUME NEW w \in Workers, NEW c \in Conns, GetWritten(w, c) PROVE Writing'
  BY <1>10 DEF GetWritten, Take
<1>11. ASSUME NEW w \in Workers, NEW c \in Conns, GetAccepted(w, c) PROVE Writing'
  BY <1>11 DEF GetAccepted, Take
<1>12. ASSUME NEW w \in Workers, FirstRead(w) PROVE Writing'
  BY <1>12 DEF FirstRead, PostReceive, Done, Goto
<1>13. ASSUME NEW w \in Workers, CountFirst(w) PROVE Writing'
  BY <1>13 DEF CountFirst, Add, Done
<1>14. ASSUME NEW w \in Workers, OnSendCompleted(w) PROVE Writing'
  BY <1>14 DEF OnSendCompleted, Goto, WriteBytes, Add
<1>15. ASSUME NEW w \in Workers, ReadStatus(w) PROVE Writing'
  BY <1>15 DEF ReadStatus, Goto
<1>16. ASSUME NEW w \in Workers, PeerClosed(w) PROVE Writing'
  BY <1>16 DEF PeerClosed, Close, Failing, Goto
<1>17. ASSUME NEW w \in Workers, Disconnect(w) PROVE Writing'
  BY <1>17 DEF Disconnect, Goto
<1>18. ASSUME NEW w \in Workers, Discard(w) PROVE Writing'
  BY <1>18 DEF Discard, Close, Failing, Add, Goto
<1>19. ASSUME NEW w \in Workers, Serve(w) PROVE Writing'
  BY <1>19 DEF Serve, Looping, NextPacket, PushPacket, WriteBytes, Add
<1>20. ASSUME NEW w \in Workers, NEW k \in Keys, Find(w, k) PROVE Writing'
  BY <1>20 DEF Find, Looping, Hold, Add
<1>21. ASSUME NEW w \in Workers, Return(w) PROVE Writing'
  BY <1>21 DEF Return, NextPacket, Add, PushPacket, WriteBytes
<1>22. ASSUME NEW w \in Workers, FirstRequest(w) PROVE Writing'
  BY <1>22 DEF FirstRequest, Looping, PushPacket, WriteBytes, Add
<1>23. ASSUME NEW w \in Workers, First(w) PROVE Writing'
  BY <1>23 DEF First, NextPacket, Add, Goto
<1>24. ASSUME NEW w \in Workers, Attach(w) PROVE Writing'
  BY <1>24 DEF Attach, Goto
<1>25. ASSUME NEW w \in Workers, AddLogical(w) PROVE Writing'
  BY <1>25 DEF AddLogical, Hold, Add, Goto
<1>26. ASSUME NEW w \in Workers, Replace(w) PROVE Writing'
  BY <1>26 DEF Replace, Goto
<1>27. ASSUME NEW w \in Workers, Silent(w) PROVE Writing'
  BY <1>27 DEF Silent, Close, Failing, Add, Goto
<1>28. ASSUME NEW w \in Workers, Readd(w) PROVE Writing'
  BY <1>28 DEF Readd, Hold, Add
<1>29. ASSUME NEW w \in Workers, Stream(w) PROVE Writing'
  BY <1>29 DEF Stream, Add, Goto
<1>30. ASSUME NEW w \in Workers, LoggedIn(w) PROVE Writing'
  BY <1>30 DEF LoggedIn, Welcome, NextPacket, Add, PushPacket, WriteBytes
<1>31. ASSUME NEW w \in Workers, ReadNext(w) PROVE Writing'
  BY <1>31 DEF ReadNext, PostReceive, EndOfBuffer, Goto
<1>32. ASSUME NEW w \in Workers, CountRead(w) PROVE Writing'
  BY <1>32 DEF CountRead, Add, Goto
<1>33. ASSUME NEW w \in Workers, Release(w) PROVE Writing'
  BY <1>33 DEF Release, Add, Done
<1> QED BY <1>1, <1>2, <1>3, <1>4, <1>5, <1>6, <1>7, <1>8, <1>9, <1>10, <1>11, <1>12,
           <1>13, <1>14, <1>15, <1>16, <1>17, <1>18, <1>19, <1>20, <1>21, <1>22, <1>23,
           <1>24, <1>25, <1>26, <1>27, <1>28, <1>29, <1>30, <1>31, <1>32, <1>33
       DEF Next, Handle, Get

\* The steps that take a completion, post or count a read, or are done with one.
Moving ==
    \E w \in Workers :
        \/ \E c \in Conns : GetWritten(w, c) \/ \E n \in 0 .. MaxBurst : GetRead(w, c, n)
        \/ FirstRead(w) \/ CountFirst(w) \/ ReadNext(w) \/ CountRead(w) \/ Release(w)
Steady ==
    \A c \in Conns :
        /\ Busy(c)' = Busy(c) /\ Owing(c)' = Owing(c)
        /\ io'[c] - ReadOut(c)' - WriteOut(c)' = io[c] - ReadOut(c) - WriteOut(c)

\* No other step moves a count but with the write that it counts.
LEMMA SteadyStep == ASSUME TypeOK, HasConn, Started, Others, Listed, Writing, Next
                    PROVE  Steady \/ Moving
<1> USE ClientsAssumption DEF ClientsAssumption, TypeOK, Statuses, Reads, Writes, Steps, Joining,
            Late, Alive, HasConn, Started, Listed, Writing, Steady, Busy, Owing, ReadOut,
            WriteOut, At, MyKey, worker, conn, port, life
<1>1. ASSUME NEW c \in Conns, Accept(c) PROVE Steady \/ Moving
  BY <1>1 DEF Accept
<1>2. ASSUME NEW c \in Conns, Arrive(c) PROVE Steady \/ Moving
  BY <1>2 DEF Arrive
<1>3. ASSUME NEW c \in Conns, Sent(c) PROVE Steady \/ Moving
  BY <1>3 DEF Sent
<1>4. ASSUME NEW c \in Conns, Fail(c) PROVE Steady \/ Moving
  BY <1>4 DEF Fail, Failing
<1>5. ASSUME NEW c \in Conns, Expire(c) PROVE Steady \/ Moving
  BY <1>5 DEF Expire, Close, Failing
<1>6. ASSUME NEW c \in Conns, Collect(c) PROVE Steady \/ Moving
  BY <1>6 DEF Collect, Add
<1>7. ASSUME NEW c \in Conns, Drop(c) PROVE Steady \/ Moving
  BY <1>7 DEF Drop, Add
<1>8. ASSUME NEW c \in Conns, Broadcast(c) PROVE Steady \/ Moving
  BY <1>8 DEF Broadcast, PushPacket, WriteBytes, Add
<1>9. ASSUME NEW w \in Workers, NEW c \in Conns, NEW n \in 0 .. MaxBurst, GetRead(w, c, n)
       PROVE Steady \/ Moving
  BY <1>9 DEF Moving
<1>10. ASSUME NEW w \in Workers, NEW c \in Conns, GetWritten(w, c) PROVE Steady \/ Moving
  BY <1>10 DEF Moving
<1>11. ASSUME NEW w \in Workers, NEW c \in Conns, GetAccepted(w, c) PROVE Steady \/ Moving
  BY <1>11 DEF GetAccepted, Take
<1>12. ASSUME NEW w \in Workers, FirstRead(w) PROVE Steady \/ Moving
  BY <1>12 DEF Moving
<1>13. ASSUME NEW w \in Workers, CountFirst(w) PROVE Steady \/ Moving
  BY <1>13 DEF Moving
<1>14. ASSUME NEW w \in Workers, OnSendCompleted(w) PROVE Steady \/ Moving
  BY <1>14 DEF OnSendCompleted, Goto, WriteBytes, Add
<1>15. ASSUME NEW w \in Workers, ReadStatus(w) PROVE Steady \/ Moving
  BY <1>15 DEF ReadStatus, Goto
<1>16. ASSUME NEW w \in Workers, PeerClosed(w) PROVE Steady \/ Moving
  BY <1>16 DEF PeerClosed, Close, Failing, Goto
<1>17. ASSUME NEW w \in Workers, Disconnect(w) PROVE Steady \/ Moving
  BY <1>17 DEF Disconnect, Goto
<1>18. ASSUME NEW w \in Workers, Discard(w) PROVE Steady \/ Moving
  BY <1>18 DEF Discard, Close, Failing, Add, Goto
<1>19. ASSUME NEW w \in Workers, Serve(w) PROVE Steady \/ Moving
  BY <1>19 DEF Serve, Looping, NextPacket, PushPacket, WriteBytes, Add
<1>20. ASSUME NEW w \in Workers, NEW k \in Keys, Find(w, k) PROVE Steady \/ Moving
  BY <1>20 DEF Find, Looping, Hold, Add
<1>21. ASSUME NEW w \in Workers, Return(w) PROVE Steady \/ Moving
  <2>1. other[w] \in Conns /\ UNCHANGED read
    BY <1>21 DEF Return, Others
  <2>2. \A c \in Conns : Busy(c)' = Busy(c) /\ Owing(c)' = Owing(c)
    BY <1>21 DEF Return, NextPacket
  <2>3. ASSUME NEW c \in Conns
        PROVE  io'[c] - ReadOut(c)' - WriteOut(c)' = io[c] - ReadOut(c) - WriteOut(c)
    BY <1>21, <2>1 DEF Return, PushPacket, WriteBytes, Add
  <2> QED BY <2>1, <2>2, <2>3
<1>22. ASSUME NEW w \in Workers, FirstRequest(w) PROVE Steady \/ Moving
  <2>1. my[w] \in Conns /\ UNCHANGED read
    BY <1>22 DEF FirstRequest, Looping
  <2>2. \A c \in Conns : Busy(c)' = Busy(c) /\ Owing(c)' = Owing(c)
    BY <1>22 DEF FirstRequest, Looping
  <2>3. ASSUME NEW c \in Conns
        PROVE  io'[c] - ReadOut(c)' - WriteOut(c)' = io[c] - ReadOut(c) - WriteOut(c)
    <3>1. PushPacket(my[w]) \/ UNCHANGED <<write, io>>
      BY <1>22 DEF FirstRequest
    <3> QED BY <2>1, <3>1 DEF PushPacket, WriteBytes, Add
  <2> QED BY <2>1, <2>2, <2>3
<1>23. ASSUME NEW w \in Workers, First(w) PROVE Steady \/ Moving
  BY <1>23 DEF First, NextPacket, Add, Goto
<1>24. ASSUME NEW w \in Workers, Attach(w) PROVE Steady \/ Moving
  BY <1>24 DEF Attach, Goto
<1>25. ASSUME NEW w \in Workers, AddLogical(w) PROVE Steady \/ Moving
  BY <1>25 DEF AddLogical, Hold, Add, Goto
<1>26. ASSUME NEW w \in Workers, Replace(w) PROVE Steady \/ Moving
  BY <1>26 DEF Replace, Goto
<1>27. ASSUME NEW w \in Workers, Silent(w) PROVE Steady \/ Moving
  BY <1>27 DEF Silent, Close, Failing, Add, Goto
<1>28. ASSUME NEW w \in Workers, Readd(w) PROVE Steady \/ Moving
  BY <1>28 DEF Readd, Hold, Add
<1>29. ASSUME NEW w \in Workers, Stream(w) PROVE Steady \/ Moving
  BY <1>29 DEF Stream, Add, Goto
<1>30. ASSUME NEW w \in Workers, LoggedIn(w) PROVE Steady \/ Moving
  BY <1>30 DEF LoggedIn, Welcome, NextPacket, Add, PushPacket, WriteBytes
<1>31. ASSUME NEW w \in Workers, ReadNext(w) PROVE Steady \/ Moving
  BY <1>31 DEF Moving
<1>32. ASSUME NEW w \in Workers, CountRead(w) PROVE Steady \/ Moving
  BY <1>32 DEF Moving
<1>33. ASSUME NEW w \in Workers, Release(w) PROVE Steady \/ Moving
  BY <1>33 DEF Moving
<1> QED BY <1>1, <1>2, <1>3, <1>4, <1>5, <1>6, <1>7, <1>8, <1>9, <1>10, <1>11, <1>12,
           <1>13, <1>14, <1>15, <1>16, <1>17, <1>18, <1>19, <1>20, <1>21, <1>22, <1>23,
           <1>24, <1>25, <1>26, <1>27, <1>28, <1>29, <1>30, <1>31, <1>32, <1>33
       DEF Next, Handle, Get

\* A worker more or less is counted once.
LEMMA CountedStep ==
    ASSUME TypeOK, HasConn, Started, Alone, Others, Listed, Writing, Counted, Next
    PROVE  Counted'
<1> SUFFICES ASSUME NEW c \in Conns
             PROVE  io'[c] = Cardinality(Busy(c)') - Cardinality(Owing(c)')
                             + ReadOut(c)' + WriteOut(c)'
  BY DEF Counted
<1> DEFINE Goal == io'[c] = Cardinality(Busy(c)') - Cardinality(Owing(c)')
                            + ReadOut(c)' + WriteOut(c)'
<1>0. /\ io[c] = Cardinality(Busy(c)) - Cardinality(Owing(c)) + ReadOut(c) + WriteOut(c)
      /\ ReadOut(c) \in Nat /\ WriteOut(c) \in Nat /\ ReadOut(c)' \in Nat /\ WriteOut(c)' \in Nat
  BY DEF Counted, ReadOut, WriteOut
<1>a. /\ Busy(c) \in SUBSET Workers /\ Owing(c) \in SUBSET Workers
      /\ Cardinality(Busy(c)) \in Nat /\ Cardinality(Owing(c)) \in Nat
  <2>1. Busy(c) \in SUBSET Workers /\ Owing(c) \in SUBSET Workers
    BY DEF Busy, Owing
  <2>2. IsFiniteSet(Busy(c)) /\ IsFiniteSet(Owing(c))
    BY <2>1, FS_Subset, ClientsAssumption DEF ClientsAssumption
  <2> QED BY <2>1, <2>2, FS_CardinalityType
<1> USE <1>0, <1>a DEF TypeOK, Steps, Joining, Late, HasConn, At, worker, conn, port, life
<1>1. CASE Steady
  <2>1. io'[c] \in Int /\ io[c] \in Int
    BY TypeStep
  <2>2. io'[c] - ReadOut(c)' - WriteOut(c)' = io[c] - ReadOut(c) - WriteOut(c)
    BY <1>1 DEF Steady
  <2>3. io'[c] = io[c] - ReadOut(c) - WriteOut(c) + ReadOut(c)' + WriteOut(c)'
    BY <2>1, <2>2
  <2> QED BY <1>1, <2>3 DEF Steady
<1>2. ASSUME NEW w \in Workers, NEW d \in Conns, NEW n \in 0 .. MaxBurst, GetRead(w, d, n)
      PROVE  Goal
  <2>1. Owing(c)' = Owing(c) /\ io' = io /\ WriteOut(c)' = WriteOut(c)
    BY <1>2 DEF GetRead, Take, Owing, WriteOut
  <2>2. CASE c = d
    <3>1. Busy(c)' = Busy(c) \cup {w} /\ w \notin Busy(c)
      BY <1>2, <2>2, ClientsAssumption DEF ClientsAssumption, GetRead, Take, Busy
    <3>2. ReadOut(c) = 1 /\ ReadOut(c)' = 0
      BY <1>2, <2>2 DEF GetRead, ReadOut
    <3> QED BY <2>1, <3>1, <3>2, UsersCount
  <2>3. CASE c # d
    <3>1. Busy(c)' = Busy(c) /\ ReadOut(c)' = ReadOut(c)
      BY <1>2, <2>3, ClientsAssumption DEF ClientsAssumption, GetRead, Take, Busy, ReadOut
    <3> QED BY <2>1, <3>1
  <2> QED BY <2>2, <2>3
<1>3. ASSUME NEW w \in Workers, NEW d \in Conns, GetWritten(w, d) PROVE Goal
  <2>1. Owing(c)' = Owing(c) /\ io' = io /\ ReadOut(c)' = ReadOut(c)
    BY <1>3 DEF GetWritten, Take, Owing, ReadOut
  <2>2. CASE c = d
    <3>1. Busy(c)' = Busy(c) \cup {w} /\ w \notin Busy(c)
      BY <1>3, <2>2, ClientsAssumption DEF ClientsAssumption, GetWritten, Take, Busy
    <3>2. WriteOut(c) = 1 /\ WriteOut(c)' = 0
      BY <1>3, <2>2 DEF GetWritten, WriteOut
    <3> QED BY <2>1, <3>1, <3>2, UsersCount
  <2>3. CASE c # d
    <3>1. Busy(c)' = Busy(c) /\ WriteOut(c)' = WriteOut(c)
      BY <1>3, <2>3, ClientsAssumption DEF ClientsAssumption, GetWritten, Take, Busy, WriteOut
    <3> QED BY <2>1, <3>1
  <2> QED BY <2>2, <2>3
<1>4. ASSUME NEW w \in Workers, FirstRead(w) PROVE Goal
  <2>1. io' = io /\ WriteOut(c)' = WriteOut(c) /\ Busy(c)' = Busy(c)
    BY <1>4, ClientsAssumption DEF ClientsAssumption, FirstRead, Goto, Done, WriteOut, Busy
  <2>2. CASE c = my[w] /\ pc'[w] = "initcount"
    <3>1. Owing(c)' = Owing(c) \cup {w} /\ w \notin Owing(c)
      BY <1>4, <2>2 DEF FirstRead, Goto, Done, Owing
    <3>2. read[c] = "none" /\ read'[c] = "posted"
      BY <1>4, <2>2 DEF FirstRead, PostReceive, Goto, Done, Alone, Active
    <3> QED BY <2>1, <3>1, <3>2, UsersCount DEF ReadOut
  <2>3. CASE ~(c = my[w] /\ pc'[w] = "initcount")
    <3>1. Owing(c)' = Owing(c) /\ ReadOut(c)' = ReadOut(c)
      BY <1>4, <2>3, ClientsAssumption DEF ClientsAssumption, FirstRead, PostReceive, Goto, Done,
         Owing, ReadOut
    <3> QED BY <2>1, <3>1
  <2> QED BY <2>2, <2>3
<1>5. ASSUME NEW w \in Workers, CountFirst(w) PROVE Goal
  <2>1. WriteOut(c)' = WriteOut(c) /\ ReadOut(c)' = ReadOut(c) /\ Busy(c)' = Busy(c)
    BY <1>5, ClientsAssumption DEF ClientsAssumption, CountFirst, Done, ReadOut, WriteOut, Busy
  <2>2. CASE c = my[w]
    <3>1. Owing(c)' = Owing(c) \ {w} /\ w \in Owing(c)
      BY <1>5, <2>2 DEF CountFirst, Done, Owing
    <3>2. io'[c] = io[c] + 1
      BY <1>5, <2>2 DEF CountFirst, Add
    <3> QED BY <2>1, <3>1, <3>2, UsersCount
  <2>3. CASE c # my[w]
    <3>1. Owing(c)' = Owing(c) /\ io'[c] = io[c]
      BY <1>5, <2>3, ClientsAssumption DEF ClientsAssumption, CountFirst, Done, Add, Owing
    <3> QED BY <2>1, <3>1
  <2> QED BY <2>2, <2>3
<1>6. ASSUME NEW w \in Workers, ReadNext(w) PROVE Goal
  <2>1. io' = io /\ WriteOut(c)' = WriteOut(c) /\ Owing(c)' = Owing(c)
    BY <1>6 DEF ReadNext, EndOfBuffer, Goto, WriteOut, Owing
  <2>2. CASE c = my[w] /\ pc'[w] = "count"
    <3>1. Busy(c)' = Busy(c) \ {w} /\ w \in Busy(c)
      BY <1>6, <2>2 DEF ReadNext, EndOfBuffer, Goto, Busy
    <3>2. read[c] = "none" /\ read'[c] = "posted"
      BY <1>6, <2>2 DEF ReadNext, EndOfBuffer, PostReceive, Goto, Alone, Active
    <3> QED BY <2>1, <3>1, <3>2, UsersCount DEF ReadOut
  <2>3. CASE ~(c = my[w] /\ pc'[w] = "count")
    <3>1. Busy(c)' = Busy(c) /\ ReadOut(c)' = ReadOut(c)
      BY <1>6, <2>3 DEF ReadNext, EndOfBuffer, PostReceive, Goto, Busy, ReadOut
    <3> QED BY <2>1, <3>1
  <2> QED BY <2>2, <2>3
<1>7. ASSUME NEW w \in Workers, CountRead(w) PROVE Goal
  <2>1. WriteOut(c)' = WriteOut(c) /\ ReadOut(c)' = ReadOut(c) /\ Owing(c)' = Owing(c)
    BY <1>7 DEF CountRead, Goto, ReadOut, WriteOut, Owing
  <2>2. CASE c = my[w]
    <3>1. Busy(c)' = Busy(c) \cup {w} /\ w \notin Busy(c)
      BY <1>7, <2>2 DEF CountRead, Goto, Busy
    <3>2. io'[c] = io[c] + 1
      BY <1>7, <2>2 DEF CountRead, Add
    <3> QED BY <2>1, <3>1, <3>2, UsersCount
  <2>3. CASE c # my[w]
    <3>1. Busy(c)' = Busy(c) /\ io'[c] = io[c]
      BY <1>7, <2>3 DEF CountRead, Goto, Add, Busy
    <3> QED BY <2>1, <3>1
  <2> QED BY <2>2, <2>3
<1>8. ASSUME NEW w \in Workers, Release(w) PROVE Goal
  <2>1. WriteOut(c)' = WriteOut(c) /\ ReadOut(c)' = ReadOut(c) /\ Owing(c)' = Owing(c)
    BY <1>8, ClientsAssumption DEF ClientsAssumption, Release, Done, ReadOut, WriteOut, Owing
  <2>2. CASE c = my[w]
    <3>1. Busy(c)' = Busy(c) \ {w} /\ w \in Busy(c)
      BY <1>8, <2>2, ClientsAssumption DEF ClientsAssumption, Release, Done, Busy
    <3>2. io'[c] = io[c] - 1
      BY <1>8, <2>2 DEF Release, Add
    <3> QED BY <2>1, <3>1, <3>2, UsersCount
  <2>3. CASE c # my[w]
    <3>1. Busy(c)' = Busy(c) /\ io'[c] = io[c]
      BY <1>8, <2>3, ClientsAssumption DEF ClientsAssumption, Release, Done, Add, Busy
    <3> QED BY <2>1, <3>1
  <2> QED BY <2>2, <2>3
<1> QED BY SteadyStep, <1>1, <1>2, <1>3, <1>4, <1>5, <1>6, <1>7, <1>8 DEF Moving

\* The counts of reads and writes hold at the start and are kept.
LEMMA InitPort == Init => Port
<1> SUFFICES ASSUME Init PROVE Port
  OBVIOUS
<1> USE ClientsAssumption DEF ClientsAssumption
<1>1. Listed /\ Writing
  BY DEF Init, Listed, Writing, At
<1>2. ASSUME NEW c \in Conns
      PROVE  Busy(c) = {} /\ Owing(c) = {} /\ ReadOut(c) = 0 /\ WriteOut(c) = 0 /\ io[c] = 0
  BY DEF Init, Busy, Owing, ReadOut, WriteOut
<1>3. Counted
  BY <1>2, FS_EmptySet DEF Counted
<1> QED BY <1>1, <1>3 DEF Port

\* No step loses a count or a write that is counted.
LEMMA PortStep == IInv /\ Port /\ [Next]_vars => Port'
<1> SUFFICES ASSUME IInv, Port, [Next]_vars PROVE Port'
  OBVIOUS
<1>1. CASE Next
  BY <1>1, ListedStep, WritingStep, CountedStep DEF IInv, Port
<1>2. CASE UNCHANGED vars
  BY <1>2 DEF vars, conn, port, worker, Port, Listed, Writing, Counted, Busy, Owing, ReadOut,
              WriteOut, At
<1> QED BY <1>1, <1>2

(* The counter of a connection (ioWorkersReferenceCounter) is the workers  *)
(* that serve it and the reads and writes that are posted or have failed,  *)
(* but for the reads that PostReceive has posted and not counted yet.  So  *)
(* what failed at the close is counted for ever, and nothing else is.      *)
THEOREM CountsAreKept == Spec => []Counted
<1>1. Port => Counted
  BY DEF Port
<1> QED BY InitPort, PortStep, <1>1, Inductive, PTL DEF Spec

----------------------------------------------------------------------------
(* Once a client is given to the garbage collector nothing brings it back: *)
(* it has no read, and no worker does more with it than count and go.  So  *)
(* it is given once, and deleted when nobody holds it.                     *)
Over(c) ==
    /\ status[c] = "Disposable" /\ read[c] = "none"
    /\ \A w \in Workers : my[w] = c => pc[w] \in Late \cup {"wrote", "dec"}
Retired ==
    \A c \in Conns :
        /\ waiting[c] > 0 \/ c \in deleted => Over(c)
        /\ waiting[c] <= (IF c \in deleted THEN 0 ELSE 1)
        /\ c \in deleted => c \notin streamed /\ \A w \in Workers : ~Uses(w, c)
        /\ c \in deleted \ early =>
              write[c] \notin {"posted", "sent"} /\ \A w \in Workers : my[w] # c

\* The collector takes a client that has no holder left: and unless a worker has yet to
\* count a read, no worker and no write either.
LEMMA CollectRetired ==
    ASSUME TypeOK, UsageIsHolders, Counted, Retired, NEW c \in Conns, Collect(c)
    PROVE  Retired'
<1>1. c \notin streamed /\ Cardinality(Users(c)) = 0
  <2>1. usage[c] = Cardinality(Users(c)) + (IF c \in streamed THEN 1 ELSE 0)
    BY DEF UsageIsHolders, Users
  <2> QED BY <2>1, HoldersInt DEF Collect, CanDelete
<1>2. Users(c) = {}
  BY <1>1, ClientsAssumption, FS_Subset, FS_EmptySet DEF ClientsAssumption, Users
<1>3. \A w \in Workers : ~Uses(w, c)
  BY <1>2 DEF Users
<1>4. waiting[c] = 1 /\ Over(c) /\ c \notin deleted
  BY DEF Collect, Retired, TypeOK
<1>5. /\ deleted' = deleted \cup {c} /\ waiting' = [waiting EXCEPT ![c] = 0]
      /\ UNCHANGED <<status, streamed, read, write, pc, my, other>>
      /\ early \subseteq early' /\ early' \subseteq early \cup {c}
  BY <1>4 DEF Collect, Add, conn, port, worker, TypeOK
<1>6. c \notin early' => WriteOut(c) = 0 /\ \A w \in Workers : my[w] # c
  <2> SUFFICES ASSUME c \notin early' PROVE WriteOut(c) = 0 /\ \A w \in Workers : my[w] # c
    OBVIOUS
  <2>1. \A w \in Workers : my[w] = c => pc[w] \notin Late
    BY DEF Collect
  <2>2. Owing(c) = {} /\ \A w \in Workers : my[w] = c => w \in Busy(c)
    BY <1>4, <2>1 DEF Owing, Busy, Late, Over
  <2>3. Cardinality(Busy(c)) \in Nat /\ Cardinality(Owing(c)) = 0 /\ IsFiniteSet(Busy(c))
    BY <2>2, ClientsAssumption, FS_Subset, FS_EmptySet, FS_CardinalityType
       DEF ClientsAssumption, Busy
  <2>4. 0 = Cardinality(Busy(c)) - Cardinality(Owing(c)) + ReadOut(c) + WriteOut(c)
    BY DEF Collect, CanDelete, Counted
  <2>5. Cardinality(Busy(c)) = 0 /\ WriteOut(c) = 0
    BY <2>3, <2>4 DEF ReadOut, WriteOut
  <2> QED BY <2>2, <2>3, <2>5, FS_EmptySet
<1>7. \A d \in Conns : Over(d)' <=> Over(d)
  BY <1>5 DEF Over
<1>8. \A d \in Conns, w \in Workers : Uses(w, d)' <=> Uses(w, d)
  BY <1>5 DEF Uses
<1>9. ASSUME NEW d \in Conns, d # c
      PROVE  /\ waiting'[d] = waiting[d] /\ (d \in deleted' <=> d \in deleted)
             /\ (d \in early' <=> d \in early)
  BY <1>5, <1>9 DEF TypeOK
<1>10. waiting'[c] = 0 /\ c \in deleted'
  BY <1>5 DEF TypeOK
<1>11. WriteOut(c) = 0 => write[c] \notin {"posted", "sent"}
  BY DEF WriteOut
<1> QED BY <1>1, <1>3, <1>4, <1>5, <1>6, <1>7, <1>8, <1>9, <1>10, <1>11 DEF Retired

\* Every step keeps it.
LEMMA RetiredStep == ASSUME OneKeyEach, IInv, Exact, Port, Retired, Next
                     PROVE  Retired'
<1>0. /\ TypeOK /\ HasConn /\ Started /\ Alone /\ Others /\ Disposed /\ NoReplace
      /\ UsageIsHolders /\ Counted
  BY DEF IInv, Exact, Port
<1> USE <1>0, ClientsAssumption DEF ClientsAssumption, TypeOK, Statuses, Reads, Writes,
            Steps, Joining, Late, Alive, HasConn, PreMap, Others, Alone, Active, Retired,
            Over, Uses, Joining, NoReplace, At, MyKey, worker, conn, port, life
<1>1. ASSUME NEW c \in Conns, Accept(c) PROVE Retired'
  BY <1>1 DEF Accept
<1>2. ASSUME NEW c \in Conns, Arrive(c) PROVE Retired'
  BY <1>2 DEF Arrive
<1>3. ASSUME NEW c \in Conns, Sent(c) PROVE Retired'
  BY <1>3 DEF Sent
<1>4. ASSUME NEW c \in Conns, Fail(c) PROVE Retired'
  BY <1>4 DEF Fail, Failing
<1>5. ASSUME NEW c \in Conns, Expire(c) PROVE Retired'
  BY <1>5 DEF Expire, Close, Failing
<1>6. ASSUME NEW c \in Conns, Collect(c) PROVE Retired'
  BY <1>6, CollectRetired
<1>7. ASSUME NEW c \in Conns, Drop(c) PROVE Retired'
  BY <1>7 DEF Drop, Add
<1>8. ASSUME NEW c \in Conns, Broadcast(c) PROVE Retired'
  BY <1>8 DEF Broadcast, PushPacket, WriteBytes, Add
<1>9. ASSUME NEW w \in Workers, NEW c \in Conns, NEW n \in 0 .. MaxBurst, GetRead(w, c, n)
       PROVE Retired'
  BY <1>9 DEF GetRead, Take
<1>10. ASSUME NEW w \in Workers, NEW c \in Conns, GetWritten(w, c) PROVE Retired'
  BY <1>10 DEF GetWritten, Take
<1>11. ASSUME NEW w \in Workers, NEW c \in Conns, GetAccepted(w, c) PROVE Retired'
  BY <1>11 DEF GetAccepted, Take
<1>12. ASSUME NEW w \in Workers, FirstRead(w) PROVE Retired'
  BY <1>12 DEF FirstRead, PostReceive, Done, Goto
<1>13. ASSUME NEW w \in Workers, CountFirst(w) PROVE Retired'
  BY <1>13 DEF CountFirst, Add, Done
<1>14. ASSUME NEW w \in Workers, OnSendCompleted(w) PROVE Retired'
  BY <1>14 DEF OnSendCompleted, Goto, WriteBytes, Add
<1>15. ASSUME NEW w \in Workers, ReadStatus(w) PROVE Retired'
  BY <1>15 DEF ReadStatus, Goto
<1>16. ASSUME NEW w \in Workers, PeerClosed(w) PROVE Retired'
  BY <1>16 DEF PeerClosed, Close, Failing, Goto
<1>17. ASSUME NEW w \in Workers, Disconnect(w) PROVE Retired'
  BY <1>17 DEF Disconnect, Goto
<1>18. ASSUME NEW w \in Workers, Discard(w) PROVE Retired'
  <2>1. my[w] \in Conns /\ status[my[w]] # "none" /\ read[my[w]] = "none"
    BY <1>18 DEF Discard, Started
  <2>2. waiting[my[w]] = 0 /\ my[w] \notin deleted
    BY <1>18, <2>1 DEF Discard
  <2>3. /\ waiting' = [waiting EXCEPT ![my[w]] = 1] /\ pc' = [pc EXCEPT ![w] = "dec"]
        /\ status' = [status EXCEPT ![my[w]] = "Disposable"] /\ read' = read
        /\ UNCHANGED <<my, other, streamed, deleted, early>>
        /\ \A c \in Conns : c # my[w] => write'[c] = write[c]
    BY <1>18, <2>1, <2>2 DEF Discard, Close, Failing, Add, Goto
  <2>4. \A v \in Workers : my[v] = my[w] => pc'[v] \in Late \cup {"wrote", "dec"}
    BY <1>18, <2>1, <2>3 DEF Discard
  <2> QED BY <2>1, <2>2, <2>3, <2>4
<1>19. ASSUME NEW w \in Workers, Serve(w) PROVE Retired'
  BY <1>19 DEF Serve, Looping, NextPacket, Goto, PushPacket, WriteBytes, Add
<1>20. ASSUME NEW w \in Workers, NEW k \in Keys, Find(w, k) PROVE Retired'
  BY <1>20 DEF Find, Looping, Hold, Add, Goto, Disposed, Disposing
<1>21. ASSUME NEW w \in Workers, Return(w) PROVE Retired'
  BY <1>21 DEF Return, NextPacket, Add, Goto, PushPacket, WriteBytes
<1>22. ASSUME NEW w \in Workers, FirstRequest(w) PROVE Retired'
  BY <1>22 DEF FirstRequest, Looping, Goto, PushPacket, WriteBytes, Add
<1>23. ASSUME NEW w \in Workers, First(w) PROVE Retired'
  BY <1>23 DEF First, NextPacket, Add, Goto
<1>24. ASSUME NEW w \in Workers, Attach(w) PROVE Retired'
  BY <1>24 DEF Attach, Goto
<1>25. ASSUME NEW w \in Workers, AddLogical(w) PROVE Retired'
  BY <1>25 DEF AddLogical, Hold, Add, Goto, Disposed, Disposing
<1>26. ASSUME NEW w \in Workers, Replace(w) PROVE Retired'
  BY <1>26 DEF Replace, Goto
<1>27. ASSUME NEW w \in Workers, Silent(w) PROVE Retired'
  BY <1>27 DEF Silent, Close, Failing, Add, Goto
<1>28. ASSUME NEW w \in Workers, Readd(w) PROVE Retired'
  BY <1>28 DEF Readd, Hold, Add, Goto
<1>29. ASSUME NEW w \in Workers, Stream(w) PROVE Retired'
  BY <1>29 DEF Stream, Add, Goto
<1>30. ASSUME NEW w \in Workers, LoggedIn(w) PROVE Retired'
  BY <1>30 DEF LoggedIn, Welcome, NextPacket, Add, PushPacket, WriteBytes
<1>31. ASSUME NEW w \in Workers, ReadNext(w) PROVE Retired'
  BY <1>31 DEF ReadNext, PostReceive, EndOfBuffer, Goto
<1>32. ASSUME NEW w \in Workers, CountRead(w) PROVE Retired'
  BY <1>32 DEF CountRead, Add, Goto
<1>33. ASSUME NEW w \in Workers, Release(w) PROVE Retired'
  BY <1>33 DEF Release, Add, Done
<1> QED BY <1>1, <1>2, <1>3, <1>4, <1>5, <1>6, <1>7, <1>8, <1>9, <1>10, <1>11, <1>12,
           <1>13, <1>14, <1>15, <1>16, <1>17, <1>18, <1>19, <1>20, <1>21, <1>22, <1>23,
           <1>24, <1>25, <1>26, <1>27, <1>28, <1>29, <1>30, <1>31, <1>32, <1>33
       DEF Next, Handle, Get

(* Nobody has a client that the garbage collector deleted: the streamer,   *)
(* the map, a completion or a worker beyond its last counts, and it is not *)
(* deleted again (GarbageCollector::Activate, ClientFactoryImpl::          *)
(* Disconnect), as long as every connection logs in under its own key.     *)
THEOREM DeletedIsForgotten == ASSUME OneKeyEach PROVE Spec => []NoUseAfterFree
<1>1. Init => Exact /\ Port /\ Retired
  BY InitExact, InitPort DEF Init, Retired, Over, Uses
<1>2. IInv /\ Exact /\ Port /\ Retired /\ [Next]_vars => Exact' /\ Port' /\ Retired'
  <2> SUFFICES ASSUME IInv, Exact, Port, Retired, [Next]_vars PROVE Exact' /\ Port' /\ Retired'
    OBVIOUS
  <2>1. CASE Next
    BY <2>1, ExactStep, PortStep, RetiredStep
  <2>2. CASE UNCHANGED vars
    <3>1. Exact'
      BY <2>2 DEF vars, life, worker, Exact, NoReplace, UsageIsHolders, Uses
    <3>2. Port'
      BY <2>2, PortStep
    <3>3. Retired'
      BY <2>2 DEF vars, conn, port, life, worker, Retired, Over, Uses
    <3> QED BY <3>1, <3>2, <3>3
  <2> QED BY <2>1, <2>2
<1>3. IInv /\ Retired => NoUseAfterFree
  BY DEF IInv, TypeOK, Disposed, Disposing, Retired, Over, NoUseAfterFree
<1> QED BY <1>1, <1>2, <1>3, Inductive, PTL DEF Spec
=============================================================================
