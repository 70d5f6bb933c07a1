--------------------------- MODULE PfDistributor ---------------------------
(***************************************************************************)
(* PushFramework's streamer thread (private/AbstractDistributor.cpp with   *)
(* BroadcastStreamer.cpp): it goes round the clients of its active list    *)
(* and sends each one packet per turn; a client with nothing to send is    *)
(* parked in the inactive list.  Other threads hand it new clients         *)
(* (AddItem, under a lock), push packets and then ask for a new look at    *)
(* the parked clients (Reshuffle).  Nobody is woken: the thread compares   *)
(* times of the clock, in whole seconds, and sleeps when they tell it that *)
(* nothing happened.                                                       *)
(*                                                                         *)
(* The code compares the times of additions with each other, those of      *)
(* pushes and parkings with each other, and does nothing else with them:   *)
(* a time is kept as its age, the number of seconds since then that still  *)
(* tell two times apart.  The clock runs forever in finitely many states,  *)
(* and no bound ends a race.                                               *)
(***************************************************************************)
EXTENDS Integers, SequencesExt

CONSTANTS Items,     \* names of LogicalConnections, used again after deletion
          Pushers,   \* threads that call BroadcastManager::PushPacket
          MaxWork    \* bound: packets queued for a client

ASSUME MaxWorkAssumption == MaxWork \in Nat \ {0}

VARIABLES pc,        \* of the streamer thread
          it,        \* its place in the active list
          active, inactive, inserted,   \* activeList, inactiveList, insertedItemsList
          age,       \* of every time that is kept
          usage,     \* references the streamer has on a connection
          closed,    \* connections whose status is below Connected
          work,      \* packets the queues have for a client
          pushing,   \* where a pusher is: "idle", "look", "store"
          stop       \* stop was called

thread == <<pc, it, active, inactive>>
vars == <<thread, inserted, age, usage, closed, work, pushing, stop>>

Times == {{"lastAddedItemTime", "lastAddedItemsSyncTime"},
          {"lastQueueChange", "lastListChange"} \cup Pushers}

\* Ages by rank: how many different moments of its group, or the present, are
\* later.
Ranked(a) ==
    [k \in DOMAIN a |->
        LET group == CHOOSE g \in Times : k \in g
        IN  Cardinality({v \in {0} \cup {a[j] : j \in group} : v < a[k]})]
\* k is set to time(NULL).
Stamp(a, k) == Ranked([a EXCEPT ![k] = 0])

Listed == Range(active) \cup Range(inactive) \cup Range(inserted)

TypeOK ==
    /\ pc \in {"while", "inactive", "process", "pause", "send",
               "end_new", "end_inactive", "done"}
    /\ it \in Nat
    /\ active \in Seq(Items) /\ inactive \in Seq(Items) /\ inserted \in Seq(Items)
    /\ age \in [UNION Times -> Nat]
    /\ usage \in [Items -> Nat] /\ closed \subseteq Items
    /\ work \in [Items -> 0 .. MaxWork]
    /\ pushing \in [Pushers -> {"idle", "look", "store"}]
    /\ stop \in BOOLEAN

\* The constructor: the times of an added item and of a push are 0.
Init ==
    /\ pc = "while" /\ it = 1
    /\ active = <<>> /\ inactive = <<>> /\ inserted = <<>>
    /\ age = [k \in UNION Times |-> IF k \in {"lastListChange", "lastAddedItemsSyncTime"}
                                   THEN 0 ELSE 1]
    /\ usage = [i \in Items |-> 0] /\ closed = {}
    /\ work = [i \in Items |-> 0]
    /\ pushing = [p \in Pushers |-> "idle"] /\ stop = FALSE

----------------------------------------------------------------------------
\* Another second begins.
Tick ==
    /\ age' = Ranked([k \in DOMAIN age |-> age[k] + 1])
    /\ UNCHANGED <<thread, inserted, usage, closed, work, pushing, stop>>

\* BroadcastStreamer::AddItem on a new connection: the reference first ...
AddUsage(i) ==
    /\ usage[i] = 0
    /\ usage' = [usage EXCEPT ![i] = 1]
    /\ UNCHANGED <<thread, inserted, age, closed, work, pushing, stop>>

\* ... then AbstractDistributor::AddItem, under the lock.
AddItem(i) ==
    /\ usage[i] = 1 /\ i \notin Listed
    /\ inserted' = Append(inserted, i)
    /\ age' = Stamp(age, "lastAddedItemTime")
    /\ UNCHANGED <<thread, usage, closed, work, pushing, stop>>

\* The connection is closed, by its peer or by the server.
Close(i) ==
    /\ i \in Listed \ closed
    /\ closed' = closed \cup {i}
    /\ UNCHANGED <<thread, inserted, age, usage, work, pushing, stop>>

\* PushPacket: the packet is queued for the clients of some queue, and
\* ActivateSubscribers calls Reshuffle, which reads the clock and then stores.
Push(p, S) ==
    /\ pushing[p] = "idle"
    /\ pushing' = [pushing EXCEPT ![p] = "look"]
    /\ work' = [i \in Items |-> IF i \in S /\ work[i] < MaxWork THEN work[i] + 1 ELSE work[i]]
    /\ UNCHANGED <<thread, inserted, age, usage, closed, stop>>
ReshuffleLook(p) ==
    /\ pushing[p] = "look"
    /\ pushing' = [pushing EXCEPT ![p] = "store"]
    /\ age' = Stamp(age, p)
    /\ UNCHANGED <<thread, inserted, usage, closed, work, stop>>
ReshuffleStore(p) ==
    /\ pushing[p] = "store"
    /\ pushing' = [pushing EXCEPT ![p] = "idle"]
    /\ age' = Ranked([age EXCEPT !["lastQueueChange"] = age[p]])
    /\ UNCHANGED <<thread, inserted, usage, closed, work, stop>>

\* AbstractDistributor::Stop, up to its join.
Stop ==
    /\ ~stop /\ stop' = TRUE
    /\ UNCHANGED <<thread, inserted, age, usage, closed, work, pushing>>

----------------------------------------------------------------------------
\* CheckMergeNewInsertedItems: looks only if an item came in a later second
\* than the last look.
NewItems == age["lastAddedItemTime"] < age["lastAddedItemsSyncTime"]
MergeNew ==
    IF NewItems
    THEN /\ active' = active \o inserted
         /\ inserted' = <<>>
         /\ age' = Stamp(age, "lastAddedItemsSyncTime")
    ELSE UNCHANGED <<active, inserted, age>>

\* Mutant: the times are compared the other way round.
QueueChanged_Reversed == age["lastQueueChange"] >= age["lastListChange"]
\* Mutant: every time.
QueueChanged_Always == TRUE
\* CheckMergeInactiveItems: looks unless the list changed in a later second
\* than the queues.
QueueChanged == age["lastQueueChange"] <= age["lastListChange"]
\* Mutant: the parked clients are not cleared.
MergeInactive_Keep ==
    IF QueueChanged
    THEN active' = active \o inactive /\ inactive' = inactive
    ELSE UNCHANGED <<active, inactive>>
MergeInactive ==
    IF QueueChanged
    THEN active' = active \o inactive /\ inactive' = <<>>
    ELSE UNCHANGED <<active, inactive>>

\* DoWork's loop: the two merges in turn, the second only if the first gave
\* nothing, then the active list or Sleep(1000), which changes nothing.
While ==
    /\ pc = "while"
    /\ IF stop
       THEN pc' = "done" /\ UNCHANGED <<active, inserted, age>>
       ELSE /\ MergeNew
            /\ pc' = IF NewItems /\ inserted # <<>> THEN "process" ELSE "inactive"
    /\ it' = 1
    /\ UNCHANGED <<inactive, usage, closed, work, pushing, stop>>
Inactive ==
    /\ pc = "inactive"
    /\ MergeInactive
    /\ pc' = IF QueueChanged /\ inactive # <<>> THEN "process" ELSE "while"
    /\ UNCHANGED <<it, inserted, age, usage, closed, work, pushing, stop>>

\* Where ProcessActiveList goes from place n of list s.
After(s, n) == IF n > Len(s) THEN "end_new" ELSE "process"

\* ProcessItem up to its answer: a closed connection is given back and leaves
\* the list (its name is free again), one without a packet is to be parked,
\* else a packet is taken.
Process ==
    /\ pc = "process"
    /\ IF active = <<>> THEN pc' = "while" /\ UNCHANGED <<active, usage, closed, work>>
       ELSE LET i == active[it]
            IN  IF i \in closed
                THEN /\ usage' = [usage EXCEPT ![i] = @ - 1]
                     /\ active' = RemoveAt(active, it)
                     /\ closed' = closed \ {i} /\ work' = [work EXCEPT ![i] = 0]
                     /\ pc' = After(active', it)
                ELSE /\ pc' = IF work[i] = 0 THEN "pause" ELSE "send"
                     /\ UNCHANGED <<active, usage, closed, work>>
    /\ UNCHANGED <<it, inactive, inserted, age, pushing, stop>>
\* PauseProcessing: parked, and the list has changed now.
Pause ==
    /\ pc = "pause"
    /\ inactive' = Append(inactive, active[it])
    /\ active' = RemoveAt(active, it)
    /\ age' = Stamp(age, "lastListChange")
    /\ pc' = After(active', it)
    /\ UNCHANGED <<it, inserted, usage, closed, work, pushing, stop>>

\* ContinueProcessing: TryPushPacket took the packet, or could not.
Send(success) ==
    /\ pc = "send"
    /\ work' = IF success THEN [work EXCEPT ![active[it]] = @ - 1] ELSE work
    /\ it' = it + 1
    /\ pc' = After(active, it + 1)
    /\ UNCHANGED <<active, inactive, inserted, age, usage, closed, pushing, stop>>

\* Mutant: new clients are only looked for when nobody is active.
EndNew_Skip ==
    /\ pc = "end_new"
    /\ pc' = "end_inactive"
    /\ UNCHANGED <<it, active, inactive, inserted, age, usage, closed, work, pushing, stop>>
\* The end of a round: both merges, and again from the beginning.
EndNew ==
    /\ pc = "end_new"
    /\ MergeNew
    /\ pc' = "end_inactive"
    /\ UNCHANGED <<it, inactive, usage, closed, work, pushing, stop>>
EndInactive ==
    /\ pc = "end_inactive"
    /\ MergeInactive
    /\ it' = 1 /\ pc' = "process"
    /\ UNCHANGED <<inserted, age, usage, closed, work, pushing, stop>>

Worker == While \/ Inactive \/ Process \/ Pause \/ (\E s \in BOOLEAN : Send(s))
              \/ EndNew \/ EndInactive
Pusher(p) == \/ \E S \in SUBSET (Listed \ closed) : Push(p, S)
             \/ ReshuffleLook(p) \/ ReshuffleStore(p)
Add == \E i \in Items : AddItem(i)

Next ==
    \/ Tick \/ Stop \/ Worker \/ Add
    \/ \E i \in Items : AddUsage(i) \/ Close(i)
    \/ \E p \in Pushers : Pusher(p)

\* Threads that are in the middle of a call go on, the clock runs, and a client
\* that reads its socket takes packets again and again.  Nobody has to push,
\* connect, close or stop.
Fairness ==
    /\ WF_vars(Worker) /\ WF_vars(Tick) /\ SF_vars(Send(TRUE))
    /\ \A i \in Items : WF_vars(AddItem(i))
    /\ \A p \in Pushers : WF_vars(ReshuffleLook(p)) /\ WF_vars(ReshuffleStore(p))
Spec == Init /\ [][Next]_vars
FairSpec == Spec /\ Fairness

----------------------------------------------------------------------------
(* The streamer has a reference on every connection in its lists, each in  *)
(* one of them and once: what ProcessItem touches is never collected, and  *)
(* a connection it has dropped is not held back.                           *)
HoldsWhatItLists ==
    /\ TypeOK
    /\ IsInjective(active \o inactive \o inserted)
    /\ \A i \in Listed : usage[i] = 1
    /\ \A i \in Items : usage[i] \in {0, 1}

Pushes == \E p \in Pushers : ReshuffleStore(p)

(* Once no more clients are added (each of them, parked in a later second, *)
(* hides the pushes before it) and as long as packets keep being pushed, a *)
(* client that has packets is brought back from the inactive list: no race *)
(* of a push with the parking of this or another client loses it for good. *)
ServedWhilePushed ==
    <>[][~Add]_vars /\ []<><<Pushes>>_vars /\ []~stop =>
        \A i \in Items : []<>~(i \in Range(inactive) /\ work[i] > 0)

(* A client that is added in a later second than the last look at the new  *)
(* ones is served, and so are those that waited before it, however busy    *)
(* the active list is kept.                                                *)
LateAddIsServed == []~stop =>
    \A i \in Items : (NewItems /\ i \in Range(inserted)) ~> (i \notin Range(inserted))

(* When nobody pushes or connects any more, Stop ends: the clients run out *)
(* of packets, the active list empties, and the loop looks at `stop'.      *)
StopEnds ==
    <>[][~ (Add \/ \E p \in Pushers, S \in SUBSET Items : Push(p, S))]_vars => (stop ~> pc = "done")
=============================================================================
