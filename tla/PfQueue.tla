------------------------------ MODULE PfQueue ------------------------------
(***************************************************************************)
(* One broadcast queue of PushFramework (private/BroadcastQueue.cpp with   *)
(* PacketInfo.cpp).  Packets are pushed at the tail; every subscribed      *)
(* client owns a cursor, the position of the last packet it was sent; a    *)
(* reader (the streamer thread, or an IO worker serving a monitor) takes   *)
(* the client's next packet, pushes it to the socket without the queue's   *)
(* lock, and then disposes it.  A reference counter keeps a packet that is *)
(* removed meanwhile alive until its last reader has disposed it.          *)
(*                                                                         *)
(* Every method holds the lock `cs' for its whole body, so each one is one *)
(* action.  A packet is named by its place in the order of the pushes:     *)
(* the linked list only grows at its tail, so the set `live' of the        *)
(* packets in it, ordered by name, is the list (head = least, tail =       *)
(* greatest).                                                              *)
(***************************************************************************)
EXTENDS Integers, FiniteSets

CONSTANTS Clients,              \* the client keys
          Readers,              \* the threads that may hold a packet
          Exclusive,            \* TRUE: a client is served by one reader at a
                                \* time (the streamer); FALSE: by any (monitors)
          RequireRegistration,  \* requireRegistration of the queue
          MaxPackets,           \* maxPacket of the queue
          Tag,                  \* the pairs of killKey and objectCategory in use
          NumPackets            \* bound: packets pushed in a behaviour

ASSUME QueueAssumption ==
    /\ IsFiniteSet(Readers)
    /\ Exclusive \in BOOLEAN /\ RequireRegistration \in BOOLEAN
    /\ MaxPackets \in Nat /\ NumPackets \in Nat

VARIABLES pushed,    \* number of packets pushed so far
          live,      \* the packets between pHead and pTail
          pos,       \* queuePosition of a packet
          tag,       \* its killKey and objectCategory
          ref,       \* its refCount
          removed,   \* removedList: removed while somebody held them
          freed,     \* packets whose PacketInfo is deleted
          released,  \* packets whose OutgoingPacket is given back
          last,      \* clientMap: last position sent, Absent if no entry
          held,      \* what a reader took and has not disposed yet
          member,    \* history: clients subscribed by the application
          seen       \* history: newest packet sent since (un)subscription

packetVars == <<pos, tag, ref, removed, freed, released>>
clientVars == <<last, member, seen>>
vars == <<pushed, live, packetVars, clientVars, held>>

Packet == 1 .. NumPackets
Absent == -1
Nothing == [client |-> Absent, packet |-> 0]

\* The first and the last packet of the list, NULL never asked for.
HeadOf(S) == CHOOSE p \in S : \A q \in S : p <= q
TailOf(S) == CHOOSE p \in S : \A q \in S : q <= p

TypeOK ==
    /\ pushed \in 0 .. NumPackets
    /\ live \subseteq 1 .. pushed
    /\ pos \in [Packet -> Nat]
    /\ ref \in [Packet -> Nat]
    /\ removed \subseteq 1 .. pushed
    /\ freed \subseteq 1 .. pushed
    /\ released \subseteq freed
    /\ last \in [Clients -> Nat \cup {Absent}]
    /\ held \in [Readers -> {Nothing} \cup [client : Clients, packet : Packet]]
    /\ member \subseteq Clients
    /\ seen \in [Clients -> 0 .. NumPackets]

Init ==
    /\ pushed = 0 /\ live = {} /\ removed = {} /\ freed = {} /\ released = {}
    /\ pos = [p \in Packet |-> 0] /\ ref = [p \in Packet |-> 0]
    /\ tag = [p \in Packet |-> CHOOSE t \in Tag : TRUE]
    /\ last = [c \in Clients |-> Absent] /\ held = [r \in Readers |-> Nothing]
    /\ member = {} /\ seen = [c \in Clients |-> 0]

----------------------------------------------------------------------------
\* Mutant: the reference counter is not looked at.
InternalRemove_NoCount(S, p) ==
    /\ live' = S \ {p}
    /\ freed' = freed \cup {p}
    /\ released' = released \cup {p}
    /\ UNCHANGED removed
\* InternalRemove(p) on the list S: unlinked, then deleted at once with its
\* packet, or parked in removedList when somebody holds it.
InternalRemove(S, p) ==
    /\ live' = S \ {p}
    /\ IF ref[p] = 0
       THEN /\ freed' = freed \cup {p}
            /\ released' = released \cup {p}
            /\ UNCHANGED removed
       ELSE /\ removed' = removed \cup {p}
            /\ UNCHANGED <<freed, released>>

\* The position of a new packet: one more than the tail's, 1 in an empty list.
NewPosition == IF live = {} THEN 1 ELSE pos[TailOf(live)] + 1

\* nPackets > maxPacket, looked at after nPackets++.
Overflows(S) == Cardinality(S) > MaxPackets

\* pushPacket: append, then drop the head if there are too many.
Push(t) ==
    LET p == pushed + 1
        S == live \cup {p}
    IN  /\ pushed < NumPackets
        /\ pushed' = p
        /\ pos' = [pos EXCEPT ![p] = NewPosition]
        /\ tag' = [tag EXCEPT ![p] = t]
        /\ IF Overflows(S)
           THEN InternalRemove(S, HeadOf(S))
           ELSE live' = S /\ UNCHANGED <<removed, freed, released>>
        /\ UNCHANGED <<ref, clientVars, held>>

\* removePacket(killKey, category): the search goes on while the packet
\* differs in BOTH, so it stops at the first that matches in EITHER.
Matching(t) == {p \in live : \/ tag[p].killKey = t.killKey
                             \/ tag[p].category = t.category}
RemovePacket(t) ==
    /\ Matching(t) # {}
    /\ InternalRemove(live, HeadOf(Matching(t)))
    /\ UNCHANGED <<pushed, pos, tag, ref, clientVars, held>>

\* subscribeClient: the cursor is (re)set to before the first packet.
Subscribe(c) ==
    /\ last' = [last EXCEPT ![c] = 0]
    /\ member' = member \cup {c}
    /\ seen' = [seen EXCEPT ![c] = 0]
    /\ UNCHANGED <<pushed, live, packetVars, held>>

\* unsubscribeClient: the entry of the map is erased.
Unsubscribe(c) ==
    /\ last[c] # Absent
    /\ last' = [last EXCEPT ![c] = Absent]
    /\ member' = member \ {c}
    /\ seen' = [seen EXCEPT ![c] = 0]
    /\ UNCHANGED <<pushed, live, packetVars, held>>

----------------------------------------------------------------------------
Cursor(c) == IF last[c] = Absent THEN 0 ELSE last[c]
\* Mutant: the packet at the cursor is found again.
Unseen_Again(c) == {p \in live : pos[p] >= Cursor(c)}
Unseen(c) == {p \in live : pos[p] > Cursor(c)}

\* getNextPacket: the first packet behind the client's cursor, counted.
Take(r, c) ==
    /\ held[r] = Nothing
    /\ Exclusive => \A o \in Readers : held[o].client # c
    /\ RequireRegistration => last[c] # Absent
    /\ Unseen(c) # {}
    /\ LET p == HeadOf(Unseen(c))
       IN  /\ held' = [held EXCEPT ![r] = [client |-> c, packet |-> p]]
           /\ ref' = [ref EXCEPT ![p] = @ + 1]
    /\ UNCHANGED <<pushed, live, pos, tag, removed, freed, released, clientVars>>

\* Mutant: tested before the decrement.
LastUse_Before(p) == p \in removed /\ ref[p] = 0
\* The test of disposePacket, on the counter after its decrement.
LastUse(p) == p \in removed /\ ref[p] - 1 = 0

\* disposePacket: a successful send writes the cursor, whatever became of the
\* client's entry meanwhile; the last user deletes a removed packet's info.
Dispose(r, success) ==
    LET p == held[r].packet
        c == held[r].client
    IN  /\ held[r] # Nothing
        /\ held' = [held EXCEPT ![r] = Nothing]
        /\ IF success
           THEN /\ last' = [last EXCEPT ![c] = pos[p]]
                /\ seen' = [seen EXCEPT ![c] = p]
           ELSE UNCHANGED <<last, seen>>
        /\ ref' = [ref EXCEPT ![p] = @ - 1]
        /\ IF LastUse(p)
           THEN removed' = removed \ {p} /\ freed' = freed \cup {p}
           ELSE UNCHANGED <<removed, freed>>
        /\ UNCHANGED <<pushed, live, pos, tag, released, member>>

Next ==
    \/ \E t \in Tag : Push(t) \/ RemovePacket(t)
    \/ \E c \in Clients : Subscribe(c) \/ Unsubscribe(c)
    \/ \E r \in Readers, c \in Clients : Take(r, c)
    \/ \E r \in Readers, success \in BOOLEAN : Dispose(r, success)

\* A reader always comes back from TryPushPacket and disposes its packet;
\* nobody has to push, remove, subscribe or take.
Fairness == \A r \in Readers : WF_vars(\E success \in BOOLEAN : Dispose(r, success))
Spec == Init /\ [][Next]_vars
FairSpec == Spec /\ Fairness

----------------------------------------------------------------------------
(* A reader that sits in TryPushPacket holds a packet whose PacketInfo and *)
(* OutgoingPacket are both still allocated, whatever was removed or pushed *)
(* out of the queue meanwhile (the reference counter of BroadcastQueue).   *)
HeldIsAlive == \A r \in Readers : held[r] # Nothing =>
                  held[r].packet \in live \cup removed /\ held[r].packet \notin freed

(* The queue never keeps more than maxPacket packets.                      *)
QueueBounded == Cardinality(live) <= MaxPackets

(* A client that one streamer serves is only given packets newer than the  *)
(* ones it was sent since it subscribed: no duplicate, no reordering, in   *)
(* spite of positions that are used again after a removal at the tail.     *)
InOrder == Exclusive => \A r \in Readers : held[r] # Nothing =>
              held[r].packet > seen[held[r].client]

(* A packet removed while it was held is freed in the end: the last reader *)
(* finds it in removedList.                                                *)
RemovedAreFreed == \A p \in Packet : (p \in removed) ~> (p \in freed)
=============================================================================
