------------------------------- MODULE PfQos -------------------------------
(***************************************************************************)
(* How PushFramework chooses, for one client, the broadcast queue to serve *)
(* next (private/BroadcastManagerImplBase.cpp, BroadcastQueueInfo.cpp).    *)
(* The queues are kept in a chain of groups, the higher priority first,    *)
(* and inside a group in a list, the higher quota first.  A client's       *)
(* context remembers the queue it is being served from and how many        *)
(* packets of it were sent; after uPacketQuota of them the search moves on *)
(* along the group's list and, past its end, starts again from the top.    *)
(*                                                                         *)
(* What a queue holds for the client is a number of packets here (PfQueue  *)
(* has the queue itself): it grows with a push and shrinks when a packet   *)
(* is sent, or dropped because the queue is full or was told to.  A search *)
(* locks one queue after the other, so that packets come and go between    *)
(* two of its looks.                                                       *)
(***************************************************************************)
EXTENDS Integers, SequencesExt

CONSTANTS Queues,      \* the names of the queues
          priority,    \* uPriority of a queue
          quota,       \* uPacketQuota of a queue
          Removable,   \* the queues the application removes again
          MaxBacklog   \* bound: packets waiting in a queue for the client

ASSUME QosAssumption ==
    /\ priority \in [Queues -> Nat] /\ quota \in [Queues -> Nat]
    /\ Removable \subseteq Queues /\ MaxBacklog \in Nat

NULL == "NULL"
ASSUME NullIsNoQueue == NULL \notin Queues

VARIABLES chain,      \* pChainHead: the groups, each the list of its queues
          deleted,    \* BroadcastQueueInfos that are deleted
          backlog,    \* packets a queue has for the client
          ctx,        \* its BroadcastContext: pCurrentSinkChannel, nSentPackets
          search,     \* GetNextPacket: where it looks, the list and its item
          sending,    \* the queue whose packet is being sent, NULL if none
          steady,     \* history: queues that had a packet all through the search
          contested,  \* history: it was taken past a rival of those
          served,     \* history: the queue of the last packet sent
          streak      \* history: its packets sent in a row past a rival

serviceVars == <<ctx, search, sending, contested, served, streak>>
qosVars == <<chain, deleted, backlog, steady, serviceVars>>

Chained == UNION {Range(chain[g]) : g \in DOMAIN chain}
Ready == Chained = Queues /\ deleted = {}

\* The lists of a search count from 1.
NotSearching == [list |-> 0, item |-> 0]
Searching == search # NotSearching

QosTypeOK ==
    /\ chain \in Seq(Seq(Queues)) /\ deleted \subseteq Queues
    /\ backlog \in [Queues -> 0 .. MaxBacklog]
    /\ ctx \in [current : Queues \cup {NULL}, sent : Nat]
    /\ search \in [list : Nat, item : Nat] /\ steady \subseteq Queues
    /\ sending \in Queues \cup {NULL} /\ served \in Queues \cup {NULL}
    /\ contested \in BOOLEAN /\ streak \in Nat

QosInit ==
    /\ chain = <<>> /\ deleted = {} /\ search = NotSearching /\ steady = {}
    /\ backlog = [q \in Queues |-> 0]
    /\ ctx = [current |-> NULL, sent |-> 0]
    /\ sending = NULL /\ contested = FALSE /\ served = NULL /\ streak = 0

----------------------------------------------------------------------------
FirstIndex(s, Test(_)) == Min({i \in DOMAIN s : Test(s[i])} \cup {Len(s) + 1})

\* Mutant: always at the front.
InsertInGroup_Front(items, q) == InsertAt(items, 1, q)
\* insertChannelInfo: before the first queue of the list with no more quota.
InsertInGroup(items, q) ==
    LET NoMoreQuota(r) == quota[q] >= quota[r]
    IN  InsertAt(items, FirstIndex(items, NoMoreQuota), q)

\* insertChannelIntoOrderedChain: into the group of its priority, or as a new
\* group before the first one with less.
InsertInChain(q) ==
    LET NoMore(items) == priority[q] >= priority[items[1]]
        g == FirstIndex(chain, NoMore)
    IN  IF g <= Len(chain) /\ priority[q] = priority[chain[g][1]]
        THEN [chain EXCEPT ![g] = InsertInGroup(@, q)]
        ELSE InsertAt(chain, g, <<q>>)

\* CreateBroadcastQueue, before the clients are served.
Create(q) ==
    /\ q \notin Chained /\ deleted = {}
    /\ chain' = InsertInChain(q)
    /\ UNCHANGED <<deleted, backlog, steady, serviceVars>>

GroupOf(q) == CHOOSE g \in DOMAIN chain : q \in Range(chain[g])
PlaceOf(q) == CHOOSE i \in DOMAIN chain[GroupOf(q)] : chain[GroupOf(q)][i] = q
\* The list from q on: q, q->pNext, ...
From(q) == IF q = NULL THEN <<>>
           ELSE SubSeq(chain[GroupOf(q)], PlaceOf(q), Len(chain[GroupOf(q)]))
NextOf(q) == IF Len(From(q)) > 1 THEN From(q)[2] ELSE NULL

\* RemoveBroadcastQueue: the destructor of a BroadcastQueueInfo deletes its
\* pNext, so the rest of the list goes too, and nothing is unlinked.
RemoveQueue(q) ==
    /\ q \in Removable /\ Ready
    /\ deleted' = Range(From(q))
    /\ UNCHANGED <<chain, backlog, steady, serviceVars>>

----------------------------------------------------------------------------
\* pushPacket: a full queue loses its oldest packet for the new one.
PushPacket(q) ==
    /\ Ready /\ backlog[q] < MaxBacklog
    /\ backlog' = [backlog EXCEPT ![q] = @ + 1]
    /\ UNCHANGED <<chain, deleted, steady, serviceVars>>

\* removePacket, or an overflow, takes a packet the client was not sent yet.
Lose(q) ==
    /\ Ready /\ backlog[q] > (IF sending = q THEN 1 ELSE 0)
    /\ backlog' = [backlog EXCEPT ![q] = @ - 1]
    /\ steady' = IF backlog[q] = 1 THEN steady \ {q} ELSE steady
    /\ UNCHANGED <<chain, deleted, serviceVars>>

HasPacket(q) == backlog[q] > 0
\* The lists a search goes through: what follows in the current queue's, then
\* every group's from the top.
Lists == <<From(ctx.current)>> \o chain
\* The queue a search looks at.
Looked == Lists[search.list][search.item]
AtEnd == search.item > Len(Lists[search.list])

\* GetNextPacket begins.
StartSearch ==
    /\ Ready /\ sending = NULL /\ ~Searching
    /\ search' = [list |-> 1, item |-> 1]
    /\ steady' = {q \in Queues : HasPacket(q)}
    /\ UNCHANGED <<chain, deleted, backlog, ctx, sending, contested, served, streak>>

\* Mutant: at the end of the current queue's list the search is over.
NextList_NoWrap ==
    IF search.list < Len(Lists) /\ ctx.current = NULL
    THEN [list |-> search.list + 1, item |-> 1]
    ELSE NotSearching
\* Nothing in this list: go on with the next group's, or return NULL.
NextList ==
    IF search.list < Len(Lists) THEN [list |-> search.list + 1, item |-> 1]
                                ELSE NotSearching

\* Queues with a right to be served before or in turn with q.
Rivals(q) == {o \in Queues \ {q} : priority[o] >= priority[q]}

\* One round of getPacketFromGroupChain: the queue's getNextPacket, under its
\* lock, and on to the next item when it has none.
Look ==
    /\ Ready /\ Searching
    /\ IF ~AtEnd /\ HasPacket(Looked)
       THEN /\ sending' = Looked
            /\ contested' = (Rivals(Looked) \cap steady # {})
            /\ search' = NotSearching
       ELSE /\ search' = IF AtEnd THEN NextList ELSE [search EXCEPT !.item = @ + 1]
            /\ UNCHANGED <<sending, contested>>
    /\ steady' = IF search' = NotSearching THEN {} ELSE steady
    /\ UNCHANGED <<chain, deleted, backlog, ctx, served, streak>>

\* Mutant: the quota is compared before the packet is counted.
Account_Late(q) ==
    IF ctx.current # q THEN [current |-> q, sent |-> 1]
    ELSE IF ctx.sent = quota[q] THEN [current |-> NextOf(q), sent |-> 0]
    ELSE [ctx EXCEPT !.sent = @ + 1]
\* The quality of service part of DisposePacket, after a successful send.
Account(q) ==
    IF ctx.current # q THEN [current |-> q, sent |-> 1]
    ELSE IF ctx.sent + 1 = quota[q] THEN [current |-> NextOf(q), sent |-> 0]
    ELSE [ctx EXCEPT !.sent = @ + 1]

\* DisposePacket: only a packet that was sent moves the cursor and counts.
DisposePacket(success) ==
    /\ sending # NULL
    /\ sending' = NULL
    /\ IF success
       THEN /\ backlog' = [backlog EXCEPT ![sending] = @ - 1]
            /\ ctx' = Account(sending)
            /\ served' = sending
            /\ streak' = IF ~contested THEN 0
                         ELSE IF served = sending THEN streak + 1 ELSE 1
       ELSE UNCHANGED <<backlog, ctx, served, streak>>
    /\ UNCHANGED <<chain, deleted, search, steady, contested>>

QosNext ==
    \/ \E q \in Queues : Create(q) \/ RemoveQueue(q) \/ PushPacket(q) \/ Lose(q)
    \/ StartSearch \/ Look
    \/ \E success \in BOOLEAN : DisposePacket(success)

\* The streamer keeps asking for the next packet, and a client that reads its
\* socket makes room for a packet again and again.
QosSpec == QosInit /\ [][QosNext]_qosVars
QosFairSpec == /\ QosSpec
               /\ WF_qosVars(StartSearch) /\ WF_qosVars(Look)
               /\ SF_qosVars(DisposePacket(TRUE))

----------------------------------------------------------------------------
(* Whatever the order of creation, the chain holds no queue twice, the     *)
(* groups by falling priority, all of a priority in one group, and there   *)
(* by falling quota, so that "the first queue with a packet" is the one of *)
(* highest priority.                                                       *)
ChainSorted ==
    /\ QosTypeOK
    /\ \A g, h \in DOMAIN chain : \A i \in DOMAIN chain[g], j \in DOMAIN chain[h] :
          LET q == chain[g][i]
              r == chain[h][j]
          IN  /\ g < h => priority[q] > priority[r]
              /\ g = h => priority[q] = priority[r]
              /\ g = h /\ i < j => q # r /\ quota[q] >= quota[r]

(* include/BroadcastManager.h:56 calls uPacketQuota the "packets quota":   *)
(* while a queue of the same or a higher priority has a packet, a queue    *)
(* sends a client no more than its quota in a row.  A rival counts that    *)
(* had a packet from the beginning of the search to its end: one that got  *)
(* its first packet behind the search is rightly not seen.                 *)
StreakWithinQuota == served # NULL => streak <= quota[served]

(* A queue of the highest priority that has packets for the client is      *)
(* served again and again, however many the others push, as long as no     *)
(* queue is removed.                                                       *)
TopIsServed ==
    [](deleted = {}) =>
        \A o \in Queues : (\A q \in Queues : priority[q] <= priority[o])
                              => []<>(backlog[o] = 0 \/ served = o)
=============================================================================
