------------------------- MODULE PfBroadcast_proofs -------------------------
(***************************************************************************)
(* Theorems about PushFramework's broadcast queues: one queue (PfQueue),   *)
(* and the choice of the queue a client is served from next (PfQos).       *)
(*                                                                         *)
(* One queue.  For any clients, readers, tags and queue length: a packet   *)
(* that a reader holds is never deleted, the queue stays within maxPacket, *)
(* and a client that one streamer serves gets its packets in the order of  *)
(* their pushes.  The first rests on the counter being the number of       *)
(* holders, the last on the positions of the packets in the list growing   *)
(* with their age, which the reuse of a removed tail's position does not   *)
(* disturb.                                                                *)
(*                                                                         *)
(* The choice.  For any queues, priorities and quotas the chain is sorted  *)
(* whatever the order of creation.  A quota holds because the count of the *)
(* context runs along with the streak until the context moves on, and from *)
(* there a search, one queue at a time, comes back to the same queue only  *)
(* past every rival, and past no queue that had a packet all along.        *)
(***************************************************************************)
EXTENDS PfQueue, PfQos, FiniteSetTheorems, SequenceTheorems, WellFoundedInduction, TLAPS

Holders(p) == {r \in Readers : held[r].packet = p}

\* refCount is the number of readers that hold the packet.
Counted == \A p \in Packet : ref[p] = Cardinality(Holders(p))

\* A packet is in the list, in removedList or deleted, never in two of them.
Apart == /\ live \cap removed = {}
         /\ live \cap freed = {}
         /\ removed \cap freed = {}

\* With one streamer per client no two readers hold for the same client.
Alone == Exclusive => \A r, o \in Readers :
            held[r] # Nothing /\ held[o] # Nothing /\ r # o => held[r].client # held[o].client

\* An older packet of the list has no greater position than any younger one.
Sorted == \A q \in live, s \in 1 .. pushed : q <= s => pos[q] <= pos[s]

\* The cursor of a client is the position of the newest packet it was sent.
Cursors == \A c \in Clients : seen[c] # 0 => seen[c] <= pushed /\ last[c] = pos[seen[c]]

\* A held packet has been pushed.
HeldPushed == \A r \in Readers : held[r] # Nothing => held[r].packet <= pushed

IInv == /\ TypeOK /\ Counted /\ HeldIsAlive /\ Apart /\ Alone
        /\ Sorted /\ Cursors /\ HeldPushed /\ InOrder /\ QueueBounded

----------------------------------------------------------------------------
\* Every non-empty set of naturals has a first element.
LEMMA HeadIsFirst ==
  ASSUME NEW S, S \subseteq Nat, S # {}
  PROVE  HeadOf(S) \in S /\ \A q \in S : HeadOf(S) <= q
<1> DEFINE Below == {ss \in Nat \X Nat : ss[1] < ss[2]}
<1>1. IsWellFoundedOn(Below, Nat)
  BY NatLessThanWellFounded DEF OpToRel
<1> HIDE DEF Below
<1>2. PICK x \in S : \A y \in S : ~ (<<y, x>> \in Below)
  BY <1>1, WFMin
<1>3. ASSUME NEW y \in S PROVE x <= y
  <2>1. x \in Nat /\ y \in Nat
    OBVIOUS
  <2>2. y < x => <<y, x>> \in Below
    BY <2>1 DEF Below
  <2>3. QED
    BY <1>2, <2>1, <2>2
<1>4. QED
  BY <1>3 DEF HeadOf

\* A non-empty set of numbers of 1..n has a last element.
LEMMA TailIsLast ==
  ASSUME NEW n \in Nat, NEW S, S \subseteq 1 .. n, S # {}
  PROVE  TailOf(S) \in S /\ \A q \in S : q <= TailOf(S)
<1> DEFINE T == {n - p : p \in S}
<1>1. T \subseteq Nat /\ T # {}
  <2>1. \A p \in S : n - p \in Nat
    OBVIOUS
  <2>2. QED
    BY <2>1
<1>2. HeadOf(T) \in T /\ \A q \in T : HeadOf(T) <= q
  BY <1>1, HeadIsFirst
<1> HIDE DEF T
<1>3. PICK p \in S : HeadOf(T) = n - p
  BY <1>2 DEF T
<1>4. \A q \in S : q <= p
  <2>1. ASSUME NEW q \in S PROVE q <= p
    <3>1. p \in Int /\ q \in Int /\ n - q \in T
      BY DEF T
    <3>2. n - p <= n - q
      BY <1>2, <1>3, <3>1
    <3>3. QED
      BY <3>1, <3>2
  <2>2. QED
    BY <2>1
<1>5. QED
  BY <1>4 DEF TailOf

\* The packets of the list are finitely many.
LEMMA LiveFinite ==
  ASSUME TypeOK PROVE IsFiniteSet(live) /\ Cardinality(live) \in Nat
<1>1. IsFiniteSet(1 .. pushed)
  BY FS_Interval DEF TypeOK
<1>2. IsFiniteSet(live)
  BY <1>1, FS_Subset DEF TypeOK
<1>3. QED
  BY <1>2, FS_CardinalityType

\* A counter of 0 means that nobody holds the packet.
LEMMA NoHolder ==
  ASSUME TypeOK, Counted, NEW p \in Packet, ref[p] = 0
  PROVE  \A r \in Readers : held[r].packet # p
<1>1. IsFiniteSet(Holders(p))
  BY QueueAssumption, FS_Subset DEF Holders
<1>2. Holders(p) = {}
  BY <1>1, FS_EmptySet DEF Counted
<1>3. QED
  BY <1>2 DEF Holders

\* Nothing is no packet: its place 0 is before the first one.
LEMMA NothingHeld ==
  ASSUME TypeOK, NEW r \in Readers
  PROVE  /\ held[r] = Nothing <=> held[r].packet = 0
         /\ held[r] # Nothing => held[r].packet \in Packet /\ held[r].client \in Clients
  BY DEF TypeOK, Nothing, Packet

LEMMA InitIInv == Init => IInv
<1> SUFFICES ASSUME Init PROVE IInv
  OBVIOUS
<1>1. TypeOK
  BY QueueAssumption DEF Init, TypeOK, Packet
<1>2. \A p \in Packet : Holders(p) = {}
  BY DEF Init, Holders, Nothing, Packet
<1>3. Counted
  BY <1>2, FS_EmptySet DEF Init, Counted
<1>4. QueueBounded
  BY FS_EmptySet, QueueAssumption DEF Init, QueueBounded
<1>5. QED
  BY <1>1, <1>3, <1>4 DEF Init, IInv, HeldIsAlive, Apart, Alone, Sorted, Cursors, HeldPushed, InOrder

----------------------------------------------------------------------------
\* InternalRemove keeps what readers hold, and the three places apart.
LEMMA RemoveKeeps ==
  ASSUME TypeOK, Counted, HeldIsAlive, Apart,
         NEW n \in Nat, n <= NumPackets, pushed <= n,
         NEW S, S \subseteq 1 .. n, live \subseteq S,
         S \cap removed = {}, S \cap freed = {},
         NEW p \in S, InternalRemove(S, p), UNCHANGED held
  PROVE  /\ live' = S \ {p}
         /\ removed' \subseteq 1 .. n /\ freed' \subseteq 1 .. n /\ released' \subseteq freed'
         /\ Apart' /\ HeldIsAlive'
<1> USE DEF InternalRemove, TypeOK
<1>1. p \in Packet
  BY QueueAssumption DEF Packet
<1> DEFINE N == 1 .. n
<1>0. p \in N /\ removed \subseteq N /\ freed \subseteq N
  OBVIOUS
<1> HIDE DEF N
<1> SUFFICES /\ live' = S \ {p}
             /\ removed' \subseteq N /\ freed' \subseteq N /\ released' \subseteq freed'
             /\ Apart' /\ HeldIsAlive'
  BY DEF N
<1>2. CASE ref[p] = 0
  <2>1. \A r \in Readers : held[r].packet # p
    BY <1>1, <1>2, NoHolder
  <2>2. HeldIsAlive'
    BY <1>2, <2>1 DEF HeldIsAlive
  <2>3. Apart'
    BY <1>2 DEF Apart
  <2>4. QED
    BY <1>0, <1>2, <2>2, <2>3
<1>3. CASE ref[p] # 0
  <2>1. HeldIsAlive'
    BY <1>3 DEF HeldIsAlive
  <2>2. Apart'
    BY <1>3 DEF Apart
  <2>3. QED
    BY <1>0, <1>3, <2>1, <2>2
<1>4. QED
  BY <1>2, <1>3

\* A push: the new packet is nobody's, and its position is past the tail's.
LEMMA PushIInv == ASSUME IInv, NEW t \in Tag, Push(t) PROVE IInv'
<1> DEFINE p == pushed + 1
           S == live \cup {p}
<1> USE DEF IInv
<1>1. /\ pushed \in Nat /\ p \in Packet /\ p \in Nat /\ pushed' = p /\ p <= NumPackets
      /\ live \subseteq 1 .. pushed /\ p \notin live /\ 1 .. pushed \subseteq Packet
  BY QueueAssumption DEF Push, TypeOK, Packet
<1>2. S \subseteq 1 .. p /\ S \cap removed = {} /\ S \cap freed = {}
  BY <1>1 DEF TypeOK, Apart
<1>3. S # {} /\ S \subseteq Nat
  BY <1>1
<1>4. NewPosition \in Nat /\ \A q \in live : pos[q] <= NewPosition
  <2>1. CASE live = {}
    BY <2>1 DEF NewPosition
  <2>2. CASE live # {}
    <3>1. TailOf(live) \in live /\ \A q \in live : q <= TailOf(live)
      BY <1>1, <2>2, TailIsLast
    <3>2. \A q \in live : pos[q] <= pos[TailOf(live)] /\ pos[q] \in Nat
      <4>1. TailOf(live) \in 1 .. pushed /\ \A q \in live : q \in Packet
        BY <1>1, <3>1
      <4>2. \A q \in live : pos[q] \in Nat
        BY <4>1 DEF TypeOK
      <4>3. \A q \in live : pos[q] <= pos[TailOf(live)]
        BY <3>1, <4>1 DEF Sorted
      <4>4. QED
        BY <4>2, <4>3
    <3>3. QED
      BY <2>2, <3>1, <3>2 DEF NewPosition
  <2>3. QED
    BY <2>1, <2>2
<1>5. /\ live' \subseteq S
      /\ Cardinality(live') <= MaxPackets
      /\ removed' \subseteq 1 .. p /\ freed' \subseteq 1 .. p /\ released' \subseteq freed'
      /\ Apart' /\ HeldIsAlive'
  <2>1. IsFiniteSet(S) /\ Cardinality(S) \in Nat /\ Cardinality(S) = Cardinality(live) + 1
    BY <1>1, LiveFinite, FS_AddElement, FS_CardinalityType
  <2>2. CASE Overflows(S)
    <3>1. HeadOf(S) \in S
      BY <1>3, HeadIsFirst
    <3>2. InternalRemove(S, HeadOf(S)) /\ held' = held
      BY <2>2 DEF Push
    <3> HIDE DEF S, p
    <3>3. /\ live' = S \ {HeadOf(S)}
          /\ removed' \subseteq 1 .. p /\ freed' \subseteq 1 .. p /\ released' \subseteq freed'
          /\ Apart' /\ HeldIsAlive'
      <4>1. pushed <= p /\ live \subseteq S
        BY <1>1 DEF p, S
      <4>2. QED
        BY <1>1, <1>2, <3>1, <3>2, <4>1, RemoveKeeps
    <3>4. Cardinality(live') <= MaxPackets
      <4>1. Cardinality(live') = Cardinality(S) - 1
        BY <2>1, <3>1, <3>3, FS_RemoveElement
      <4>2. Cardinality(live) \in Nat /\ Cardinality(live) <= MaxPackets
        BY LiveFinite DEF QueueBounded
      <4>3. QED
        BY <2>1, <4>1, <4>2, QueueAssumption
    <3>5. QED
      BY <3>3, <3>4
  <2>3. CASE ~ Overflows(S)
    <3>1. live' = S /\ UNCHANGED <<removed, freed, released, held>>
      BY <2>3 DEF Push
    <3>2. Cardinality(live') <= MaxPackets
      BY <2>1, <2>3, <3>1, QueueAssumption DEF Overflows
    <3>3. Apart'
      BY <1>2, <3>1 DEF Apart
    <3>4. HeldIsAlive'
      BY <3>1 DEF HeldIsAlive
    <3>5. QED
      BY <1>1, <3>1, <3>2, <3>3, <3>4 DEF TypeOK
  <2>4. QED
    BY <2>2, <2>3
<1>6. TypeOK'
  BY <1>1, <1>2, <1>4, <1>5 DEF Push, TypeOK, clientVars
<1>7. Counted' /\ Alone'
  BY DEF Push, Counted, Holders, Alone
<1>8. Sorted'
  <2>1. pos' = [pos EXCEPT ![p] = NewPosition]
    BY DEF Push
  <2>2. ASSUME NEW q \in live', NEW s \in 1 .. pushed', q <= s
        PROVE  pos'[q] <= pos'[s]
    <3>1. CASE s = p
      BY <1>1, <1>4, <1>5, <2>1, <3>1 DEF TypeOK
    <3>2. CASE s # p
      BY <1>1, <1>5, <2>1, <2>2, <3>2, QueueAssumption DEF TypeOK, Sorted, Packet
    <3>3. QED
      BY <3>1, <3>2
  <2>3. QED
    BY <2>2 DEF Sorted
<1>9. Cursors' /\ HeldPushed' /\ InOrder'
  BY <1>1 DEF Push, clientVars, TypeOK, Cursors, HeldPushed, InOrder, Packet, Nothing
<1>10. QED
  BY <1>5, <1>6, <1>7, <1>8, <1>9 DEF QueueBounded

\* A removal takes one packet out of the list.
LEMMA RemoveIInv == ASSUME IInv, NEW t \in Tag, RemovePacket(t) PROVE IInv'
<1> DEFINE p == HeadOf(Matching(t))
<1> USE DEF IInv
<1>1. pushed \in Nat /\ pushed <= NumPackets /\ live \subseteq 1 .. pushed
  BY QueueAssumption DEF TypeOK
<1>2. p \in live
  <2>1. Matching(t) \subseteq Nat /\ Matching(t) # {} /\ Matching(t) \subseteq live
    <3>1. Matching(t) \subseteq live
      BY DEF Matching
    <3>2. live \subseteq Nat
      BY <1>1
    <3>3. QED
      BY <3>1, <3>2 DEF RemovePacket
  <2>2. HeadOf(Matching(t)) \in Matching(t)
    BY <2>1, HeadIsFirst
  <2>3. QED
    BY <2>1, <2>2
<1>3. InternalRemove(live, p) /\ UNCHANGED <<pushed, pos, tag, ref, last, member, seen, held>>
  BY DEF RemovePacket, clientVars
<1> HIDE DEF p
<1>4. /\ live' = live \ {p}
      /\ removed' \subseteq 1 .. pushed /\ freed' \subseteq 1 .. pushed /\ released' \subseteq freed'
      /\ Apart' /\ HeldIsAlive'
  <2>1. live \cap removed = {} /\ live \cap freed = {} /\ live \subseteq live
    BY DEF Apart
  <2>2. pushed <= pushed /\ InternalRemove(live, p) /\ held' = held
    BY <1>1, <1>3
  <2>3. TypeOK /\ Counted /\ HeldIsAlive /\ Apart
    OBVIOUS
  <2> HIDE DEF IInv
  <2>4. QED
    BY <1>1, <1>2, <2>1, <2>2, <2>3, RemoveKeeps
<1>5. TypeOK'
  BY <1>1, <1>3, <1>4 DEF TypeOK
<1>6. QueueBounded'
  <2>1. Cardinality(live') = Cardinality(live) - 1
    BY <1>2, <1>4, LiveFinite, FS_RemoveElement
  <2>2. Cardinality(live) \in Nat
    BY LiveFinite
  <2>3. QED
    BY <2>1, <2>2, QueueAssumption DEF QueueBounded
<1>7. Counted' /\ Alone' /\ Cursors' /\ HeldPushed' /\ InOrder'
  BY <1>3 DEF Counted, Holders, Alone, Cursors, HeldPushed, InOrder
<1>8. Sorted'
  BY <1>3, <1>4 DEF Sorted
<1>9. QED
  BY <1>4, <1>5, <1>6, <1>7, <1>8

\* A new subscription, or the end of one, moves one client's cursor.
LEMMA MemberIInv ==
  ASSUME IInv, NEW c \in Clients, Subscribe(c) \/ Unsubscribe(c) PROVE IInv'
<1> USE DEF IInv
<1>1. /\ UNCHANGED <<pushed, live, pos, ref, removed, freed, released, held>>
      /\ seen' = [seen EXCEPT ![c] = 0]
      /\ \E v \in {0, Absent} : last' = [last EXCEPT ![c] = v]
      /\ member' \subseteq Clients
  BY DEF Subscribe, Unsubscribe, packetVars, TypeOK
<1>2. TypeOK'
  BY <1>1, QueueAssumption DEF TypeOK
<1>3. Counted' /\ HeldIsAlive' /\ Apart' /\ Alone' /\ Sorted' /\ HeldPushed' /\ QueueBounded'
  BY <1>1 DEF Counted, Holders, HeldIsAlive, Apart, Alone, Sorted, HeldPushed, QueueBounded
<1>4. Cursors'
  BY <1>1 DEF TypeOK, Cursors
<1>5. InOrder'
  <2>1. \A r \in Readers : held[r] # Nothing => held[r].packet \in Packet /\ held[r].client \in Clients
    BY NothingHeld
  <2>2. QED
    BY <1>1, <2>1, QueueAssumption DEF TypeOK, InOrder, Packet
<1>6. QED
  BY <1>2, <1>3, <1>4, <1>5

\* Taking a packet adds a holder to it and touches nobody else's.
LEMMA TakeIInv ==
  ASSUME IInv, NEW r \in Readers, NEW c \in Clients, Take(r, c) PROVE IInv'
<1> DEFINE p == HeadOf(Unseen(c))
<1> USE DEF IInv
<1>1. pushed \in Nat /\ live \subseteq 1 .. pushed /\ 1 .. pushed \subseteq Packet /\ Packet \subseteq Nat
  BY QueueAssumption DEF TypeOK, Packet
<1>2. p \in live /\ pos[p] > Cursor(c)
  <2>1. Unseen(c) \subseteq live /\ Unseen(c) # {}
    BY DEF Unseen, Take
  <2>2. p \in Unseen(c)
    BY <1>1, <2>1, HeadIsFirst
  <2>3. QED
    BY <2>2 DEF Unseen
<1>3. /\ held[r] = Nothing
      /\ held' = [held EXCEPT ![r] = [client |-> c, packet |-> p]]
      /\ ref' = [ref EXCEPT ![p] = @ + 1]
      /\ UNCHANGED <<pushed, live, pos, tag, removed, freed, released, last, member, seen>>
      /\ Exclusive => \A o \in Readers : held[o].client # c
  BY DEF Take, clientVars
<1> HIDE DEF p
<1>4. p \in Packet /\ p \in Nat /\ p <= pushed /\ p >= 1
  BY <1>1, <1>2
<1>5. TypeOK'
  BY <1>3, <1>4 DEF TypeOK
<1>6. Counted'
  <2>1. ASSUME NEW q \in Packet PROVE ref'[q] = Cardinality(Holders(q)')
    <3>1. IsFiniteSet(Holders(q)) /\ Cardinality(Holders(q)) \in Nat
      BY QueueAssumption, FS_Subset, FS_CardinalityType DEF Holders
    <3>2. CASE q = p
      <4>1. r \notin Holders(q)
        BY <1>3, <1>4, <3>2 DEF Holders, Nothing
      <4>2. Holders(q)' = Holders(q) \cup {r}
        BY <1>3, <3>2 DEF Holders, TypeOK
      <4>3. Cardinality(Holders(q)') = Cardinality(Holders(q)) + 1
        BY <3>1, <4>1, <4>2, FS_AddElement
      <4>4. QED
        BY <1>3, <3>2, <4>3 DEF Counted, TypeOK
    <3>3. CASE q # p
      <4>1. q # 0
        BY DEF Packet
      <4>2. Holders(q)' = Holders(q)
        BY <1>3, <3>3, <4>1 DEF Holders, TypeOK, Nothing
      <4>3. QED
        BY <1>3, <3>3, <4>2 DEF Counted, TypeOK
    <3>4. QED
      BY <3>2, <3>3
  <2>2. QED
    BY <2>1 DEF Counted
<1>7. HeldIsAlive' /\ Apart'
  BY <1>2, <1>3 DEF HeldIsAlive, Apart, TypeOK
<1>8. Alone' /\ HeldPushed'
  BY <1>3, <1>4 DEF Alone, HeldPushed, TypeOK, Nothing
<1>9. Sorted' /\ Cursors' /\ QueueBounded'
  BY <1>3 DEF Sorted, Cursors, QueueBounded
<1>10. InOrder'
  <2>1. seen[c] < p
    <3>1. seen[c] \in Nat /\ seen[c] <= NumPackets
      BY QueueAssumption DEF TypeOK
    <3>2. CASE seen[c] = 0
      BY <1>4, <3>2
    <3>3. CASE seen[c] # 0
      <4>1. seen[c] \in 1 .. pushed /\ last[c] = pos[seen[c]]
        BY <1>1, <3>1, <3>3 DEF Cursors
      <4>2. pos[seen[c]] \in Nat /\ pos[p] \in Nat
        BY <1>1, <1>4, <4>1 DEF TypeOK
      <4>3. pos[p] > pos[seen[c]]
        BY <1>2, <4>1, <4>2 DEF Cursor, Absent
      <4>4. QED
        BY <1>2, <1>4, <3>1, <4>1, <4>2, <4>3 DEF Sorted
    <3>4. QED
      BY <3>2, <3>3
  <2>2. QED
    BY <1>3, <2>1 DEF InOrder, TypeOK
<1>11. QED
  BY <1>5, <1>6, <1>7, <1>8, <1>9, <1>10

\* Giving a packet back: whoever else holds it keeps the counter above 0.
LEMMA DisposeIInv ==
  ASSUME IInv, NEW r \in Readers, NEW success \in BOOLEAN, Dispose(r, success) PROVE IInv'
<1> DEFINE p == held[r].packet
           c == held[r].client
<1> USE DEF IInv
<1>1. held[r] # Nothing /\ p \in Packet /\ c \in Clients /\ p <= pushed /\ p # 0
      /\ pushed \in Nat /\ p \in Nat
  <2>1. held[r] # Nothing
    BY DEF Dispose
  <2>2. p \in Packet /\ c \in Clients
    BY <2>1, NothingHeld
  <2>3. p <= pushed
    BY <2>1 DEF HeldPushed
  <2>4. pushed \in Nat /\ p \in Nat /\ p # 0
    BY <2>2 DEF TypeOK, Packet
  <2>5. QED
    BY <2>1, <2>2, <2>3, <2>4
<1>2. /\ held' = [held EXCEPT ![r] = Nothing]
      /\ ref' = [ref EXCEPT ![p] = @ - 1]
      /\ \/ last' = [last EXCEPT ![c] = pos[p]] /\ seen' = [seen EXCEPT ![c] = p]
         \/ UNCHANGED <<last, seen>>
      /\ UNCHANGED <<pushed, live, pos, tag, released, member>>
  BY DEF Dispose
<1>3. \/ LastUse(p) /\ removed' = removed \ {p} /\ freed' = freed \cup {p}
      \/ UNCHANGED <<removed, freed>>
  BY DEF Dispose
<1> HIDE DEF p, c
<1>4. \A q \in Packet : IsFiniteSet(Holders(q)) /\ Cardinality(Holders(q)) \in Nat
  BY QueueAssumption, FS_Subset, FS_CardinalityType DEF Holders
<1>5. r \in Holders(p) /\ Cardinality(Holders(p) \ {r}) = Cardinality(Holders(p)) - 1
      /\ IsFiniteSet(Holders(p) \ {r}) /\ Cardinality(Holders(p) \ {r}) \in Nat
  <2>1. r \in Holders(p)
    BY DEF p, Holders
  <2>2. QED
    BY <1>1, <1>4, <2>1, FS_RemoveElement, FS_CardinalityType
<1>6. ref[p] = Cardinality(Holders(p))
  BY <1>1 DEF Counted
<1>7. TypeOK'
  <2>1. ref[p] - 1 \in Nat
    BY <1>5, <1>6
  <2>2. pos[p] \in Nat
    BY <1>1 DEF TypeOK
  <2>3. /\ ref' \in [Packet -> Nat] /\ last' \in [Clients -> Nat \cup {Absent}]
        /\ held' \in [Readers -> {Nothing} \cup [client : Clients, packet : Packet]]
    BY <1>1, <1>2, <2>1, <2>2 DEF TypeOK
  <2>4. seen' \in [Clients -> 0 .. NumPackets]
    <3>1. p \in 0 .. NumPackets
      BY <1>1, QueueAssumption DEF Packet
    <3>2. QED
      BY <1>2, <3>1 DEF TypeOK
  <2>5. removed' \subseteq 1 .. pushed /\ freed' \subseteq 1 .. pushed /\ released' \subseteq freed'
    <3>1. p \in 1 .. pushed
      BY <1>1
    <3>2. QED
      BY <1>2, <1>3, <3>1 DEF TypeOK
  <2>6. QED
    BY <1>2, <2>3, <2>4, <2>5 DEF TypeOK
<1>8. Counted'
  <2>1. ASSUME NEW q \in Packet PROVE ref'[q] = Cardinality(Holders(q)')
    <3>1. q # 0
      BY DEF Packet
    <3>2. CASE q = p
      <4>1. Holders(q)' = Holders(q) \ {r}
        BY <1>2, <3>1 DEF Holders, TypeOK, Nothing
      <4>2. QED
        BY <1>2, <1>5, <1>6, <3>2, <4>1 DEF TypeOK
    <3>3. CASE q # p
      <4>1. held[r].packet # q
        BY <3>3 DEF p
      <4>2. Holders(q)' = Holders(q)
        BY <1>2, <3>1, <4>1 DEF Holders, TypeOK, Nothing
      <4>3. QED
        BY <1>2, <3>3, <4>2 DEF Counted, TypeOK
    <3>4. QED
      BY <3>2, <3>3
  <2>2. QED
    BY <2>1 DEF Counted
<1>9. HeldIsAlive'
  <2>1. CASE UNCHANGED <<removed, freed>>
    BY <1>2, <2>1 DEF HeldIsAlive, TypeOK
  <2>2. CASE LastUse(p) /\ removed' = removed \ {p} /\ freed' = freed \cup {p}
    <3>1. Cardinality(Holders(p) \ {r}) = 0
      BY <1>5, <1>6, <2>2 DEF LastUse
    <3>2. Holders(p) \ {r} = {}
      BY <1>5, <3>1, FS_EmptySet
    <3>3. \A o \in Readers \ {r} : held[o].packet # p
      BY <3>2 DEF Holders
    <3>4. QED
      BY <1>2, <2>2, <3>3 DEF HeldIsAlive, TypeOK
  <2>3. QED
    BY <1>3, <2>1, <2>2
<1>10. Apart'
  BY <1>2, <1>3 DEF Apart, LastUse
<1>11. Alone' /\ HeldPushed'
  BY <1>2 DEF Alone, HeldPushed, TypeOK, Nothing
<1>12. Sorted' /\ QueueBounded'
  BY <1>2 DEF Sorted, QueueBounded
<1>13. Cursors'
  BY <1>1, <1>2 DEF Cursors, TypeOK
<1>14. InOrder'
  <2>1. CASE UNCHANGED <<last, seen>>
    BY <1>2, <2>1 DEF InOrder, TypeOK
  <2>2. CASE seen' = [seen EXCEPT ![c] = p]
    <3>1. Exclusive => \A o \in Readers \ {r} : held[o] # Nothing => held[o].client # c
      BY <1>1 DEF Alone, c
    <3>2. QED
      BY <1>2, <2>2, <3>1 DEF InOrder, TypeOK
  <2>3. QED
    BY <1>2, <2>1, <2>2
<1>15. QED
  BY <1>7, <1>8, <1>9, <1>10, <1>11, <1>12, <1>13, <1>14

LEMMA StutterIInv == ASSUME IInv, UNCHANGED vars PROVE IInv'
  BY DEF IInv, vars, packetVars, clientVars, TypeOK, Counted, Holders, HeldIsAlive, Apart,
         Alone, Sorted, Cursors, HeldPushed, InOrder, QueueBounded

LEMMA Invariance == Spec => []IInv
<1>1. IInv /\ [Next]_vars => IInv'
  BY PushIInv, RemoveIInv, MemberIInv, TakeIInv, DisposeIInv, StutterIInv DEF Next
<1>2. QED
  BY InitIInv, <1>1, PTL DEF Spec

\* A packet is listed, parked or deleted as its type says, whatever the order
\* of the calls of the queue's methods.
THEOREM TypeCorrect == Spec => []TypeOK
  BY Invariance, PTL DEF IInv

\* InternalRemove and disposePacket never delete a packet that is in use,
\* for any number of readers.
THEOREM NoUseAfterFree == Spec => []HeldIsAlive
  BY Invariance, PTL DEF IInv

\* pushPacket keeps the queue within maxPacket.
THEOREM Bounded == Spec => []QueueBounded
  BY Invariance, PTL DEF IInv

\* getNextPacket never goes back for a client that one streamer serves.
THEOREM NeverGoesBack == Spec => []InOrder
  BY Invariance, PTL DEF IInv

----------------------------------------------------------------------------
(* The chain of the queues: the lemmas about lists.                        *)

LEMMA LeastOf ==
  ASSUME NEW S, S \subseteq Nat, S # {}
  PROVE  Min(S) \in S /\ \A y \in S : Min(S) <= y
<1> DEFINE Below == {ss \in Nat \X Nat : ss[1] < ss[2]}
<1>1. IsWellFoundedOn(Below, Nat)
  BY NatLessThanWellFounded DEF OpToRel
<1> HIDE DEF Below
<1>2. PICK x \in S : \A y \in S : ~ (<<y, x>> \in Below)
  BY <1>1, WFMin
<1>3. ASSUME NEW y \in S PROVE x <= y
  <2>1. x \in Nat /\ y \in Nat
    OBVIOUS
  <2>2. y < x => <<y, x>> \in Below
    BY <2>1 DEF Below
  <2> QED
    BY <1>2, <2>1, <2>2
<1> QED
  BY <1>3 DEF Min

(* The first index of a list that passes a test, given as the set of those *)
(* that do; Len + 1 if there is none.                                      *)
LEMMA FirstOf ==
  ASSUME NEW n \in Nat, NEW T, T \subseteq 1 .. n
  PROVE  LET first == Min(T \cup {n + 1})
         IN  /\ first \in 1 .. n + 1
             /\ first <= n => first \in T
             /\ \A i \in T : first <= i
<1> DEFINE first == Min(T \cup {n + 1})
<1>0. T \cup {n + 1} \subseteq Nat /\ T \cup {n + 1} # {}
  OBVIOUS
<1>1. first \in T \cup {n + 1} /\ \A i \in T \cup {n + 1} : first <= i
  BY <1>0, LeastOf
<1> HIDE DEF first
<1>2. first \in 1 .. n + 1 /\ (first <= n => first \in T) /\ \A i \in T : first <= i
  BY <1>1
<1> QED BY <1>2 DEF first

\* Inserting shifts what comes after the place by one.
LEMMA InsertShifts ==
  ASSUME NEW S, NEW s \in Seq(S), NEW e \in S, NEW k \in 1 .. Len(s) + 1
  PROVE  /\ InsertAt(s, k, e) \in Seq(S)
         /\ Len(InsertAt(s, k, e)) = Len(s) + 1
         /\ \A i \in 1 .. Len(s) + 1 :
               InsertAt(s, k, e)[i] = IF i < k THEN s[i] ELSE IF i = k THEN e ELSE s[i - 1]
<1> DEFINE a == SubSeq(s, 1, k - 1)
           b == SubSeq(s, k, Len(s))
<1>1. a \in Seq(S) /\ Len(a) = k - 1 /\ \A i \in 1 .. k - 1 : a[i] = s[i]
  BY SubSeqProperties
<1>2. b \in Seq(S) /\ Len(b) = Len(s) + 1 - k /\ \A i \in 1 .. Len(s) + 1 - k : b[i] = s[k + i - 1]
  BY SubSeqProperties
<1> HIDE DEF a, b
<1>3. <<e>> \in Seq(S) /\ Len(<<e>>) = 1 /\ <<e>>[1] = e
  OBVIOUS
<1> DEFINE c == a \o <<e>>
<1>4. /\ c \in Seq(S) /\ Len(c) = k
      /\ \A i \in 1 .. k : c[i] = IF i < k THEN s[i] ELSE e
  BY <1>1, <1>3, ConcatProperties
<1> HIDE DEF c
<1>5. /\ c \o b \in Seq(S) /\ Len(c \o b) = Len(s) + 1
      /\ \A i \in 1 .. Len(s) + 1 : (c \o b)[i] = IF i <= k THEN c[i] ELSE b[i - k]
  BY <1>2, <1>4, ConcatProperties
<1>6. \A i \in 1 .. Len(s) + 1 : i > k => b[i - k] = s[i - 1]
  BY <1>2
<1>7. InsertAt(s, k, e) = c \o b
  BY DEF InsertAt, a, b, c
<1> QED BY <1>4, <1>5, <1>6, <1>7

----------------------------------------------------------------------------
\* The order of a list, of the groups, and of a chain.
Falling(items) ==
    \A i, j \in DOMAIN items :
        i < j => items[i] # items[j] /\ quota[items[i]] >= quota[items[j]]
OfPriority(items, p) == \A i \in DOMAIN items : priority[items[i]] = p
SortedChain(c) ==
    /\ c \in Seq(Seq(Queues)) /\ \A g \in DOMAIN c : c[g] # <<>>
    /\ \A g \in DOMAIN c : Falling(c[g]) /\ OfPriority(c[g], priority[c[g][1]])
    /\ \A g, h \in DOMAIN c : g < h => priority[c[g][1]] > priority[c[h][1]]

\* A queue goes before the first one with no more quota.
LEMMA InsertFalling ==
  ASSUME NEW items \in Seq(Queues), Falling(items), NEW q \in Queues,
         \A i \in DOMAIN items : items[i] # q
  PROVE  /\ InsertInGroup(items, q) \in Seq(Queues) /\ InsertInGroup(items, q) # <<>>
         /\ Falling(InsertInGroup(items, q))
         /\ \A i \in DOMAIN InsertInGroup(items, q) :
               \/ InsertInGroup(items, q)[i] = q
               \/ \E j \in DOMAIN items : InsertInGroup(items, q)[i] = items[j]
<1> DEFINE T == {i \in DOMAIN items : quota[q] >= quota[items[i]]}
           k == Min(T \cup {Len(items) + 1})
           t == InsertAt(items, k, q)
<1>1. Len(items) \in Nat /\ DOMAIN items = 1 .. Len(items) /\ \A i \in 1 .. Len(items) : items[i] \in Queues
  OBVIOUS
<1>2. T \subseteq 1 .. Len(items)
  BY <1>1
<1>3. k \in 1 .. Len(items) + 1 /\ (k <= Len(items) => k \in T) /\ \A i \in T : k <= i
  BY <1>1, <1>2, FirstOf
<1>4. InsertInGroup(items, q) = t
  BY DEF InsertInGroup, FirstIndex
<1> HIDE DEF k
<1>5. /\ t \in Seq(Queues) /\ Len(t) = Len(items) + 1
      /\ \A i \in 1 .. Len(items) + 1 :
            t[i] = IF i < k THEN items[i] ELSE IF i = k THEN q ELSE items[i - 1]
  <2>1. k \in 1 .. Len(items) + 1
    BY <1>3
  <2>2. items \in Seq(Queues) /\ q \in Queues
    OBVIOUS
  <2> HIDE DEF T, t
  <2>3. /\ InsertAt(items, k, q) \in Seq(Queues) /\ Len(InsertAt(items, k, q)) = Len(items) + 1
        /\ \A i \in 1 .. Len(items) + 1 :
              InsertAt(items, k, q)[i] = IF i < k THEN items[i] ELSE IF i = k THEN q ELSE items[i - 1]
    BY <2>1, <2>2, InsertShifts
  <2> QED BY <2>3 DEF t
<1> HIDE DEF t
<1>6. DOMAIN t = 1 .. Len(items) + 1
  BY <1>5
<1>7. \A i \in 1 .. Len(items) : quota[items[i]] \in Nat
  BY <1>1, QosAssumption DEF QosAssumption
<1>8. quota[q] \in Nat
  BY QosAssumption DEF QosAssumption
<1>9. \A i \in 1 .. Len(items) : i < k => quota[items[i]] >= quota[q]
  BY <1>1, <1>3, <1>7, <1>8
<1>10. \A i \in 1 .. Len(items) : i >= k => quota[q] >= quota[items[i]]
  <2> SUFFICES ASSUME NEW i \in 1 .. Len(items), i >= k PROVE quota[q] >= quota[items[i]]
    OBVIOUS
  <2>1. k \in T /\ k \in 1 .. Len(items)
    BY <1>1, <1>3
  <2>2. quota[items[k]] >= quota[items[i]]
    BY <1>1, <1>7, <2>1 DEF Falling
  <2> QED BY <1>7, <1>8, <2>1, <2>2
<1>11. Falling(t)
  <2> SUFFICES ASSUME NEW i \in 1 .. Len(items) + 1, NEW j \in 1 .. Len(items) + 1, i < j
               PROVE  t[i] # t[j] /\ quota[t[i]] >= quota[t[j]]
    BY <1>6 DEF Falling
  <2>1. CASE j < k
    BY <1>1, <1>3, <1>5, <2>1 DEF Falling
  <2>2. CASE j = k
    BY <1>1, <1>3, <1>5, <1>9, <2>2
  <2>3. CASE i = k
    BY <1>1, <1>3, <1>5, <1>10, <2>3
  <2>4. CASE i < k /\ j > k
    <3>1. i \in 1 .. Len(items) /\ j - 1 \in 1 .. Len(items) /\ i < j - 1
      BY <1>1, <1>3, <2>4
    <3>2. t[i] = items[i] /\ t[j] = items[j - 1]
      BY <1>5, <1>3, <2>4
    <3> QED BY <1>1, <3>1, <3>2 DEF Falling
  <2>5. CASE i > k
    <3>1. i - 1 \in 1 .. Len(items) /\ j - 1 \in 1 .. Len(items) /\ i - 1 < j - 1
      BY <1>1, <1>3, <2>5
    <3>2. t[i] = items[i - 1] /\ t[j] = items[j - 1]
      BY <1>5, <1>3, <2>5
    <3> QED BY <1>1, <3>1, <3>2 DEF Falling
  <2> QED BY <1>3, <2>1, <2>2, <2>3, <2>4, <2>5
<1>12. ASSUME NEW i \in DOMAIN t PROVE t[i] = q \/ \E j \in DOMAIN items : t[i] = items[j]
  <2>1. i \in 1 .. Len(items) + 1
    BY <1>6
  <2>2. CASE i < k
    BY <1>1, <1>3, <1>5, <2>1, <2>2
  <2>3. CASE i > k
    <3>1. i - 1 \in 1 .. Len(items) /\ t[i] = items[i - 1]
      BY <1>3, <1>5, <2>1, <2>3
    <3> QED BY <1>1, <3>1
  <2> QED BY <1>3, <1>5, <2>1, <2>2, <2>3
<1> QED BY <1>4, <1>5, <1>11, <1>12

\* A queue that is not in a sorted chain is inserted where it belongs.
LEMMA InsertSorted ==
  ASSUME SortedChain(chain), NEW q \in Queues, q \notin Chained
  PROVE  SortedChain(InsertInChain(q))
<1> DEFINE T == {i \in DOMAIN chain : priority[q] >= priority[chain[i][1]]}
           g == Min(T \cup {Len(chain) + 1})
           P(h) == priority[chain[h][1]]
<1>1. /\ chain \in Seq(Seq(Queues)) /\ Len(chain) \in Nat /\ DOMAIN chain = 1 .. Len(chain)
      /\ \A h \in 1 .. Len(chain) : chain[h] \in Seq(Queues) /\ chain[h] # <<>>
  BY DEF SortedChain
<1>2. \A h \in 1 .. Len(chain) : Len(chain[h]) \in Nat /\ 1 \in DOMAIN chain[h] /\ DOMAIN chain[h] = 1 .. Len(chain[h])
  BY <1>1, EmptySeq
<1>3. priority[q] \in Nat /\ \A h \in 1 .. Len(chain) : P(h) \in Nat
  BY <1>1, <1>2, QosAssumption DEF QosAssumption
<1>4. \A h \in 1 .. Len(chain) : Falling(chain[h]) /\ OfPriority(chain[h], P(h))
  BY <1>1 DEF SortedChain
<1>5. \A h, j \in 1 .. Len(chain) : h < j => P(h) > P(j)
  BY <1>1 DEF SortedChain
<1>6. g \in 1 .. Len(chain) + 1 /\ (g <= Len(chain) => g \in T) /\ \A i \in T : g <= i
  <2>1. T \subseteq 1 .. Len(chain)
    BY <1>1
  <2> QED BY <1>1, <2>1, FirstOf
<1>7. InsertInChain(q) = IF g <= Len(chain) /\ priority[q] = priority[chain[g][1]]
                         THEN [chain EXCEPT ![g] = InsertInGroup(chain[g], q)]
                         ELSE InsertAt(chain, g, <<q>>)
  BY Zenon DEF InsertInChain, FirstIndex
<1> HIDE DEF g
<1>8. \A h \in 1 .. Len(chain) : h < g => P(h) > priority[q]
  <2> SUFFICES ASSUME NEW h \in 1 .. Len(chain), h < g PROVE P(h) > priority[q]
    OBVIOUS
  <2>1. h \notin T
    BY <1>1, <1>6
  <2>2. ~ (priority[q] >= P(h))
    BY <1>1, <2>1
  <2> HIDE DEF P
  <2> QED BY <1>3, <2>2
<1>9. \A h \in 1 .. Len(chain) : \A i \in DOMAIN chain[h] : chain[h][i] # q
  <2>1. \A h \in DOMAIN chain : q \notin Range(chain[h])
    BY DEF Chained
  <2> QED BY <1>1, <2>1 DEF Range
<1>10. CASE g <= Len(chain) /\ priority[q] = priority[chain[g][1]]
  <2> DEFINE items == InsertInGroup(chain[g], q)
             c == [chain EXCEPT ![g] = items]
  <2>1. g \in 1 .. Len(chain) /\ chain[g] \in Seq(Queues) /\ Falling(chain[g])
    BY <1>1, <1>4, <1>6, <1>10
  <2>2. /\ items \in Seq(Queues) /\ items # <<>> /\ Falling(items)
        /\ \A i \in DOMAIN items : items[i] = q \/ \E j \in DOMAIN chain[g] : items[i] = chain[g][j]
    BY <1>9, <2>1, InsertFalling
  <2> HIDE DEF items
  <2>3. OfPriority(items, P(g))
    BY <1>4, <1>10, <2>1, <2>2 DEF OfPriority
  <2>4. 1 \in DOMAIN items
    BY <2>2, EmptySeq
  <2>5. priority[items[1]] = P(g)
    BY <2>3, <2>4 DEF OfPriority
  <2>6. c \in Seq(Seq(Queues)) /\ DOMAIN c = 1 .. Len(chain) /\ c[g] = items
        /\ \A h \in 1 .. Len(chain) : h # g => c[h] = chain[h]
    BY <1>1, <2>1, <2>2
  <2> HIDE DEF c
  <2>7. \A h \in 1 .. Len(chain) : priority[c[h][1]] = P(h)
    BY <2>5, <2>6
  <2>8. \A h \in 1 .. Len(chain) : c[h] # <<>> /\ Falling(c[h]) /\ OfPriority(c[h], P(h))
    BY <1>1, <1>4, <2>2, <2>3, <2>6
  <2>9. SortedChain(c)
    BY <1>5, <2>6, <2>7, <2>8 DEF SortedChain
  <2> QED BY <1>7, <1>10, <2>9 DEF c, items
<1>11. CASE ~ (g <= Len(chain) /\ priority[q] = priority[chain[g][1]])
  <2> DEFINE c == InsertAt(chain, g, <<q>>)
  <2>1. <<q>> \in Seq(Queues) /\ <<q>> # <<>> /\ Falling(<<q>>) /\ OfPriority(<<q>>, priority[q])
    BY DEF Falling, OfPriority
  <2>2. /\ c \in Seq(Seq(Queues)) /\ Len(c) = Len(chain) + 1
        /\ \A h \in 1 .. Len(chain) + 1 :
              c[h] = IF h < g THEN chain[h] ELSE IF h = g THEN <<q>> ELSE chain[h - 1]
    <3>1. g \in 1 .. Len(chain) + 1
      BY <1>6
    <3>2. chain \in Seq(Seq(Queues)) /\ <<q>> \in Seq(Queues)
      BY <1>1, <2>1
    <3> DEFINE lists == Seq(Queues)
               new == <<q>>
    <3>3. chain \in Seq(lists) /\ new \in lists
      BY <3>2
    <3> HIDE DEF lists, new, T
    <3>4. /\ InsertAt(chain, g, new) \in Seq(lists) /\ Len(InsertAt(chain, g, new)) = Len(chain) + 1
          /\ \A h \in 1 .. Len(chain) + 1 :
              InsertAt(chain, g, new)[h] = IF h < g THEN chain[h] ELSE IF h = g THEN new ELSE chain[h - 1]
      BY <3>1, <3>3, InsertShifts
    <3> QED BY <3>4 DEF lists, new
  <2> HIDE DEF c
  <2>3. DOMAIN c = 1 .. Len(chain) + 1
    BY <2>2
  <2>4. \A h \in 1 .. Len(chain) : h >= g => priority[q] > P(h)
    <3> SUFFICES ASSUME NEW h \in 1 .. Len(chain), h >= g PROVE priority[q] > P(h)
      OBVIOUS
    <3>1. g \in 1 .. Len(chain) /\ priority[q] >= P(g)
      BY <1>1, <1>6
    <3>2. priority[q] > P(g)
      BY <1>3, <1>11, <3>1
    <3>3. h = g \/ P(g) > P(h)
      BY <1>5, <1>6, <3>1
    <3> QED BY <1>3, <3>1, <3>2, <3>3
  <2> DEFINE Q(h) == IF h < g THEN P(h) ELSE IF h = g THEN priority[q] ELSE P(h - 1)
  <2>5. ASSUME NEW h \in 1 .. Len(chain) + 1
        PROVE  c[h] # <<>> /\ Falling(c[h]) /\ OfPriority(c[h], Q(h)) /\ priority[c[h][1]] = Q(h)
    <3>1. CASE h < g
      <4>1. h \in 1 .. Len(chain) /\ c[h] = chain[h] /\ Q(h) = P(h)
        BY <1>6, <2>2, <3>1
      <4> QED BY <1>1, <1>4, <4>1
    <3>2. CASE h = g
      BY <2>1, <2>2, <3>2
    <3>3. CASE h > g
      <4>1. h - 1 \in 1 .. Len(chain) /\ c[h] = chain[h - 1] /\ Q(h) = P(h - 1)
        BY <1>6, <2>2, <3>3
      <4> QED BY <1>1, <1>4, <4>1
    <3> QED BY <1>6, <3>1, <3>2, <3>3
  <2>6. ASSUME NEW h \in 1 .. Len(chain) + 1, NEW j \in 1 .. Len(chain) + 1, h < j
        PROVE  Q(h) > Q(j)
    <3> HIDE DEF P
    <3>1. CASE j < g
      <4>1. h \in 1 .. Len(chain) /\ j \in 1 .. Len(chain) /\ Q(h) = P(h) /\ Q(j) = P(j)
        BY <1>6, <2>6, <3>1
      <4> QED BY <1>5, <2>6, <4>1
    <3>2. CASE j = g
      <4>1. h \in 1 .. Len(chain) /\ h < g /\ Q(h) = P(h) /\ Q(j) = priority[q]
        BY <1>6, <2>6, <3>2
      <4> QED BY <1>8, <4>1
    <3>3. CASE h = g
      <4>1. j - 1 \in 1 .. Len(chain) /\ j - 1 >= g /\ Q(h) = priority[q] /\ Q(j) = P(j - 1)
        BY <1>6, <2>6, <3>3
      <4> QED BY <2>4, <4>1
    <3>4. CASE h < g /\ j > g
      <4>1. h \in 1 .. Len(chain) /\ j - 1 \in 1 .. Len(chain) /\ h < j - 1
            /\ Q(h) = P(h) /\ Q(j) = P(j - 1)
        BY <1>6, <3>4
      <4> QED BY <1>5, <4>1
    <3>5. CASE h > g
      <4>1. h - 1 \in 1 .. Len(chain) /\ j - 1 \in 1 .. Len(chain) /\ h - 1 < j - 1
            /\ Q(h) = P(h - 1) /\ Q(j) = P(j - 1)
        BY <1>6, <2>6, <3>5
      <4> QED BY <1>5, <4>1
    <3> QED BY <1>6, <2>6, <3>1, <3>2, <3>3, <3>4, <3>5
  <2> HIDE DEF Q
  <2>7. SortedChain(c)
    BY <2>2, <2>3, <2>5, <2>6 DEF SortedChain
  <2> QED BY <1>7, <1>11, <2>7 DEF c
<1> QED BY <1>10, <1>11

----------------------------------------------------------------------------
\* While packets are sent every queue is in the chain.
Running == Chained = Queues \/ (ctx.current = NULL /\ sending = NULL /\ served = NULL)
SendsWaiting == sending # NULL => backlog[sending] > 0
\* A search is at a list of the whole chain, and nothing is being sent.
InPlace == Searching => /\ Chained = Queues /\ sending = NULL
                        /\ search.list \in 1 .. Len(chain) + 1 /\ search.item >= 1
ChainInv == QosTypeOK /\ SortedChain(chain) /\ Running /\ SendsWaiting /\ InPlace

\* A queue of the chain has one place in it.
LEMMA OnePlace ==
  ASSUME SortedChain(chain), NEW g \in DOMAIN chain, NEW i \in DOMAIN chain[g]
  PROVE  /\ GroupOf(chain[g][i]) = g /\ PlaceOf(chain[g][i]) = i
<1> DEFINE q == chain[g][i]
<1>1. /\ DOMAIN chain = 1 .. Len(chain) /\ Len(chain) \in Nat
      /\ \A h \in DOMAIN chain : /\ chain[h] \in Seq(Queues) /\ DOMAIN chain[h] = 1 .. Len(chain[h])
                                 /\ Len(chain[h]) \in Nat /\ chain[h] # <<>>
  BY DEF SortedChain
<1>2. q \in Queues /\ priority[q] = priority[chain[g][1]]
  BY <1>1 DEF SortedChain, OfPriority
<1>3. ASSUME NEW h \in DOMAIN chain, q \in Range(chain[h]) PROVE h = g
  <2>1. PICK j \in DOMAIN chain[h] : chain[h][j] = q
    BY <1>3 DEF Range
  <2>2. priority[q] = priority[chain[h][1]]
    BY <1>1, <2>1 DEF SortedChain, OfPriority
  <2>3. priority[q] \in Nat
    BY <1>2, QosAssumption DEF QosAssumption
  <2>4. /\ h < g => priority[chain[h][1]] > priority[chain[g][1]]
        /\ g < h => priority[chain[g][1]] > priority[chain[h][1]]
    BY DEF SortedChain
  <2>5. ~ (h < g) /\ ~ (g < h)
    BY <1>2, <2>2, <2>3, <2>4
  <2> QED BY <1>1, <2>5
<1>4. q \in Range(chain[g])
  BY DEF Range
<1>5. GroupOf(q) = g
  BY <1>3, <1>4 DEF GroupOf
<1>6. ASSUME NEW j \in DOMAIN chain[g], chain[g][j] = q PROVE j = i
  <2>1. Falling(chain[g])
    BY DEF SortedChain
  <2>2. ~ (j < i) /\ ~ (i < j)
    BY <1>6, <2>1 DEF Falling
  <2> QED BY <1>1, <2>2
<1>7. PlaceOf(q) = i
  BY <1>5, <1>6 DEF PlaceOf
<1> QED BY <1>5, <1>7

\* A queue of the chain is where GroupOf and PlaceOf say.
LEMMA Placed ==
  ASSUME SortedChain(chain), NEW q \in Chained
  PROVE  /\ GroupOf(q) \in DOMAIN chain /\ PlaceOf(q) \in DOMAIN chain[GroupOf(q)]
         /\ chain[GroupOf(q)][PlaceOf(q)] = q
<1>1. PICK g \in DOMAIN chain : q \in Range(chain[g])
  BY DEF Chained
<1>2. PICK i \in DOMAIN chain[g] : chain[g][i] = q
  BY <1>1 DEF Range
<1> QED BY <1>2, OnePlace

\* The rest of a queue's list.
LEMMA RestOfList ==
  ASSUME SortedChain(chain), NEW q \in Chained, q # NULL,
         NEW g, g = GroupOf(q), NEW p, p = PlaceOf(q), NEW items, items = chain[g]
  PROVE  /\ From(q) \in Seq(Queues) /\ Len(From(q)) = Len(items) - p + 1
         /\ \A k \in 1 .. Len(items) - p + 1 : From(q)[k] = items[p + k - 1]
         /\ NextOf(q) = IF p < Len(items) THEN items[p + 1] ELSE NULL
         /\ p \in 1 .. Len(items) /\ items \in Seq(Queues) /\ items[p] = q /\ g \in DOMAIN chain
<1>1. g \in DOMAIN chain /\ p \in DOMAIN items /\ items[p] = q
  BY Placed
<1>2. items \in Seq(Queues) /\ Len(items) \in Nat /\ DOMAIN items = 1 .. Len(items)
  BY <1>1 DEF SortedChain
<1>3. From(q) = SubSeq(items, p, Len(items))
  BY DEF From
<1>4. /\ From(q) \in Seq(Queues) /\ Len(From(q)) = Len(items) - p + 1
      /\ \A k \in 1 .. Len(items) - p + 1 : From(q)[k] = items[p + k - 1]
  BY <1>1, <1>2, <1>3, SubSeqProperties
<1>5. NextOf(q) = IF p < Len(items) THEN items[p + 1] ELSE NULL
  BY <1>1, <1>2, <1>4 DEF NextOf
<1> QED BY <1>1, <1>2, <1>4, <1>5

----------------------------------------------------------------------------
LEMMA InitChainInv == QosInit => ChainInv
<1> SUFFICES ASSUME QosInit PROVE ChainInv
  OBVIOUS
<1>1. chain = <<>> /\ chain \in Seq(Seq(Queues)) /\ DOMAIN chain = {}
  BY DEF QosInit
<1>2. SortedChain(chain)
  BY <1>1 DEF SortedChain
<1>3. backlog \in [Queues -> 0 .. MaxBacklog]
  BY QosAssumption DEF QosInit, QosAssumption
<1>4. QosTypeOK
  BY <1>1, <1>3 DEF QosInit, QosTypeOK, NotSearching
<1> QED BY <1>2, <1>4 DEF QosInit, ChainInv, Running, SendsWaiting, InPlace, Searching

\* The rest of a list is made of queues, and so is its second item.
LEMMA NextIsQueue ==
  ASSUME SortedChain(chain), NEW q \in Chained
  PROVE  NextOf(q) \in Queues \cup {NULL} /\ Range(From(q)) \subseteq Queues
<1>1. CASE q = NULL
  <2>1. From(q) = <<>> /\ Len(<<>>) = 0 /\ Range(<<>>) = {}
    BY <1>1 DEF From, Range
  <2> QED BY <2>1 DEF NextOf
<1>2. CASE q # NULL
  <2> DEFINE items == chain[GroupOf(q)]
             p == PlaceOf(q)
  <2>1. /\ From(q) \in Seq(Queues)
        /\ NextOf(q) = IF p < Len(items) THEN items[p + 1] ELSE NULL
        /\ p \in 1 .. Len(items) /\ items \in Seq(Queues)
    BY <1>2, RestOfList
  <2> HIDE DEF p, items
  <2>2. NextOf(q) \in Queues \cup {NULL}
    BY <2>1
  <2>3. Range(From(q)) \subseteq Queues
    <3> DEFINE f == From(q)
    <3>1. f \in Seq(Queues)
      BY <2>1
    <3> HIDE DEF f
    <3>2. Range(f) \subseteq Queues
      BY <3>1 DEF Range
    <3> QED BY <3>2 DEF f
  <2> QED BY <2>2, <2>3
<1> QED BY <1>1, <1>2

\* The lists a search goes through.
LEMMA ListsOfSearch ==
  ASSUME ChainInv, Chained = Queues
  PROVE  /\ Lists \in Seq(Seq(Queues)) /\ Len(Lists) = Len(chain) + 1 /\ Len(chain) \in Nat
         /\ DOMAIN Lists = 1 .. Len(chain) + 1 /\ DOMAIN chain = 1 .. Len(chain)
         /\ Lists[1] = From(ctx.current)
         /\ \A g \in DOMAIN chain : Lists[g + 1] = chain[g]
<1> DEFINE f == From(ctx.current)
<1>1. chain \in Seq(Seq(Queues)) /\ SortedChain(chain) /\ ctx.current \in Queues \cup {NULL}
  BY DEF ChainInv, QosTypeOK
<1>2. f \in Seq(Queues)
  <2>1. CASE ctx.current = NULL
    BY <2>1 DEF From
  <2>2. CASE ctx.current # NULL
    BY <1>1, <2>2, RestOfList
  <2> QED BY <2>1, <2>2
<1>3. Lists = <<f>> \o chain
  BY DEF Lists
<1> HIDE DEF f
<1>4. <<f>> \in Seq(Seq(Queues)) /\ Len(<<f>>) = 1 /\ <<f>>[1] = f
  BY <1>2
<1> DEFINE one == <<f>>
<1> HIDE DEF one
<1>5. one \in Seq(Seq(Queues)) /\ Len(one) = 1 /\ one[1] = f /\ Lists = one \o chain
  BY <1>3, <1>4 DEF one
<1>6. /\ Lists \in Seq(Seq(Queues)) /\ Len(Lists) = 1 + Len(chain) /\ Len(chain) \in Nat
      /\ DOMAIN chain = 1 .. Len(chain) /\ DOMAIN Lists = 1 .. Len(Lists)
      /\ \A i \in 1 .. Len(Lists) : Lists[i] = IF i <= 1 THEN one[i] ELSE chain[i - 1]
  <2> DEFINE S == Seq(Queues)
  <2> HIDE DEF S
  <2>0. one \in Seq(S) /\ chain \in Seq(S)
    BY <1>1, <1>5 DEF S
  <2>1. one \o chain \in Seq(Seq(Queues)) /\ Len(one \o chain) = 1 + Len(chain)
    <3>1. one \o chain \in Seq(S) /\ Len(one \o chain) = Len(one) + Len(chain)
      BY <2>0, ConcatProperties
    <3> QED BY <1>5, <3>1 DEF S
  <2>2. Len(chain) \in Nat /\ DOMAIN chain = 1 .. Len(chain)
    BY <1>1
  <2>3. \A i \in 1 .. 1 + Len(chain) : (one \o chain)[i] = IF i <= 1 THEN one[i] ELSE chain[i - 1]
    <3>1. \A i \in 1 .. Len(one) + Len(chain) :
             (one \o chain)[i] = IF i <= Len(one) THEN one[i] ELSE chain[i - Len(one)]
      BY <2>0, ConcatProperties
    <3>2. Len(one) = 1
      BY <1>5
    <3> QED BY <3>1, <3>2, Zenon
  <2>4. DOMAIN Lists = 1 .. Len(Lists)
    BY <1>5, <2>1
  <2> QED BY <1>5, <2>1, <2>2, <2>3, <2>4
<1>7. Len(chain) + 1 = 1 + Len(chain)
  BY <1>6
<1>8. Lists[1] = f
  BY <1>5, <1>6
<1>9. ASSUME NEW g \in DOMAIN chain PROVE Lists[g + 1] = chain[g]
  <2>1. g + 1 \in 1 .. Len(Lists) /\ ~ (g + 1 <= 1) /\ g + 1 - 1 = g
    BY <1>6
  <2> QED BY <1>6, <2>1
<1> QED BY <1>6, <1>7, <1>8, <1>9 DEF f

\* A search looks at a queue of its list, unless it is at the list's end.
LEMMA LooksAtQueue ==
  ASSUME ChainInv, Searching
  PROVE  /\ search.list \in DOMAIN Lists /\ Lists[search.list] \in Seq(Queues)
         /\ search.list \in Nat /\ search.item \in Nat
         /\ ~ AtEnd => search.item \in DOMAIN Lists[search.list] /\ Looked \in Queues
<1>1. /\ Chained = Queues /\ search.list \in 1 .. Len(chain) + 1 /\ search.item >= 1
      /\ search.list \in Nat /\ search.item \in Nat
  BY DEF ChainInv, InPlace, QosTypeOK
<1> DEFINE items == Lists[search.list]
<1>2. search.list \in DOMAIN Lists /\ items \in Seq(Queues)
  BY <1>1, ListsOfSearch
<1>3. ASSUME ~ AtEnd PROVE search.item \in DOMAIN items /\ items[search.item] \in Queues
  <2>1. ~ (search.item > Len(items))
    BY <1>3 DEF AtEnd
  <2> HIDE DEF items
  <2> QED BY <1>1, <1>2, <2>1
<1> QED BY <1>1, <1>2, <1>3 DEF Looked

\* Where a look leaves the search: at rest, at the next item or the next list.
LEMMA WhereNext ==
  ASSUME ChainInv, Look
  PROVE  \/ search' = NotSearching
         \/ /\ ~ AtEnd /\ ~ HasPacket(Looked) /\ sending' = sending
            /\ search' = [list |-> search.list, item |-> search.item + 1]
         \/ /\ AtEnd /\ search.list < Len(Lists) /\ sending' = sending
            /\ search' = [list |-> search.list + 1, item |-> 1]
<1>1. search \in [list : Nat, item : Nat]
  BY DEF ChainInv, QosTypeOK
<1>2. [search EXCEPT !.item = @ + 1] = [list |-> search.list, item |-> search.item + 1]
  BY <1>1
<1>3. NextList = NotSearching
      \/ (search.list < Len(Lists) /\ NextList = [list |-> search.list + 1, item |-> 1])
  BY DEF NextList
<1> QED BY <1>2, <1>3 DEF Look

LEMMA StepChainInv == ChainInv /\ [QosNext]_qosVars => ChainInv'
<1> SUFFICES ASSUME ChainInv, [QosNext]_qosVars PROVE ChainInv'
  OBVIOUS
<1> USE DEF ChainInv
<1>1. ASSUME NEW q \in Queues, Create(q) PROVE ChainInv'
  <2>1. SortedChain(chain')
    BY <1>1, InsertSorted DEF Create
  <2>2. chain' \in Seq(Seq(Queues))
    BY <2>1 DEF SortedChain
  <2>3. UNCHANGED <<deleted, backlog, ctx, search, sending, steady, contested, served, streak>>
    BY <1>1 DEF Create, serviceVars
  <2>4. QosTypeOK'
    BY <2>2, <2>3 DEF QosTypeOK
  <2>5. Running' /\ SendsWaiting' /\ InPlace'
    BY <1>1, <2>3 DEF Running, SendsWaiting, InPlace, Searching, Create
  <2> QED BY <2>1, <2>4, <2>5
<1>2. ASSUME NEW q \in Queues, RemoveQueue(q) PROVE ChainInv'
  <2>1. UNCHANGED <<chain, backlog, ctx, search, sending, steady, contested, served, streak>>
    BY <1>2 DEF RemoveQueue, serviceVars
  <2>2. deleted' \subseteq Queues
    <3>1. q \in Chained
      BY <1>2 DEF RemoveQueue, Ready
    <3> QED BY <1>2, <3>1, NextIsQueue DEF RemoveQueue
  <2>3. QosTypeOK'
    BY <2>1, <2>2 DEF QosTypeOK
  <2> QED BY <2>1, <2>3 DEF Running, SendsWaiting, InPlace, Searching, Chained
<1>3. ASSUME NEW q \in Queues, PushPacket(q) PROVE ChainInv'
  <2>1. UNCHANGED <<chain, deleted, ctx, search, sending, steady, contested, served, streak>>
    BY <1>3 DEF PushPacket, serviceVars
  <2>2. \A r \in Queues : backlog'[r] = IF r = q THEN backlog[q] + 1 ELSE backlog[r]
    BY <1>3 DEF PushPacket, QosTypeOK
  <2>3. backlog' \in [Queues -> 0 .. MaxBacklog]
    <3>1. backlog[q] + 1 \in 0 .. MaxBacklog
      BY <1>3, QosAssumption DEF PushPacket, QosTypeOK, QosAssumption
    <3> QED BY <1>3, <3>1 DEF PushPacket, QosTypeOK
  <2>4. QosTypeOK'
    BY <2>1, <2>3 DEF QosTypeOK
  <2>5. SendsWaiting'
    <3>1. backlog[q] \in Nat /\ sending \in Queues \cup {NULL}
      BY <1>3, QosAssumption DEF QosTypeOK, QosAssumption
    <3> QED BY <2>1, <2>2, <3>1 DEF SendsWaiting
  <2> QED BY <2>1, <2>4, <2>5 DEF Running, InPlace, Searching, Chained
<1>4. ASSUME NEW q \in Queues, Lose(q) PROVE ChainInv'
  <2>1. UNCHANGED <<chain, deleted, ctx, search, sending, contested, served, streak>>
        /\ steady' \subseteq steady
    BY <1>4 DEF Lose, serviceVars
  <2>2. \A r \in Queues : backlog'[r] = IF r = q THEN backlog[q] - 1 ELSE backlog[r]
    BY <1>4 DEF Lose, QosTypeOK
  <2>3. backlog' \in [Queues -> 0 .. MaxBacklog]
    <3>1. backlog[q] - 1 \in 0 .. MaxBacklog
      BY <1>4, QosAssumption DEF Lose, QosTypeOK, QosAssumption
    <3> QED BY <1>4, <3>1 DEF Lose, QosTypeOK
  <2>4. QosTypeOK'
    BY <2>1, <2>3 DEF QosTypeOK
  <2>5. SendsWaiting'
    BY <1>4, <2>1, <2>2 DEF SendsWaiting, QosTypeOK, Lose
  <2> QED BY <2>1, <2>4, <2>5 DEF Running, InPlace, Searching, Chained
<1>5. ASSUME StartSearch PROVE ChainInv'
  <2>1. UNCHANGED <<chain, deleted, backlog, ctx, sending, contested, served, streak>>
        /\ search' = [list |-> 1, item |-> 1] /\ steady' \subseteq Queues
    BY <1>5 DEF StartSearch
  <2>2. Chained = Queues /\ sending = NULL
    BY <1>5 DEF StartSearch, Ready
  <2>3. QosTypeOK'
    BY <2>1 DEF QosTypeOK
  <2>4. 1 \in 1 .. Len(chain) + 1
    BY <2>2, ListsOfSearch
  <2>5. InPlace'
    BY <2>1, <2>2, <2>4 DEF InPlace, Chained
  <2> QED BY <2>1, <2>3, <2>5 DEF Running, SendsWaiting, Chained
<1>8. ASSUME Look PROVE ChainInv'
  <2>1. /\ UNCHANGED <<chain, deleted, backlog, ctx, served, streak>>
        /\ Searching /\ Chained = Queues /\ steady' \in {{}, steady}
    BY <1>8 DEF Look, Ready
  <2>2. /\ search.list \in DOMAIN Lists /\ search.list \in Nat /\ search.item \in Nat
        /\ Len(Lists) = Len(chain) + 1 /\ Len(chain) \in Nat /\ sending = NULL
        /\ search.list \in 1 .. Len(chain) + 1 /\ search.item >= 1
    BY <2>1, LooksAtQueue, ListsOfSearch DEF InPlace
  <2>3. search' = NotSearching \/ (sending' = sending /\ search'.list \in 1 .. Len(chain) + 1
                                   /\ search'.item >= 1 /\ search' \in [list : Nat, item : Nat])
    BY <1>8, <2>2, WhereNext
  <2>4. search' \in [list : Nat, item : Nat]
    BY <2>3 DEF NotSearching
  <2>5. /\ sending' = NULL \/ (sending' \in Queues /\ backlog[sending'] > 0)
        /\ contested' \in BOOLEAN
    <3>1. CASE ~ AtEnd /\ HasPacket(Looked)
      BY <1>8, <2>1, <3>1, LooksAtQueue DEF Look, HasPacket
    <3>2. CASE ~ (~ AtEnd /\ HasPacket(Looked))
      BY <1>8, <2>2, <3>2 DEF Look, QosTypeOK
    <3> QED BY <3>1, <3>2
  <2>6. QosTypeOK'
    BY <2>1, <2>4, <2>5 DEF QosTypeOK
  <2>7. InPlace'
    BY <2>1, <2>2, <2>3 DEF InPlace, Searching, Chained
  <2> QED BY <2>1, <2>5, <2>6, <2>7 DEF Running, Chained, SendsWaiting
<1>6. ASSUME NEW success \in BOOLEAN, DisposePacket(success) PROVE ChainInv'
  <2>1. UNCHANGED <<chain, deleted, search, steady, contested>> /\ sending' = NULL
        /\ sending \in Queues /\ sending \in Chained
    BY <1>6 DEF DisposePacket, QosTypeOK, Running
  <2>2. CASE success
    <3>1. /\ backlog' = [backlog EXCEPT ![sending] = @ - 1]
          /\ ctx' = Account(sending) /\ served' = sending
          /\ streak' = IF ~contested THEN 0 ELSE IF served = sending THEN streak + 1 ELSE 1
      BY <1>6, <2>2 DEF DisposePacket
    <3>2. backlog[sending] - 1 \in 0 .. MaxBacklog
      <4>1. backlog[sending] \in 0 .. MaxBacklog /\ MaxBacklog \in Nat
        BY <2>1, QosAssumption DEF QosTypeOK, QosAssumption
      <4>2. backlog[sending] > 0
        BY <2>1, NullIsNoQueue DEF SendsWaiting
      <4> QED BY <4>1, <4>2
    <3>3. backlog' \in [Queues -> 0 .. MaxBacklog]
      BY <3>1, <3>2 DEF QosTypeOK
    <3>4. NextOf(sending) \in Queues \cup {NULL}
      BY <2>1, NextIsQueue
    <3>5. ctx' \in [current : Queues \cup {NULL}, sent : Nat]
      <4>1. ctx \in [current : Queues \cup {NULL}, sent : Nat]
        BY DEF QosTypeOK
      <4>2. Account(sending) \in [current : Queues \cup {NULL}, sent : Nat]
        BY <2>1, <3>4, <4>1 DEF Account
      <4> QED BY <3>1, <4>2
    <3>6. streak' \in Nat
      BY <3>1 DEF QosTypeOK
    <3>7. QosTypeOK'
      BY <2>1, <3>1, <3>3, <3>5, <3>6 DEF QosTypeOK
    <3> QED BY <1>6, <2>1, <3>7
            DEF Running, Chained, SendsWaiting, InPlace, Searching, DisposePacket
  <2>3. CASE ~ success
    <3>1. UNCHANGED <<backlog, ctx, served, streak>>
      BY <1>6, <2>3 DEF DisposePacket
    <3>2. QosTypeOK'
      BY <2>1, <3>1 DEF QosTypeOK
    <3> QED BY <2>1, <3>1, <3>2 DEF Running, Chained, SendsWaiting, InPlace, Searching
  <2> QED BY <2>2, <2>3
<1>7. CASE UNCHANGED qosVars
  <2>1. UNCHANGED <<chain, deleted, backlog, ctx, search, sending, steady, contested, served, streak>>
    BY <1>7 DEF qosVars, serviceVars
  <2>2. QosTypeOK'
    BY <2>1 DEF QosTypeOK
  <2> QED BY <2>1, <2>2 DEF Running, Chained, SendsWaiting, InPlace, Searching
<1> QED BY <1>1, <1>2, <1>3, <1>4, <1>5, <1>6, <1>7, <1>8 DEF QosNext

LEMMA AlwaysChainInv == QosSpec => []ChainInv
BY InitChainInv, StepChainInv, PTL DEF QosSpec

\* A chain in order has the queues in the order its readers expect.
LEMMA OrderedChain == ChainInv => ChainSorted
<1> SUFFICES ASSUME ChainInv PROVE ChainSorted
  OBVIOUS
<1>1. QosTypeOK /\ SortedChain(chain)
  BY DEF ChainInv
<1>2. ASSUME NEW g \in DOMAIN chain, NEW h \in DOMAIN chain,
             NEW i \in DOMAIN chain[g], NEW j \in DOMAIN chain[h]
      PROVE  /\ g < h => priority[chain[g][i]] > priority[chain[h][j]]
             /\ g = h => priority[chain[g][i]] = priority[chain[h][j]]
             /\ g = h /\ i < j => chain[g][i] # chain[h][j] /\ quota[chain[g][i]] >= quota[chain[h][j]]
  <2>1. priority[chain[g][i]] = priority[chain[g][1]] /\ priority[chain[h][j]] = priority[chain[h][1]]
    BY <1>1 DEF SortedChain, OfPriority
  <2>2. g < h => priority[chain[g][1]] > priority[chain[h][1]]
    BY <1>1 DEF SortedChain
  <2>3. Falling(chain[g])
    BY <1>1 DEF SortedChain
  <2> QED BY <2>1, <2>2, <2>3 DEF Falling
<1> QED BY <1>1, <1>2 DEF ChainSorted

\* The chain is sorted whatever the order in which the queues were created.
THEOREM QueuesInOrder == QosSpec => []ChainSorted
BY AlwaysChainInv, OrderedChain, PTL

----------------------------------------------------------------------------
\* The queues that the search is past.
Passed(o) == \E l \in DOMAIN Lists : \E i \in DOMAIN Lists[l] :
                 Lists[l][i] = o /\ (l < search.list \/ (l = search.list /\ i < search.item))
\* It is past none that had a packet all along.
SteadyAhead == /\ \A o \in steady : HasPacket(o)
               /\ ~ Searching => steady = {}
               /\ Searching => \A o \in steady : ~ Passed(o)

LEMMA InitSteadyAhead == QosInit => SteadyAhead
BY DEF QosInit, SteadyAhead, Searching

LEMMA StepSteadyAhead ==
  ASSUME ChainInv, SteadyAhead, [QosNext]_qosVars
  PROVE  SteadyAhead'
<1>1. ASSUME NEW q \in Queues, Create(q) PROVE SteadyAhead'
  BY <1>1 DEF Create, serviceVars, ChainInv, InPlace, SteadyAhead, Searching, HasPacket
<1>2. ASSUME UNCHANGED <<chain, ctx, search>>, steady' \subseteq steady,
             \A o \in steady' : HasPacket(o)'
      PROVE  SteadyAhead'
  <2>1. Lists' = Lists
    BY <1>2 DEF Lists, From, GroupOf, PlaceOf
  <2>2. \A o : Passed(o)' <=> Passed(o)
    BY <1>2, <2>1 DEF Passed
  <2>3. Searching' <=> Searching
    BY <1>2 DEF Searching
  <2> QED BY <1>2, <2>2, <2>3 DEF SteadyAhead
<1>3. ASSUME NEW q \in Queues, RemoveQueue(q) PROVE SteadyAhead'
  <2>1. UNCHANGED <<chain, ctx, search, steady, backlog>>
    BY <1>3 DEF RemoveQueue, serviceVars
  <2> QED BY <1>2, <2>1 DEF SteadyAhead, HasPacket
<1>4. ASSUME NEW q \in Queues, PushPacket(q) \/ Lose(q) PROVE SteadyAhead'
  <2>1. UNCHANGED <<chain, ctx, search>> /\ steady' \subseteq steady
    BY <1>4 DEF PushPacket, Lose, serviceVars
  <2>2. ASSUME NEW o \in steady' PROVE backlog'[o] > 0
    <3>1. o \in steady /\ o \in Queues /\ backlog[o] > 0 /\ backlog[o] \in Nat /\ backlog[q] \in Nat
      BY <2>1, <2>2, QosAssumption DEF SteadyAhead, HasPacket, ChainInv, QosTypeOK, QosAssumption
    <3>2. backlog'[o] = IF o # q THEN backlog[o]
                        ELSE IF PushPacket(q) THEN backlog[q] + 1 ELSE backlog[q] - 1
      BY <1>4, <3>1 DEF PushPacket, Lose, ChainInv, QosTypeOK
    <3>3. o = q /\ ~ PushPacket(q) => backlog[q] # 1
      BY <1>4, <2>2 DEF Lose
    <3> QED BY <3>1, <3>2, <3>3
  <2> QED BY <1>2, <2>1, <2>2 DEF HasPacket
<1>5. ASSUME StartSearch PROVE SteadyAhead'
  <2>1. /\ UNCHANGED <<chain, ctx, backlog>> /\ search' = [list |-> 1, item |-> 1]
        /\ steady' = {q \in Queues : HasPacket(q)} /\ Chained = Queues
    BY <1>5 DEF StartSearch, Ready
  <2>2. Lists' = Lists
    BY <2>1 DEF Lists, From, GroupOf, PlaceOf
  <2>3. ASSUME NEW l \in DOMAIN Lists, NEW i \in DOMAIN Lists[l]
        PROVE  l \in Nat \ {0} /\ i \in Nat \ {0}
    <3>1. l \in 1 .. Len(chain) + 1 /\ Len(chain) \in Nat /\ Lists[l] \in Seq(Queues)
      BY <2>1, ListsOfSearch
    <3> QED BY <3>1
  <2>4. \A o : ~ Passed(o)'
    BY <2>1, <2>2, <2>3 DEF Passed
  <2>5. Searching'
    BY <2>1 DEF Searching, NotSearching
  <2> QED BY <2>1, <2>4, <2>5 DEF SteadyAhead, HasPacket
<1>6. ASSUME Look PROVE SteadyAhead'
  <2>1. UNCHANGED <<chain, ctx, backlog>> /\ Searching
        /\ steady' = IF search' = NotSearching THEN {} ELSE steady
    BY <1>6 DEF Look
  <2>2. Lists' = Lists
    BY <2>1 DEF Lists, From, GroupOf, PlaceOf
  <2>3. CASE search' = NotSearching
    BY <2>1, <2>3 DEF SteadyAhead, Searching
  <2>4. ASSUME search' # NotSearching, NEW o \in steady, Passed(o)' PROVE FALSE
    <3>1. PICK l \in DOMAIN Lists : \E i \in DOMAIN Lists[l] : Lists[l][i] = o
                 /\ (l < search'.list \/ (l = search'.list /\ i < search'.item))
      BY <2>2, <2>4 DEF Passed
    <3>2. PICK i \in DOMAIN Lists[l] : Lists[l][i] = o
                 /\ (l < search'.list \/ (l = search'.list /\ i < search'.item))
      BY <3>1
    <3>3. ~ (l < search.list) /\ ~ (l = search.list /\ i < search.item) /\ HasPacket(o)
      BY <2>1, <2>4, <3>2 DEF SteadyAhead, Passed
    <3>4. /\ l \in 1 .. Len(chain) + 1 /\ Len(chain) \in Nat /\ Lists[l] \in Seq(Queues)
          /\ search.list \in Nat /\ search.item \in Nat /\ i \in 1 .. Len(Lists[l])
          /\ Len(Lists[l]) \in Nat
      <4>1. /\ DOMAIN Lists = 1 .. Len(chain) + 1 /\ Len(chain) \in Nat /\ Lists[l] \in Seq(Queues)
            /\ search.list \in Nat /\ search.item \in Nat
        BY <2>1, LooksAtQueue, ListsOfSearch DEF ChainInv, InPlace
      <4> QED BY <4>1
    <3>5. CASE ~ AtEnd /\ ~ HasPacket(Looked) /\ search' = [list |-> search.list, item |-> search.item + 1]
      <4>1. l = search.list /\ i = search.item
        BY <3>2, <3>3, <3>4, <3>5
      <4> QED BY <3>2, <3>3, <3>5, <4>1 DEF Looked
    <3>6. CASE AtEnd /\ search' = [list |-> search.list + 1, item |-> 1]
      <4>1. l = search.list
        BY <3>2, <3>3, <3>4, <3>6
      <4>2. search.item > Len(Lists[l])
        BY <3>6, <4>1 DEF AtEnd
      <4> QED BY <3>3, <3>4, <4>1, <4>2
    <3> QED BY <1>6, <2>4, <3>5, <3>6, WhereNext
  <2>5. CASE search' # NotSearching
    BY <2>1, <2>4, <2>5 DEF SteadyAhead, Searching, HasPacket
  <2> QED BY <2>3, <2>5
<1>7. ASSUME NEW success \in BOOLEAN, DisposePacket(success) PROVE SteadyAhead'
  BY <1>7 DEF DisposePacket, SteadyAhead, ChainInv, InPlace, Searching
<1>8. CASE UNCHANGED qosVars
  <2>1. UNCHANGED <<chain, ctx, search, steady, backlog>>
    BY <1>8 DEF qosVars, serviceVars
  <2> QED BY <1>2, <2>1 DEF SteadyAhead, HasPacket
<1> QED BY <1>1, <1>3, <1>4, <1>5, <1>6, <1>7, <1>8 DEF QosNext

\* When the quota of a queue is reached and a search comes back to it, the
\* search is past every rival: the rest of its list, and then from the top.
LEMMA PassedOver ==
  ASSUME ChainInv, Searching, ~ AtEnd, NEW q, q = Looked,
         ctx.current = NextOf(q), NEW o \in Rivals(q)
  PROVE  Passed(o)
<1> DEFINE g == GroupOf(q)
           p == PlaceOf(q)
           items == chain[g]
           cur == ctx.current
<1>1. /\ Chained = Queues /\ SortedChain(chain) /\ q \in Queues /\ q # NULL
      /\ search.list \in DOMAIN Lists /\ search.list \in Nat /\ search.item \in Nat
      /\ search.item \in DOMAIN Lists[search.list] /\ q = Lists[search.list][search.item]
  BY LooksAtQueue, NullIsNoQueue DEF ChainInv, InPlace, Looked
<1>2. /\ DOMAIN Lists = 1 .. Len(chain) + 1 /\ DOMAIN chain = 1 .. Len(chain) /\ Len(chain) \in Nat
      /\ Lists[1] = From(cur) /\ \A k \in DOMAIN chain : Lists[k + 1] = chain[k]
  BY <1>1, ListsOfSearch
<1>3. /\ NextOf(q) = IF p < Len(items) THEN items[p + 1] ELSE NULL
      /\ p \in 1 .. Len(items) /\ items \in Seq(Queues) /\ items[p] = q /\ g \in DOMAIN chain
  BY <1>1, RestOfList
<1>4. Len(items) \in Nat /\ DOMAIN items = 1 .. Len(items) /\ \A i \in 1 .. Len(items) : items[i] \in Queues
  BY <1>3
<1> HIDE DEF g, p
\* The current queue's list goes on behind q.
<1>5. /\ \A k \in DOMAIN From(cur) : From(cur)[k] # q
      /\ \A i \in DOMAIN items : i > p => \E j \in DOMAIN From(cur) : From(cur)[j] = items[i]
  <2> DEFINE len == Len(items)
  <2>0. len \in Nat /\ p \in 1 .. len /\ DOMAIN items = 1 .. len
    BY <1>3, <1>4
  <2>1. CASE p = len
    <3>1. cur = NULL /\ From(cur) = <<>>
      BY <1>3, <2>0, <2>1 DEF From
    <3>2. DOMAIN From(cur) = {}
      BY <3>1
    <3> HIDE DEF items
    <3> QED BY <2>0, <2>1, <3>2
  <2>2. CASE p < len
    <3>1. p + 1 \in DOMAIN items
      <4> HIDE DEF len, items
      <4> QED BY <2>0, <2>2
    <3>2. cur = items[p + 1] /\ cur \in Queues /\ cur # NULL
      BY <1>3, <1>4, <2>2, <3>1, NullIsNoQueue
    <3>3. GroupOf(cur) = g /\ PlaceOf(cur) = p + 1
      BY <1>1, <1>3, <3>1, <3>2, OnePlace
    <3> DEFINE pp == p + 1
               f == From(cur)
    <3>4. cur \in Chained /\ cur # NULL /\ g = GroupOf(cur) /\ pp = PlaceOf(cur)
      BY <1>1, <3>2, <3>3
    <3> HIDE DEF pp, items
    <3>5. /\ f \in Seq(Queues) /\ Len(f) = Len(chain[g]) - pp + 1
          /\ \A k \in 1 .. Len(chain[g]) - pp + 1 : f[k] = chain[g][pp + k - 1]
      <4> HIDE DEF f, cur
      <4> QED BY <1>1, <3>4, RestOfList DEF f
    <3>6. /\ DOMAIN f = 1 .. len - (p + 1) + 1
          /\ \A k \in 1 .. len - (p + 1) + 1 : f[k] = items[(p + 1) + k - 1]
      <4>1. DOMAIN f = 1 .. Len(f)
        BY <3>5
      <4> QED BY <3>5, <4>1 DEF pp, items, len
    <3> HIDE DEF f, len
    <3>7. ASSUME NEW k \in DOMAIN f PROVE f[k] # q
      <4>1. (p + 1) + k - 1 \in DOMAIN items /\ (p + 1) + k - 1 # p
        BY <2>0, <3>6, <3>7
      <4> DEFINE n == (p + 1) + k - 1
      <4>2. f[k] = items[n] /\ n \in DOMAIN items /\ n # p
        BY <3>6, <3>7, <4>1
      <4> HIDE DEF n
      <4>3. PlaceOf(items[n]) = n
        BY <1>1, <1>3, <4>2, OnePlace DEF items
      <4> QED BY <4>2, <4>3 DEF p
    <3>8. ASSUME NEW i \in DOMAIN items, i > p PROVE \E j \in DOMAIN f : f[j] = items[i]
      <4>0. i \in 1 .. len /\ i > p /\ len \in Nat /\ p \in 1 .. len
        BY <2>0, <3>8
      <4>1. i - p \in 1 .. len - (p + 1) + 1 /\ (p + 1) + (i - p) - 1 = i
        BY <4>0
      <4> QED BY <3>6, <4>1
    <3> QED BY <3>7, <3>8 DEF f
  <2>3. p = len \/ p < len
    <3> HIDE DEF len, items
    <3> QED BY <2>0
  <2> QED BY <2>1, <2>2, <2>3
\* So the search is at q's place in the list of its group.
<1>6. search.list = g + 1 /\ search.item = p
  <2>1. search.list # 1
    BY <1>1, <1>2, <1>5
  <2> DEFINE k == search.list - 1
  <2>2. k \in DOMAIN chain /\ search.list = k + 1
    BY <1>1, <1>2, <2>1
  <2> HIDE DEF k
  <2>3. search.item \in DOMAIN chain[k] /\ q = chain[k][search.item]
    BY <1>1, <1>2, <2>2
  <2>4. g = k /\ p = search.item
    BY <1>1, <2>2, <2>3, OnePlace DEF g, p
  <2> QED BY <2>2, <2>4
\* A rival's place is before.
<1> DEFINE h == GroupOf(o)
           i == PlaceOf(o)
<1>7. o \in Queues /\ o # q /\ priority[o] >= priority[q]
  BY DEF Rivals
<1>8. h \in DOMAIN chain /\ i \in DOMAIN chain[h] /\ chain[h][i] = o
  BY <1>1, <1>7, Placed
<1> HIDE DEF h, i
<1>9. ~ (g < h)
  <2>1. priority[o] = priority[chain[h][1]] /\ priority[q] = priority[items[1]]
    BY <1>1, <1>3, <1>4, <1>8 DEF SortedChain, OfPriority
  <2>2. priority[o] \in Nat /\ priority[q] \in Nat
    BY <1>1, <1>7, QosAssumption DEF QosAssumption
  <2>3. g < h => priority[items[1]] > priority[chain[h][1]]
    BY <1>1, <1>3, <1>8 DEF SortedChain
  <2> QED BY <1>7, <2>1, <2>2, <2>3
<1>10. h + 1 \in DOMAIN Lists /\ Lists[h + 1] = chain[h] /\ g \in Nat /\ h \in Nat
  BY <1>2, <1>3, <1>8
<1>11. CASE h < g
  <2>1. h + 1 < search.list
    BY <1>6, <1>10, <1>11
  <2> QED BY <1>8, <1>10, <2>1 DEF Passed
<1>12. CASE h = g /\ i < p
  <2>1. i \in DOMAIN Lists[h + 1] /\ Lists[h + 1][i] = o
    BY <1>8, <1>10
  <2>2. h + 1 = search.list /\ i < search.item
    BY <1>6, <1>12
  <2> QED BY <1>10, <2>1, <2>2 DEF Passed
<1>13. CASE h = g /\ i > p
  <2>0. i \in DOMAIN items /\ items[i] = o /\ i > p
    BY <1>8, <1>13
  <2>1. PICK j \in DOMAIN From(cur) : From(cur)[j] = o
    BY <1>5, <2>0
  <2>2. 1 \in DOMAIN Lists /\ 1 < search.list
    BY <1>2, <1>3, <1>6
  <2> QED BY <1>2, <2>1, <2>2 DEF Passed
<1>14. i # p \/ h # g
  BY <1>3, <1>7, <1>8
<1>15. h = g => i \in Nat /\ p \in Nat
  <2> DEFINE len == Len(items)
  <2>1. h = g => i \in 1 .. len /\ p \in 1 .. len
    BY <1>3, <1>4, <1>8
  <2> QED BY <2>1
<1>16. h < g \/ (h = g /\ i < p) \/ (h = g /\ i > p)
  BY <1>9, <1>10, <1>14, <1>15
<1> QED BY <1>11, <1>12, <1>13, <1>16

----------------------------------------------------------------------------
CountBelowQuota == ctx.current # NULL => ctx.sent < quota[ctx.current]
GoesOn == ctx.current = served /\ streak <= ctx.sent
MovedOn == ctx.current = NextOf(served)
StreakCounted == served # NULL => GoesOn \/ MovedOn
TurnOver == sending # NULL /\ contested /\ sending = served => GoesOn
StreakInv == CountBelowQuota /\ StreakCounted /\ TurnOver /\ StreakWithinQuota

LEMMA InitStreakInv == QosInit => StreakInv
BY DEF QosInit, StreakInv, CountBelowQuota, StreakCounted, TurnOver, StreakWithinQuota

\* What the streak depends on.
LEMMA SameStreak ==
  ASSUME StreakInv, UNCHANGED <<chain, ctx, sending, contested, served, streak>>
  PROVE  StreakInv'
BY DEF StreakInv, CountBelowQuota, StreakCounted, TurnOver, StreakWithinQuota, GoesOn, MovedOn,
       NextOf, From, GroupOf, PlaceOf

LEMMA StepStreakInv ==
  ASSUME \A q \in Queues : quota[q] >= 2, ChainInv, SteadyAhead, StreakInv, [QosNext]_qosVars
  PROVE  StreakInv'
<1>1. ASSUME NEW q \in Queues, Create(q) PROVE StreakInv'
  <2>1. UNCHANGED <<ctx, sending, contested, served, streak>>
    BY <1>1 DEF Create, serviceVars
  <2>2. ctx.current = NULL /\ sending = NULL /\ served = NULL
    BY <1>1 DEF Create, ChainInv, Running
  <2> QED BY <2>1, <2>2 DEF StreakInv, CountBelowQuota, StreakCounted, TurnOver, StreakWithinQuota
<1>2. ASSUME NEW q \in Queues, RemoveQueue(q) \/ PushPacket(q) \/ Lose(q) PROVE StreakInv'
  <2>1. UNCHANGED <<chain, ctx, sending, contested, served, streak>>
    BY <1>2 DEF RemoveQueue, PushPacket, Lose, serviceVars
  <2> QED BY <2>1, SameStreak
<1>3. ASSUME StartSearch PROVE StreakInv'
  <2>1. UNCHANGED <<chain, ctx, sending, contested, served, streak>>
    BY <1>3 DEF StartSearch
  <2> QED BY <2>1, SameStreak
<1>7. ASSUME Look PROVE StreakInv'
  <2>1. UNCHANGED <<chain, backlog, ctx, served, streak>> /\ Searching
    BY <1>7 DEF Look
  <2>2. CASE ~ AtEnd /\ HasPacket(Looked)
    <3>1. sending' = Looked /\ (contested' <=> Rivals(Looked) \cap steady # {})
      BY <1>7, <2>2 DEF Look
    <3>2. Looked \in Queues /\ Looked # NULL
      BY <2>1, <2>2, LooksAtQueue, NullIsNoQueue
    <3>3. NextOf(served)' = NextOf(served)
      BY <2>1 DEF NextOf, From, GroupOf, PlaceOf
    <3>4. (CountBelowQuota /\ StreakCounted /\ StreakWithinQuota)'
      BY <2>1, <3>3 DEF StreakInv, CountBelowQuota, StreakCounted, StreakWithinQuota, GoesOn, MovedOn
    <3>5. ASSUME contested', Looked = served PROVE GoesOn
      <4>1. PICK o \in Rivals(Looked) : o \in steady
        BY <3>1, <3>5
      <4>2. ~ Passed(o)
        BY <2>1, <4>1 DEF SteadyAhead
      <4>3. ~ MovedOn
        BY <2>1, <2>2, <3>5, <4>2, PassedOver DEF MovedOn
      <4> QED BY <3>2, <3>5, <4>3 DEF StreakInv, StreakCounted
    <3>6. TurnOver'
      BY <2>1, <3>1, <3>5 DEF TurnOver, GoesOn
    <3> QED BY <3>4, <3>6 DEF StreakInv
  <2>3. CASE ~ (~ AtEnd /\ HasPacket(Looked))
    <3>1. UNCHANGED <<chain, ctx, sending, contested, served, streak>>
      BY <1>7, <2>1, <2>3 DEF Look
    <3> QED BY <3>1, SameStreak
  <2> QED BY <2>2, <2>3
<1>4. ASSUME DisposePacket(FALSE) PROVE StreakInv'
  <2>1. UNCHANGED <<chain, ctx, contested, served, streak>> /\ sending' = NULL
    BY <1>4 DEF DisposePacket
  <2>2. NextOf(served)' = NextOf(served)
    BY <2>1 DEF NextOf, From, GroupOf, PlaceOf
  <2> QED BY <2>1, <2>2
          DEF StreakInv, CountBelowQuota, StreakCounted, TurnOver, StreakWithinQuota, GoesOn, MovedOn
<1>5. ASSUME DisposePacket(TRUE) PROVE StreakInv'
  <2> DEFINE q == sending
  <2>1. /\ UNCHANGED <<chain, contested>> /\ sending' = NULL /\ q # NULL
        /\ ctx' = Account(q) /\ served' = q
        /\ streak' = IF ~contested THEN 0 ELSE IF served = q THEN streak + 1 ELSE 1
    BY <1>5 DEF DisposePacket
  <2>2. q \in Queues /\ q \in Chained /\ streak \in Nat /\ ctx.sent \in Nat
    BY <2>1 DEF ChainInv, QosTypeOK, Running
  <2>3. quota[q] \in Nat /\ quota[q] >= 2
    BY <2>2, QosAssumption DEF QosAssumption
  <2>4. NextOf(q) \in Queues \cup {NULL}
    BY <2>2, NextIsQueue DEF ChainInv
  <2>5. ASSUME contested, served = q PROVE ctx.current = q /\ streak <= ctx.sent
    BY <2>1, <2>5 DEF StreakInv, TurnOver, GoesOn
  <2>6. streak' \in Nat /\ (streak' <= 1 \/ (ctx.current = q /\ streak' <= ctx.sent + 1))
    BY <2>1, <2>2, <2>5
  <2>7. ctx.current = q => ctx.sent < quota[q]
    BY <2>1 DEF StreakInv, CountBelowQuota
  <2> DEFINE lim == quota[q]
  <2>8. streak' <= lim
    <3>1. lim \in Nat /\ lim >= 2 /\ ctx.sent \in Nat
      BY <2>2, <2>3
    <3>2. ctx.current = q => ctx.sent < lim
      BY <2>7
    <3> HIDE DEF lim, q
    <3>3. CASE streak' <= 1
      BY <2>6, <3>1, <3>3
    <3>4. CASE ctx.current = q /\ streak' <= ctx.sent + 1
      BY <2>6, <3>1, <3>2, <3>4
    <3> QED BY <2>6, <3>3, <3>4
  <2> DEFINE n == NextOf(q)
  <2>10. n # NULL => quota[n] \in Nat /\ quota[n] >= 2
    BY <2>4, QosAssumption DEF QosAssumption
  <2>11. NextOf(served)' = n
    BY <2>1 DEF NextOf, From, GroupOf, PlaceOf
  <2> HIDE DEF n, q
  <2>12. /\ ctx'.current # NULL => ctx'.sent < quota[ctx'.current]
         /\ (ctx'.current = q /\ streak' <= ctx'.sent) \/ ctx'.current = n
    <3>1. CASE ctx.current # q
      <4>1. ctx'.current = q /\ ctx'.sent = 1
        BY <2>1, <3>1 DEF Account
      <4> QED BY <2>3, <2>6, <3>1, <4>1
    <3>2. CASE ctx.current = q /\ ctx.sent + 1 = quota[q]
      <4>1. ctx'.current = n /\ ctx'.sent = 0
        BY <2>1, <3>2 DEF Account, n
      <4> QED BY <2>10, <4>1
    <3>3. CASE ctx.current = q /\ ctx.sent + 1 # quota[q]
      <4>1. ctx' = [ctx EXCEPT !.sent = @ + 1]
        BY <2>1, <3>3 DEF Account
      <4>2. ctx \in [current : Queues \cup {NULL}, sent : Nat]
        BY DEF ChainInv, QosTypeOK
      <4>3. ctx'.current = q /\ ctx'.sent = ctx.sent + 1
        BY <3>3, <4>1, <4>2
      <4> QED BY <2>2, <2>3, <2>6, <2>7, <3>3, <4>3
    <3> QED BY <3>1, <3>2, <3>3
  <2>13. CountBelowQuota'
    BY <2>12 DEF CountBelowQuota
  <2>14. StreakCounted'
    BY <2>1, <2>11, <2>12 DEF StreakCounted, GoesOn, MovedOn
  <2>15. TurnOver' /\ StreakWithinQuota'
    BY <2>1, <2>8 DEF TurnOver, StreakWithinQuota
  <2> QED BY <2>13, <2>14, <2>15 DEF StreakInv
<1>6. CASE UNCHANGED qosVars
  <2>1. UNCHANGED <<chain, ctx, sending, contested, served, streak>>
    BY <1>6 DEF qosVars, serviceVars
  <2> QED BY <2>1, SameStreak
<1> QED BY <1>1, <1>2, <1>3, <1>4, <1>5, <1>6, <1>7 DEF QosNext

(* A queue that is given at least two packets in a row never gets more than *)
(* its quota while a rival waits.  (A quota of one is never reached by the  *)
(* comparison of DisposePacket, see README.)                                *)
THEOREM QuotaHolds ==
  ASSUME \A q \in Queues : quota[q] >= 2
  PROVE  QosSpec => []StreakWithinQuota
<1>1. QosInit => StreakInv
  BY InitStreakInv
<1>2. ChainInv /\ SteadyAhead /\ StreakInv /\ [QosNext]_qosVars => StreakInv'
  BY StepStreakInv
<1>4. QosInit => SteadyAhead
  BY InitSteadyAhead
<1>5. ChainInv /\ SteadyAhead /\ [QosNext]_qosVars => SteadyAhead'
  BY StepSteadyAhead
<1>3. StreakInv => StreakWithinQuota
  BY DEF StreakInv
<1> QED BY <1>1, <1>2, <1>3, <1>4, <1>5, AlwaysChainInv, PTL DEF QosSpec
=============================================================================
