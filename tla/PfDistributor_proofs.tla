------------------------ MODULE PfDistributor_proofs ------------------------
(***************************************************************************)
(* HoldsWhatItLists, for any clients, pushers and bound: the streamer has  *)
(* one reference on each connection in its lists.  The lists are kept      *)
(* apart (Lists), the thread's place is inside the active list when it     *)
(* looks at it (Place), and every step moves a connection from one list to *)
(* another or takes it off together with its reference (Counts).           *)
(***************************************************************************)
EXTENDS PfDistributor, SequenceTheorems, FiniteSetTheorems, TLAPS

\* No connection twice in a list, none in two lists.
Lists == /\ IsInjective(active) /\ IsInjective(inactive) /\ IsInjective(inserted)
         /\ Range(active) \cap Range(inactive) = {}
         /\ Range(active) \cap Range(inserted) = {}
         /\ Range(inactive) \cap Range(inserted) = {}

Counts == /\ \A i \in Listed : usage[i] = 1
          /\ \A i \in Items : usage[i] \in {0, 1}

\* Where the thread stands in the active list.
Place == /\ pc = "inactive" => it = 1
         /\ pc = "process" /\ active # <<>> => it \in 1 .. Len(active)
         /\ pc \in {"pause", "send"} => it \in 1 .. Len(active)
         /\ pc = "send" => work[active[it]] > 0

IInv == TypeOK /\ Lists /\ Counts /\ Place

-----------------------------------------------------------------------------
(* Lists of connections.                                                   *)

\* A concatenation repeats nothing iff its parts do not, and share nothing.
LEMMA Joined ==
  ASSUME NEW S, NEW s \in Seq(S), NEW t \in Seq(S)
  PROVE  /\ s \o t \in Seq(S)
         /\ Range(s \o t) = Range(s) \cup Range(t)
         /\ IsInjective(s \o t) <=>
               IsInjective(s) /\ IsInjective(t) /\ Range(s) \cap Range(t) = {}
<1> DEFINE u == s \o t
<1>1. /\ Len(s) \in Nat /\ Len(t) \in Nat
      /\ DOMAIN s = 1 .. Len(s) /\ DOMAIN t = 1 .. Len(t)
  BY LenProperties
<1>2. /\ u \in Seq(S) /\ DOMAIN u = 1 .. Len(s) + Len(t)
      /\ \A i \in 1 .. Len(s) + Len(t) : u[i] = IF i <= Len(s) THEN s[i] ELSE t[i - Len(s)]
  BY <1>1, ConcatProperties, LenProperties
<1> HIDE DEF u
<1>3. /\ \A i \in DOMAIN s : i \in DOMAIN u /\ u[i] = s[i]
      /\ \A i \in DOMAIN t : i + Len(s) \in DOMAIN u /\ u[i + Len(s)] = t[i]
  BY <1>1, <1>2
<1>4. \A i \in DOMAIN u : \/ i \in DOMAIN s /\ u[i] = s[i]
                          \/ i - Len(s) \in DOMAIN t /\ u[i] = t[i - Len(s)]
  BY <1>1, <1>2
<1>5. Range(u) = Range(s) \cup Range(t)
  BY <1>3, <1>4 DEF Range
<1>6. ASSUME IsInjective(u)
      PROVE  IsInjective(s) /\ IsInjective(t) /\ Range(s) \cap Range(t) = {}
  <2>1. IsInjective(s)
    BY <1>3, <1>6 DEF IsInjective
  <2>2. IsInjective(t)
    BY <1>1, <1>3, <1>6 DEF IsInjective
  <2>3. ASSUME NEW i \in DOMAIN s, NEW j \in DOMAIN t, s[i] = t[j] PROVE FALSE
    <3>1. i = j + Len(s)
      BY <1>3, <1>6, <2>3 DEF IsInjective
    <3>2. QED
      BY <1>1, <3>1
  <2>4. QED
    BY <2>1, <2>2, <2>3 DEF Range
<1>7. ASSUME IsInjective(s), IsInjective(t), Range(s) \cap Range(t) = {},
             NEW i \in DOMAIN u, NEW j \in DOMAIN u, u[i] = u[j]
      PROVE  i = j
  <2>1. ASSUME NEW k \in DOMAIN s, NEW l \in DOMAIN t PROVE s[k] # t[l]
    BY <1>7 DEF Range
  <2>2. CASE i \in DOMAIN s /\ u[i] = s[i] /\ j \in DOMAIN s /\ u[j] = s[j]
    BY <1>7, <2>2 DEF IsInjective
  <2>3. CASE /\ i - Len(s) \in DOMAIN t /\ u[i] = t[i - Len(s)]
             /\ j - Len(s) \in DOMAIN t /\ u[j] = t[j - Len(s)]
    <3>1. i - Len(s) = j - Len(s)
      BY <1>7, <2>3 DEF IsInjective
    <3>2. QED
      BY <1>1, <1>2, <3>1
  <2>4. QED
    BY <1>4, <1>7, <2>1, <2>2, <2>3
<1>8. QED
  BY <1>2, <1>5, <1>6, <1>7 DEF u, IsInjective

\* A list of one.
LEMMA Single ==
  ASSUME NEW S, NEW x \in S
  PROVE  <<x>> \in Seq(S) /\ Range(<<x>>) = {x} /\ IsInjective(<<x>>)
BY DEF Range, IsInjective

LEMMA Nobody == ASSUME NEW S PROVE <<>> \in Seq(S) /\ Range(<<>>) = {} /\ IsInjective(<<>>)
BY DEF Range, IsInjective

\* A list is what comes before a place, what is there, and what comes after.
LEMMA Split ==
  ASSUME NEW S, NEW s \in Seq(S), NEW k \in 1 .. Len(s)
  PROVE  /\ SubSeq(s, 1, k - 1) \in Seq(S) /\ Len(SubSeq(s, 1, k - 1)) = k - 1
         /\ SubSeq(s, k + 1, Len(s)) \in Seq(S)
         /\ Len(SubSeq(s, k + 1, Len(s))) = Len(s) - k
         /\ s[k] \in S
         /\ s = (SubSeq(s, 1, k - 1) \o <<s[k]>>) \o SubSeq(s, k + 1, Len(s))
<1> DEFINE a == SubSeq(s, 1, k - 1)
           b == SubSeq(s, k + 1, Len(s))
           x == s[k]
<1>1. k \in Nat /\ k >= 1 /\ k <= Len(s) /\ Len(s) \in Nat
      /\ \A i \in 1 .. Len(s) : s[i] \in S
  BY ElementOfSeq
<1>2. a \in Seq(S) /\ Len(a) = k - 1 /\ \A i \in 1 .. k - 1 : a[i] = s[i]
  <2>1. Len(a) = IF 1 <= k - 1 THEN (k - 1) - 1 + 1 ELSE 0
    BY <1>1, SubSeqProperties
  <2>2. a \in Seq(S) /\ \A i \in 1 .. (k - 1) - 1 + 1 : a[i] = s[1 + i - 1]
    BY <1>1, SubSeqProperties
  <2>3. QED
    BY <1>1, <2>1, <2>2
<1>3. b \in Seq(S) /\ Len(b) = Len(s) - k /\ \A i \in 1 .. Len(s) - k : b[i] = s[i + k]
  <2>1. Len(b) = IF k + 1 <= Len(s) THEN Len(s) - (k + 1) + 1 ELSE 0
    BY <1>1, SubSeqProperties
  <2>2. b \in Seq(S) /\ \A i \in 1 .. Len(s) - (k + 1) + 1 : b[i] = s[(k + 1) + i - 1]
    BY <1>1, SubSeqProperties
  <2>3. QED
    BY <1>1, <2>1, <2>2
<1>4. x \in S
  BY <1>1
<1> HIDE DEF a, b, x
<1>5. /\ a \o <<x>> \in Seq(S) /\ Len(a \o <<x>>) = k
      /\ \A i \in 1 .. k : (a \o <<x>>)[i] = s[i]
  BY <1>1, <1>2, <1>4, ConcatProperties DEF x
<1> DEFINE c == a \o <<x>>
<1> HIDE DEF c
<1>6. /\ c \o b \in Seq(S) /\ Len(c \o b) = Len(s)
      /\ \A i \in 1 .. Len(s) : (c \o b)[i] = IF i <= k THEN c[i] ELSE b[i - k]
  BY <1>1, <1>3, <1>5, ConcatProperties DEF c
<1>7. ASSUME NEW i \in 1 .. Len(s) PROVE (c \o b)[i] = s[i]
  <2>1. CASE i <= k
    BY <1>1, <1>5, <1>6, <2>1 DEF c
  <2>2. CASE i > k
    <3>1. i - k \in 1 .. Len(s) - k /\ (i - k) + k = i
      BY <1>1, <2>2
    <3>2. QED
      BY <1>1, <1>3, <1>6, <2>2, <3>1
  <2>3. i <= k \/ i > k
    BY <1>1
  <2>4. QED
    BY <2>1, <2>2, <2>3
<1>8. s = c \o b
  BY <1>6, <1>7, SeqEqual
<1>9. QED
  BY <1>2, <1>3, <1>4, <1>8 DEF a, b, c, x

\* What RemoveAt leaves of a list without repetitions.
LEMMA Removed ==
  ASSUME NEW S, NEW s \in Seq(S), NEW k \in 1 .. Len(s), IsInjective(s)
  PROVE  /\ RemoveAt(s, k) \in Seq(S)
         /\ Len(RemoveAt(s, k)) = Len(s) - 1
         /\ IsInjective(RemoveAt(s, k))
         /\ s[k] \in S /\ s[k] \in Range(s)
         /\ Range(RemoveAt(s, k)) = Range(s) \ {s[k]}
<1> DEFINE a == SubSeq(s, 1, k - 1)
           b == SubSeq(s, k + 1, Len(s))
           x == s[k]
<1>1. /\ a \in Seq(S) /\ Len(a) = k - 1 /\ b \in Seq(S) /\ Len(b) = Len(s) - k
      /\ x \in S /\ s = (a \o <<x>>) \o b /\ Len(s) \in Nat
  BY Split, LenProperties
<1>2. RemoveAt(s, k) = a \o b
  BY DEF RemoveAt
<1> HIDE DEF a, b, x
<1>3. <<x>> \in Seq(S) /\ Range(<<x>>) = {x} /\ IsInjective(<<x>>)
  BY <1>1, Single
<1>4. /\ a \o <<x>> \in Seq(S)
      /\ Range(a \o <<x>>) = Range(a) \cup {x}
      /\ IsInjective(a \o <<x>>) => IsInjective(a) /\ Range(a) \cap {x} = {}
  BY <1>1, <1>3, Joined
<1>5. /\ Range(s) = Range(a) \cup {x} \cup Range(b)
      /\ IsInjective(a \o <<x>>) /\ IsInjective(b)
      /\ (Range(a) \cup {x}) \cap Range(b) = {}
  <2> DEFINE c == a \o <<x>>
  <2> HIDE DEF c
  <2>1. /\ Range(c \o b) = Range(c) \cup Range(b)
        /\ IsInjective(c \o b) =>
              IsInjective(c) /\ IsInjective(b) /\ Range(c) \cap Range(b) = {}
    BY <1>1, <1>4, Joined DEF c
  <2>2. s = c \o b
    BY <1>1 DEF c
  <2>3. QED
    BY <1>4, <2>1, <2>2 DEF c
<1>6. /\ a \o b \in Seq(S) /\ Range(a \o b) = Range(a) \cup Range(b)
      /\ IsInjective(a \o b)
  BY <1>1, <1>4, <1>5, Joined
<1>7. Len(a \o b) = Len(s) - 1
  BY <1>1, ConcatProperties
<1>8. QED
  BY <1>1, <1>2, <1>4, <1>5, <1>6, <1>7 DEF x

-----------------------------------------------------------------------------
(* Ages.                                                                   *)
LEMMA RankedType ==
  ASSUME NEW a \in [UNION Times -> Nat]
  PROVE  Ranked(a) \in [UNION Times -> Nat]
<1> DEFINE Group(k) == CHOOSE g \in Times : k \in g
           Later(k) == {v \in {0} \cup {a[j] : j \in Group(k)} : v < a[k]}
<1>1. ASSUME NEW k \in UNION Times PROVE Cardinality(Later(k)) \in Nat
  <2>1. Group(k) \in Times
    OBVIOUS
  <2>2. \A j \in Group(k) : a[j] \in Nat
    BY <2>1
  <2>3. a[k] \in Nat
    OBVIOUS
  <2>4. Later(k) \subseteq 0 .. a[k]
    BY <2>2, <2>3
  <2>5. IsFiniteSet(0 .. a[k])
    BY <2>3, FS_Interval
  <2>6. QED
    BY <2>4, <2>5, FS_Subset, FS_CardinalityType
<1>2. Ranked(a) = [k \in UNION Times |-> Cardinality(Later(k))]
  BY DEF Ranked
<1> HIDE DEF Later
<1>3. QED
  BY <1>1, <1>2

\* The clock of a kind of event is set to now.
LEMMA StampType ==
  ASSUME NEW a \in [UNION Times -> Nat], NEW k PROVE Stamp(a, k) \in [UNION Times -> Nat]
<1>1. [a EXCEPT ![k] = 0] \in [UNION Times -> Nat]
  OBVIOUS
<1>2. QED
  BY <1>1, RankedType DEF Stamp

-----------------------------------------------------------------------------
(* The steps.                                                              *)
LEMMA InitIInv == Init => IInv
<1> SUFFICES ASSUME Init PROVE IInv
  OBVIOUS
<1> USE DEF Init
<1>1. /\ active \in Seq(Items) /\ Range(active) = {} /\ IsInjective(active)
      /\ inactive = active /\ inserted = active
  BY Nobody
<1>2. TypeOK
  <2>1. age \in [UNION Times -> Nat]
    OBVIOUS
  <2>2. work \in [Items -> 0 .. MaxWork] /\ usage \in [Items -> Nat]
    BY MaxWorkAssumption
  <2>3. pushing \in [Pushers -> {"idle", "look", "store"}]
    OBVIOUS
  <2>4. QED
    BY <1>1, <2>1, <2>2, <2>3 DEF TypeOK
<1>3. Lists /\ Counts
  BY <1>1 DEF Lists, Counts, Listed
<1>4. Place
  BY DEF Place
<1>5. QED
  BY <1>2, <1>3, <1>4 DEF IInv

\* Steps that leave the lists and the thread alone: those of other threads,
\* but AddItem's.
LEMMA OthersStep ==
  ASSUME IInv, UNCHANGED <<thread, inserted>>, TypeOK',
         \A i \in Items : work'[i] >= work[i],
         \A i \in Items : usage'[i] = usage[i] \/ (usage[i] = 0 /\ usage'[i] = 1)
  PROVE  IInv'
<1> USE DEF IInv, thread
<1>1. Lists'
  BY DEF Lists
<1>2. Counts'
  <2>1. Listed' = Listed /\ Listed \subseteq Items
    BY RangeOfSeq DEF TypeOK, Listed
  <2>2. QED
    BY <2>1 DEF Counts, TypeOK
<1>3. Place'
  <2>1. ASSUME pc = "send" PROVE active[it] \in Items
    BY <2>1, ElementOfSeq DEF Place, TypeOK
  <2>2. QED
    BY <2>1 DEF Place, TypeOK
<1>4. QED
  BY <1>1, <1>2, <1>3

LEMMA OtherThreads ==
  ASSUME IInv,
         \/ Tick \/ Stop \/ (\E i \in Items : AddUsage(i) \/ Close(i))
         \/ \E p \in Pushers : Pusher(p)
  PROVE  IInv'
<1>0. TypeOK /\ Listed \subseteq Items
  BY RangeOfSeq DEF IInv, TypeOK, Listed
<1> USE DEF thread
<1>1. CASE Tick
  <2>1. DOMAIN age = UNION Times /\ \A k \in UNION Times : age[k] + 1 \in Nat
    <3>1. age \in [UNION Times -> Nat]
      BY <1>0 DEF TypeOK
    <3>2. DOMAIN age = UNION Times
      BY <3>1
    <3>3. ASSUME NEW k \in UNION Times PROVE age[k] + 1 \in Nat
      <4>1. age[k] \in Nat
        BY <3>1
      <4>2. QED
        BY <4>1
    <3>4. QED
      BY <3>2, <3>3
  <2>2. [k \in DOMAIN age |-> age[k] + 1] \in [UNION Times -> Nat]
    <3> DEFINE T == UNION Times
               Older(k) == age[k] + 1
    <3>1. DOMAIN age = T /\ \A k \in T : Older(k) \in Nat
      BY <2>1
    <3> HIDE DEF T, Older
    <3>2. [k \in DOMAIN age |-> Older(k)] \in [T -> Nat]
      BY <3>1
    <3>3. QED
      BY <3>2 DEF T, Older
  <2>3. age' \in [UNION Times -> Nat]
    BY <1>1, <2>2, RankedType DEF Tick
  <2>4. UNCHANGED <<thread, inserted, usage, closed, work, pushing, stop>>
    BY <1>1 DEF Tick
  <2>5. TypeOK'
    BY <1>0, <2>3, <2>4 DEF TypeOK
  <2>6. QED
    BY <1>0, <2>4, <2>5, OthersStep DEF TypeOK
<1>2. CASE Stop
  <2>1. TypeOK'
    BY <1>0, <1>2 DEF Stop, TypeOK
  <2>2. QED
    BY <1>0, <1>2, <2>1, OthersStep DEF Stop, TypeOK
<1>3. ASSUME NEW i \in Items, AddUsage(i) PROVE IInv'
  <2>1. TypeOK'
    BY <1>0, <1>3 DEF AddUsage, TypeOK
  <2>2. QED
    BY <1>0, <1>3, <2>1, OthersStep DEF AddUsage, TypeOK
<1>4. ASSUME NEW i \in Items, Close(i) PROVE IInv'
  <2>1. TypeOK'
    BY <1>0, <1>4 DEF Close, TypeOK
  <2>2. QED
    BY <1>0, <1>4, <2>1, OthersStep DEF Close, TypeOK
<1>5. ASSUME NEW p \in Pushers, NEW S \in SUBSET (Listed \ closed), Push(p, S) PROVE IInv'
  <2>1. /\ work' \in [Items -> 0 .. MaxWork]
        /\ \A i \in Items : work'[i] >= work[i]
    BY <1>0, <1>5, MaxWorkAssumption DEF Push, TypeOK
  <2>2. TypeOK'
    BY <1>0, <1>5, <2>1 DEF Push, TypeOK
  <2>3. QED
    BY <1>0, <1>5, <2>1, <2>2, OthersStep DEF Push, TypeOK
<1>6. ASSUME NEW p \in Pushers, ReshuffleLook(p) PROVE IInv'
  <2>1. TypeOK'
    BY <1>0, <1>6, StampType DEF ReshuffleLook, TypeOK
  <2>2. QED
    BY <1>0, <1>6, <2>1, OthersStep DEF ReshuffleLook, TypeOK
<1>7. ASSUME NEW p \in Pushers, ReshuffleStore(p) PROVE IInv'
  <2>1. age[p] \in Nat
    BY <1>0 DEF TypeOK, Times
  <2>2. [age EXCEPT !["lastQueueChange"] = age[p]] \in [UNION Times -> Nat]
    BY <1>0, <2>1 DEF TypeOK
  <2>3. age' \in [UNION Times -> Nat]
    BY <1>7, <2>2, RankedType DEF ReshuffleStore
  <2>4. /\ UNCHANGED <<thread, inserted, usage, closed, work, stop>>
        /\ pushing' = [pushing EXCEPT ![p] = "idle"]
    BY <1>7 DEF ReshuffleStore
  <2>5. TypeOK'
    BY <1>0, <2>3, <2>4 DEF TypeOK
  <2>6. QED
    BY <1>0, <2>4, <2>5, OthersStep DEF TypeOK
<1>8. QED
  BY <1>1, <1>2, <1>3, <1>4, <1>5, <1>6, <1>7 DEF Pusher

\* AddItem puts a connection that is in no list into the first.
LEMMA AddItemStep == ASSUME IInv, NEW i \in Items, AddItem(i) PROVE IInv'
<1> USE DEF IInv, AddItem, thread
<1>1. /\ inserted' \in Seq(Items) /\ Range(inserted') = Range(inserted) \cup {i}
      /\ IsInjective(inserted')
  <2>1. inserted' = inserted \o <<i>>
    BY AppendIsConcat DEF TypeOK
  <2>2. /\ <<i>> \in Seq(Items) /\ Range(<<i>>) = {i} /\ IsInjective(<<i>>)
        /\ i \notin Range(inserted)
    BY Single DEF Listed
  <2>3. inserted \in Seq(Items) /\ IsInjective(inserted) /\ Range(inserted) \cap {i} = {}
    BY <2>2 DEF TypeOK, Lists
  <2> HIDE DEF IInv, AddItem
  <2>4. /\ inserted \o <<i>> \in Seq(Items)
        /\ Range(inserted \o <<i>>) = Range(inserted) \cup Range(<<i>>)
        /\ IsInjective(inserted \o <<i>>) <=>
              IsInjective(inserted) /\ IsInjective(<<i>>) /\ Range(inserted) \cap Range(<<i>>) = {}
    BY <2>2, <2>3, Joined
  <2>5. QED
    BY <2>1, <2>2, <2>3, <2>4
<1>2. TypeOK'
  BY <1>1, StampType DEF TypeOK
<1>3. Lists'
  BY <1>1 DEF Lists, Listed
<1>4. Counts'
  BY <1>1 DEF Counts, Listed
<1>5. Place'
  BY DEF Place
<1>6. QED
  BY <1>2, <1>3, <1>4, <1>5

\* The two merges keep the lists, and grow the active one.
LEMMA MergeNewStep ==
  ASSUME IInv, MergeNew, UNCHANGED <<inactive, usage>>
  PROVE  /\ active' \in Seq(Items) /\ inserted' \in Seq(Items)
         /\ age' \in [UNION Times -> Nat]
         /\ Lists' /\ Listed' = Listed
         /\ active = <<>> /\ ~(NewItems /\ inserted # <<>>) => active' = <<>>
<1> USE DEF IInv
<1>1. CASE NewItems
  <2>1. /\ active' = active \o inserted /\ inserted' = <<>>
        /\ age' = Stamp(age, "lastAddedItemsSyncTime")
    BY <1>1 DEF MergeNew
  <2>2. /\ active' \in Seq(Items) /\ IsInjective(active')
        /\ Range(active') = Range(active) \cup Range(inserted)
    BY <2>1, Joined DEF TypeOK, Lists
  <2>3. inserted' \in Seq(Items) /\ Range(inserted') = {} /\ IsInjective(inserted')
    BY <2>1, Nobody
  <2>4. Lists' /\ Listed' = Listed
    BY <2>2, <2>3 DEF Lists, Listed
  <2>5. active = <<>> /\ inserted = <<>> => active' = <<>>
    BY <2>1
  <2>6. age' \in [UNION Times -> Nat]
    BY <2>1, StampType DEF TypeOK
  <2>7. QED
    BY <1>1, <2>2, <2>3, <2>4, <2>5, <2>6
<1>2. CASE ~NewItems
  BY <1>2 DEF MergeNew, TypeOK, Lists, Listed
<1>3. QED
  BY <1>1, <1>2

LEMMA MergeInactiveStep ==
  ASSUME IInv, MergeInactive, UNCHANGED <<inserted, usage>>
  PROVE  /\ active' \in Seq(Items) /\ inactive' \in Seq(Items)
         /\ Lists' /\ Listed' = Listed
<1> USE DEF IInv
<1>1. CASE QueueChanged
  <2>1. active' = active \o inactive /\ inactive' = <<>>
    BY <1>1 DEF MergeInactive
  <2>2. /\ active' \in Seq(Items) /\ IsInjective(active')
        /\ Range(active') = Range(active) \cup Range(inactive)
    BY <2>1, Joined DEF TypeOK, Lists
  <2>3. inactive' \in Seq(Items) /\ Range(inactive') = {} /\ IsInjective(inactive')
    BY <2>1, Nobody
  <2>4. QED
    BY <2>2, <2>3 DEF Lists, Listed
<1>2. CASE ~QueueChanged
  BY <1>2 DEF MergeInactive, TypeOK, Lists, Listed
<1>3. QED
  BY <1>1, <1>2

\* A list that is not empty has a first place.
LEMMA FirstPlace == ASSUME NEW S, NEW s \in Seq(S), s # <<>> PROVE 1 \in 1 .. Len(s)
BY EmptySeq, LenProperties

\* The steps of the thread that merge.
LEMMA MergeSteps == ASSUME IInv, While \/ Inactive \/ EndNew \/ EndInactive PROVE IInv'
<1>0. TypeOK /\ Lists /\ Counts /\ Place
  BY DEF IInv
<1>1. CASE While /\ stop
  <2>1. Lists' /\ Counts'
    BY <1>0, <1>1 DEF While, Lists, Counts, Listed
  <2>2. TypeOK' /\ Place'
    BY <1>0, <1>1 DEF While, TypeOK, Place
  <2>3. QED
    BY <2>1, <2>2 DEF IInv
<1>2. CASE While /\ ~stop
  <2>1. /\ active' \in Seq(Items) /\ inserted' \in Seq(Items)
        /\ age' \in [UNION Times -> Nat] /\ Lists' /\ Listed' = Listed
    BY <1>2, MergeNewStep DEF While
  <2>2. TypeOK'
    BY <1>0, <1>2, <2>1 DEF While, TypeOK
  <2>3. Counts'
    BY <1>0, <1>2, <2>1 DEF While, Counts
  <2>4. it' = 1 /\ pc' \in {"process", "inactive"}
    BY <1>2 DEF While
  <2>5. Place'
    BY <2>1, <2>4, FirstPlace DEF Place
  <2>6. QED
    BY <2>1, <2>2, <2>3, <2>5 DEF IInv
<1>3. CASE Inactive
  <2>1. /\ active' \in Seq(Items) /\ inactive' \in Seq(Items)
        /\ Lists' /\ Listed' = Listed
    BY <1>3, MergeInactiveStep DEF Inactive
  <2>2. TypeOK'
    BY <1>0, <1>3, <2>1 DEF Inactive, TypeOK
  <2>3. Counts'
    BY <1>0, <1>3, <2>1 DEF Inactive, Counts
  <2>4. it' = 1 /\ pc' \in {"process", "while"}
    BY <1>0, <1>3 DEF Inactive, Place
  <2>5. Place'
    BY <2>1, <2>4, FirstPlace DEF Place
  <2>6. QED
    BY <2>1, <2>2, <2>3, <2>5 DEF IInv
<1>4. CASE EndNew
  <2>1. /\ active' \in Seq(Items) /\ inserted' \in Seq(Items)
        /\ age' \in [UNION Times -> Nat] /\ Lists' /\ Listed' = Listed
    BY <1>4, MergeNewStep DEF EndNew
  <2>2. TypeOK'
    BY <1>0, <1>4, <2>1 DEF EndNew, TypeOK
  <2>3. Counts' /\ Place'
    BY <1>0, <1>4, <2>1 DEF EndNew, Counts, Place
  <2>4. QED
    BY <2>1, <2>2, <2>3 DEF IInv
<1>5. CASE EndInactive
  <2>1. /\ active' \in Seq(Items) /\ inactive' \in Seq(Items)
        /\ Lists' /\ Listed' = Listed
    BY <1>5, MergeInactiveStep DEF EndInactive
  <2>2. TypeOK'
    BY <1>0, <1>5, <2>1 DEF EndInactive, TypeOK
  <2>3. Counts'
    BY <1>0, <1>5, <2>1 DEF EndInactive, Counts
  <2>4. it' = 1 /\ pc' = "process"
    BY <1>5 DEF EndInactive
  <2>5. Place'
    BY <2>1, <2>4, FirstPlace DEF Place
  <2>6. QED
    BY <2>1, <2>2, <2>3, <2>5 DEF IInv
<1>6. QED
  BY <1>1, <1>2, <1>3, <1>4, <1>5

\* Where the thread goes once it has taken a connection off its list.
LEMMA AfterPlace ==
  ASSUME NEW s \in Seq(Items), NEW n \in Nat \ {0}
  PROVE  After(s, n) = "end_new" \/ (After(s, n) = "process" /\ n \in 1 .. Len(s))
BY LenProperties DEF After

\* A closed connection is given back together with its reference.
LEMMA ProcessStep == ASSUME IInv, Process PROVE IInv'
<1>0. TypeOK /\ Lists /\ Counts /\ Place /\ pc = "process"
  BY DEF IInv, Process
<1>1. CASE active = <<>>
  <2>1. /\ UNCHANGED <<it, inactive, inserted, age, pushing, stop, active, usage, closed, work>>
        /\ pc' = "while"
    BY <1>1 DEF Process
  <2>2. TypeOK' /\ Lists' /\ Place'
    BY <1>0, <2>1 DEF TypeOK, Lists, Place
  <2>3. Counts'
    BY <1>0, <2>1 DEF Counts, Listed
  <2>4. QED
    BY <2>2, <2>3 DEF IInv
<1>2. CASE active # <<>>
  <2> DEFINE i == active[it]
             rest == RemoveAt(active, it)
  <2>1. it \in 1 .. Len(active) /\ it \in Nat \ {0} /\ active \in Seq(Items)
    BY <1>0, <1>2 DEF Place, TypeOK
  <2>2. /\ rest \in Seq(Items) /\ IsInjective(rest) /\ i \in Items
        /\ i \in Range(active) /\ Range(rest) = Range(active) \ {i}
    BY <1>0, <2>1, Removed DEF Lists
  <2>3. /\ i \in Listed /\ usage[i] = 1
        /\ i \notin Range(inactive) /\ i \notin Range(inserted)
    BY <1>0, <2>2 DEF Listed, Counts, Lists
  <2>4. CASE i \in closed
    <3>1. /\ usage' = [usage EXCEPT ![i] = @ - 1]
          /\ active' = rest
          /\ closed' = closed \ {i} /\ work' = [work EXCEPT ![i] = 0]
          /\ pc' = After(active', it)
          /\ UNCHANGED <<it, inactive, inserted, age, pushing, stop>>
      BY <1>2, <2>4 DEF Process
    <3> HIDE DEF i, rest
    <3>2. pc' = "end_new" \/ (pc' = "process" /\ it' \in 1 .. Len(active'))
      BY <2>1, <2>2, <3>1, AfterPlace
    <3>3. TypeOK'
      BY <1>0, <2>2, <2>3, <3>1, <3>2, MaxWorkAssumption DEF TypeOK
    <3>4. Lists'
      BY <1>0, <2>2, <3>1 DEF Lists
    <3>5. Listed' = Listed \ {i}
      BY <2>2, <2>3, <3>1 DEF Listed
    <3>6. usage'[i] = 0 /\ \A j \in Items : j # i => usage'[j] = usage[j]
      BY <1>0, <2>2, <2>3, <3>1 DEF TypeOK
    <3>7. Listed \subseteq Items
      BY <1>0, RangeOfSeq DEF Listed, TypeOK
    <3>8. Counts'
      BY <1>0, <3>5, <3>6, <3>7 DEF Counts
    <3>9. Place'
      BY <3>2 DEF Place
    <3>10. QED
      BY <3>3, <3>4, <3>8, <3>9 DEF IInv
  <2>5. CASE i \notin closed
    <3>1. /\ pc' = IF work[i] = 0 THEN "pause" ELSE "send"
          /\ UNCHANGED <<it, active, inactive, inserted, age, usage, closed, work, pushing, stop>>
      BY <1>2, <2>5 DEF Process
    <3>2. Lists' /\ Counts'
      BY <1>0, <3>1 DEF Lists, Counts, Listed
    <3>3. TypeOK'
      BY <1>0, <3>1 DEF TypeOK
    <3>4. pc' = "send" => work[i] > 0
      BY <1>0, <2>2, <3>1 DEF TypeOK
    <3>5. Place'
      BY <2>1, <3>1, <3>4 DEF Place
    <3>6. QED
      BY <3>2, <3>3, <3>5 DEF IInv
  <2>6. QED
    BY <2>4, <2>5
<1>3. QED
  BY <1>1, <1>2

\* A parked connection goes from one list to the other.
LEMMA PauseStep == ASSUME IInv, Pause PROVE IInv'
<1> DEFINE i == active[it]
           rest == RemoveAt(active, it)
<1>0. TypeOK /\ Lists /\ Counts /\ Place /\ pc = "pause"
  BY DEF IInv, Pause
<1>1. it \in 1 .. Len(active) /\ it \in Nat \ {0} /\ active \in Seq(Items)
  BY <1>0 DEF Place, TypeOK
<1>2. /\ rest \in Seq(Items) /\ IsInjective(rest) /\ i \in Items
      /\ i \in Range(active) /\ Range(rest) = Range(active) \ {i}
  BY <1>0, <1>1, Removed DEF Lists
<1>3. i \notin Range(inactive) /\ i \notin Range(inserted)
  BY <1>0, <1>2 DEF Lists
<1>4. /\ inactive' = Append(inactive, i) /\ active' = rest
      /\ age' = Stamp(age, "lastListChange") /\ pc' = After(active', it)
      /\ UNCHANGED <<it, inserted, usage, closed, work, pushing, stop>>
  BY DEF Pause
<1> HIDE DEF i, rest
<1>5. /\ inactive' \in Seq(Items) /\ Range(inactive') = Range(inactive) \cup {i}
      /\ IsInjective(inactive')
  <2>1. inactive \in Seq(Items) /\ IsInjective(inactive)
    BY <1>0 DEF TypeOK, Lists
  <2>2. inactive' = inactive \o <<i>>
    BY <1>2, <1>4, <2>1, AppendIsConcat
  <2>3. <<i>> \in Seq(Items) /\ Range(<<i>>) = {i} /\ IsInjective(<<i>>)
    BY <1>2, Single
  <2>4. /\ inactive \o <<i>> \in Seq(Items)
        /\ Range(inactive \o <<i>>) = Range(inactive) \cup Range(<<i>>)
        /\ IsInjective(inactive \o <<i>>) <=>
              IsInjective(inactive) /\ IsInjective(<<i>>) /\ Range(inactive) \cap Range(<<i>>) = {}
    BY <2>1, <2>3, Joined
  <2>5. QED
    BY <1>3, <2>1, <2>2, <2>3, <2>4
<1>6. pc' = "end_new" \/ (pc' = "process" /\ it' \in 1 .. Len(active'))
  BY <1>1, <1>2, <1>4, AfterPlace
<1>7. age' \in [UNION Times -> Nat]
  BY <1>0, <1>4, StampType DEF TypeOK
<1>8. TypeOK'
  BY <1>0, <1>2, <1>4, <1>5, <1>6, <1>7 DEF TypeOK
<1>9. Lists'
  BY <1>0, <1>2, <1>3, <1>4, <1>5 DEF Lists
<1>10. Listed' = Listed
  BY <1>2, <1>4, <1>5 DEF Listed
<1>11. Counts'
  BY <1>0, <1>4, <1>10 DEF Counts
<1>12. Place'
  BY <1>6 DEF Place
<1>13. QED
  BY <1>8, <1>9, <1>11, <1>12 DEF IInv

\* A packet is sent only if there is one.
LEMMA SendStep == ASSUME IInv, NEW success \in BOOLEAN, Send(success) PROVE IInv'
<1> DEFINE i == active[it]
<1>0. TypeOK /\ Lists /\ Counts /\ Place /\ pc = "send"
  BY DEF IInv, Send
<1>1. it \in 1 .. Len(active) /\ it + 1 \in Nat \ {0} /\ active \in Seq(Items) /\ work[i] > 0
  BY <1>0 DEF Place, TypeOK
<1>2. i \in Items /\ work[i] - 1 \in 0 .. MaxWork
  <2>1. i \in Items
    BY <1>1, ElementOfSeq
  <2>2. QED
    BY <1>0, <1>1, <2>1, MaxWorkAssumption DEF TypeOK
<1>3. /\ work' = IF success THEN [work EXCEPT ![i] = @ - 1] ELSE work
      /\ it' = it + 1 /\ pc' = After(active, it + 1)
      /\ UNCHANGED <<active, inactive, inserted, age, usage, closed, pushing, stop>>
  BY DEF Send
<1> HIDE DEF i
<1>4. pc' = "end_new" \/ (pc' = "process" /\ it' \in 1 .. Len(active'))
  BY <1>1, <1>3, AfterPlace
<1>5. work' \in [Items -> 0 .. MaxWork]
  BY <1>0, <1>2, <1>3 DEF TypeOK
<1>6. TypeOK'
  BY <1>0, <1>1, <1>3, <1>4, <1>5 DEF TypeOK
<1>7. Lists' /\ Counts'
  BY <1>0, <1>3 DEF Lists, Counts, Listed
<1>8. Place'
  BY <1>4 DEF Place
<1>9. QED
  BY <1>6, <1>7, <1>8 DEF IInv

\* Every step keeps the invariant.
LEMMA NextIInv == IInv /\ [Next]_vars => IInv'
<1> SUFFICES ASSUME IInv, [Next]_vars PROVE IInv'
  OBVIOUS
<1>1. CASE UNCHANGED vars
  BY <1>1 DEF IInv, TypeOK, Lists, Counts, Listed, Place, vars, thread
<1>2. CASE \/ Tick \/ Stop \/ (\E i \in Items : AddUsage(i) \/ Close(i))
           \/ \E p \in Pushers : Pusher(p)
  BY <1>2, OtherThreads
<1>3. CASE Add
  BY <1>3, AddItemStep DEF Add
<1>4. CASE Worker
  BY <1>4, MergeSteps, ProcessStep, PauseStep, SendStep DEF Worker
<1>5. QED
  BY <1>1, <1>2, <1>3, <1>4 DEF Next

LEMMA Invariance == Spec => []IInv
  BY InitIInv, NextIInv, PTL DEF Spec

\* The invariant says what HoldsWhatItLists does of the three lists as one.
LEMMA Implies == IInv => HoldsWhatItLists
<1> SUFFICES ASSUME IInv PROVE HoldsWhatItLists
  OBVIOUS
<1>1. TypeOK /\ Lists /\ Counts
  BY DEF IInv
<1>2. /\ active \o inactive \in Seq(Items) /\ IsInjective(active \o inactive)
      /\ Range(active \o inactive) = Range(active) \cup Range(inactive)
  BY <1>1, Joined DEF TypeOK, Lists
<1>3. (Range(active) \cup Range(inactive)) \cap Range(inserted) = {}
  BY <1>1 DEF Lists
<1>4. IsInjective((active \o inactive) \o inserted)
  BY <1>1, <1>2, <1>3, Joined DEF TypeOK, Lists
<1>5. QED
  BY <1>1, <1>4 DEF HoldsWhatItLists, Counts

-----------------------------------------------------------------------------
(* Every variable keeps its type: no reference is given back twice, and a  *)
(* packet is taken off a queue only if there is one, as ProcessActiveList  *)
(* is still at the connection it has looked at (AbstractDistributor.cpp).  *)
THEOREM TypeCorrect == Spec => []TypeOK
<1>1. IInv => TypeOK
  BY DEF IInv
<1>2. QED
  BY Invariance, <1>1, PTL

(* However clients come, are parked, brought back and closed, the streamer *)
(* has exactly one reference on each connection in its lists, and none on  *)
(* any other (AddItem and ProcessItem of BroadcastStreamer.cpp).           *)
THEOREM OneReferenceEach == Spec => []HoldsWhatItLists
  BY Invariance, Implies, PTL
=============================================================================
