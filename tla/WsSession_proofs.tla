-------------------------- MODULE WsSession_proofs --------------------------
(***************************************************************************)
(* The session of one connection, for any clients: any requests, any       *)
(* number of messages of any types, any subprotocol, any cuts.             *)
(*                                                                         *)
(* The inductive invariant SessionInv cuts the stream in three: what left  *)
(* the cache, what is in it and what is in mpRecvBuffer (Segments).  From  *)
(* some place on (FlowFrom) the data messages that left the cache are      *)
(* those echoed, leaked and in hand, in order; a connection either echoes  *)
(* or leaks (OneOutcome), and none of this starts before the connection    *)
(* speaks frames, when a client that waits has sent none (BeforeFrames).   *)
(* Ids and Echoes join lists with FlattenSeq, so the first part is about   *)
(* that: what joining says of a list that grows, by an induction over the  *)
(* indices (UpTo).                                                         *)
(***************************************************************************)
EXTENDS WsSession, SequenceTheorems, WellFoundedInduction, TLAPS

-----------------------------------------------------------------------------
(* Lists of lists, joined. *)

\* Induction up to a number, for a property given as a set.
LEMMA UpTo ==
  ASSUME NEW n \in Nat, NEW T, 0 \in T,
         \A i \in 0 .. n - 1 : i \in T => i + 1 \in T
  PROVE  \A i \in 0 .. n : i \in T
<1> DEFINE Below == {ss \in Nat \X Nat : ss[1] < ss[2]}
           S == {i \in 0 .. n : i \notin T}
<1>1. IsWellFoundedOn(Below, Nat)
  BY NatLessThanWellFounded DEF OpToRel
<1> HIDE DEF Below
<1>2. SUFFICES ASSUME S # {} PROVE FALSE
  OBVIOUS
<1>3. S \subseteq Nat
  OBVIOUS
<1>4. PICK x \in S : \A y \in S : ~ (<<y, x>> \in Below)
  BY <1>1, <1>2, <1>3, WFMin
<1>5. x \in 0 .. n /\ x \notin T /\ x # 0
  OBVIOUS
<1>6. x - 1 \in 0 .. n - 1 /\ x - 1 \in Nat /\ x \in Nat /\ x - 1 < x /\ (x - 1) + 1 = x
  BY <1>5
<1>7. x - 1 \in T
  <2>1. <<x - 1, x>> \in Below
    BY <1>6 DEF Below
  <2> QED BY <1>4, <1>6, <2>1
<1> QED BY <1>5, <1>6, <1>7

\* The lists joined so far.
LEMMA FlattenSteps ==
  ASSUME NEW S, NEW seqs \in Seq(Seq(S))
  PROVE  \E f \in [0 .. Len(seqs) -> Seq(S)] :
            /\ f[0] = <<>> /\ FlattenSeq(seqs) = f[Len(seqs)]
            /\ \A i \in 1 .. Len(seqs) : f[i] = f[i - 1] \o seqs[i]
<1> DEFINE N == Len(seqs)
           Joins(n, f) == /\ f \in [1 .. n -> Seq(S)]
                          /\ \A i \in 1 .. n : f[i] = IF i = 1 THEN seqs[i] ELSE f[i - 1] \o seqs[i]
           T == {n \in 0 .. N : \E f : Joins(n, f)}
<1>1. N \in Nat /\ \A i \in 1 .. N : seqs[i] \in Seq(S)
  OBVIOUS
<1>2. 0 \in T
  <2> DEFINE h == [i \in 1 .. 0 |-> <<>>]
  <2>1. h \in [1 .. 0 -> Seq(S)] /\ 1 .. 0 = {}
    OBVIOUS
  <2> HIDE DEF h
  <2>2. Joins(0, h)
    BY <2>1
  <2>3. \E f : Joins(0, f)
    BY <2>2
  <2>4. 0 \in 0 .. N
    BY <1>1
  <2> HIDE DEF Joins
  <2> QED BY <2>3, <2>4
<1>3. ASSUME NEW n \in 0 .. N - 1, n \in T PROVE n + 1 \in T
  <2>1. PICK f : Joins(n, f)
    BY <1>3
  <2> DEFINE e == IF n = 0 THEN seqs[1] ELSE f[n] \o seqs[n + 1]
             g == [i \in 1 .. n + 1 |-> IF i <= n THEN f[i] ELSE e]
  <2>2. n \in Nat /\ n + 1 \in 0 .. N /\ n + 1 \in 1 .. N
    BY <1>1
  <2>3. e \in Seq(S)
    BY <1>1, <2>1, <2>2
  <2>4. g \in [1 .. n + 1 -> Seq(S)]
    BY <2>1, <2>2, <2>3
  <2>5. ASSUME NEW i \in 1 .. n + 1 PROVE g[i] = IF i = 1 THEN seqs[i] ELSE g[i - 1] \o seqs[i]
    <3>1. CASE i <= n
      <4>1. i \in 1 .. n /\ g[i] = f[i] /\ (i # 1 => i - 1 \in 1 .. n + 1 /\ i - 1 <= n)
        BY <2>2, <3>1
      <4>2. i # 1 => g[i - 1] = f[i - 1]
        BY <4>1
      <4> QED BY <2>1, <4>1, <4>2
    <3>2. CASE i = n + 1
      <4>1. g[i] = e
        BY <2>2, <3>2
      <4>2. i # 1 => n # 0 /\ i - 1 = n /\ n \in 1 .. n + 1
        BY <2>2, <3>2
      <4>3. i # 1 => g[i - 1] = f[n]
        BY <4>2
      <4>4. i = 1 => n = 0
        BY <2>2, <3>2
      <4> QED BY <3>2, <4>1, <4>2, <4>3, <4>4
    <3> QED BY <2>2, <3>1, <3>2
  <2>6. Joins(n + 1, g)
    BY <2>4, <2>5
  <2> QED BY <2>2, <2>6
<1>4. N \in T
  <2> HIDE DEF T
  <2>1. \A i \in 0 .. N : i \in T
    BY <1>1, <1>2, <1>3, UpTo
  <2> QED BY <1>1, <2>1
<1>5. PICK f : Joins(N, f)
  BY <1>4
<1> DEFINE Body(h) == [i \in 1 .. N |-> IF i = 1 THEN seqs[i] ELSE h[i - 1] \o seqs[i]]
           c == CHOOSE h : h = Body(h)
<1>6. f = Body(f)
  BY <1>5
<1>7. c = Body(c)
  BY <1>6
<1>8. N # 0 => FlattenSeq(seqs) = c[N]
  BY DEF FlattenSeq
<1> HIDE DEF c
<1>9. Joins(N, c)
  <2>1. c = [i \in 1 .. N |-> IF i = 1 THEN seqs[i] ELSE c[i - 1] \o seqs[i]]
    BY <1>7
  <2>2. \A i \in 1 .. N : c[i] = IF i = 1 THEN seqs[i] ELSE c[i - 1] \o seqs[i]
    BY <2>1
  <2> DEFINE U == {n \in 0 .. N : \A i \in 1 .. n : c[i] \in Seq(S)}
  <2>3. 0 \in U
    BY <1>1
  <2>4. ASSUME NEW n \in 0 .. N - 1, n \in U PROVE n + 1 \in U
    <3>1. n \in Nat /\ n + 1 \in 1 .. N
      BY <1>1
    <3>2. n # 0 => n \in 1 .. n
      BY <3>1
    <3>3. n # 0 => c[n] \in Seq(S)
      BY <2>4, <3>2
    <3>4. (n + 1 = 1 <=> n = 0) /\ (n + 1) - 1 = n
      BY <3>1
    <3>5. c[n + 1] \in Seq(S)
      <4> DEFINE e == seqs[n + 1]
                 b == c[n]
      <4>1. e \in Seq(S) /\ c[n + 1] = IF n = 0 THEN e ELSE b \o e
        BY <1>1, <2>2, <3>1, <3>4
      <4>2. n # 0 => b \in Seq(S)
        BY <3>3
      <4> HIDE DEF e, b
      <4> QED BY <4>1, <4>2, ConcatProperties
    <3>6. \A i \in 1 .. n + 1 : i \in 1 .. n \/ i = n + 1
      BY <3>1
    <3> QED BY <2>4, <3>1, <3>5, <3>6
  <2>5. N \in U
    <3> HIDE DEF U
    <3>1. \A i \in 0 .. N : i \in U
      BY <1>1, <2>3, <2>4, UpTo
    <3> QED BY <1>1, <3>1
  <2>6. c \in [1 .. N -> Seq(S)]
    BY <2>1, <2>5
  <2> QED BY <2>2, <2>6
<1> DEFINE f0 == [i \in 0 .. N |-> IF i = 0 THEN <<>> ELSE c[i]]
<1>10. f0 \in [0 .. N -> Seq(S)] /\ f0[0] = <<>>
  BY <1>1, <1>9
<1>11. ASSUME NEW i \in 1 .. N PROVE f0[i] = f0[i - 1] \o seqs[i]
  <2>1. f0[i] = c[i] /\ (i # 1 => f0[i - 1] = c[i - 1])
    BY <1>1
  <2>2. CASE i = 1
    <3>1. f0[i - 1] = <<>> /\ seqs[i] \in Seq(S)
      BY <1>1, <2>2
    <3>2. f0[i - 1] \o seqs[i] = seqs[i]
      <4> DEFINE e == seqs[i]
      <4>1. e \in Seq(S)
        BY <3>1
      <4> HIDE DEF e
      <4>2. <<>> \o e = e
        BY <4>1, ConcatEmptySeq
      <4> QED BY <3>1, <4>2 DEF e
    <3> QED BY <1>9, <2>1, <2>2, <3>2
  <2>3. CASE i # 1
    BY <1>9, <2>1, <2>3
  <2> QED BY <2>2, <2>3
<1>12. FlattenSeq(seqs) = f0[N]
  <2>1. CASE N = 0
    <3>1. seqs = <<>> /\ FlattenSeq(seqs) = seqs
      BY <2>1, EmptySeq DEF FlattenSeq
    <3> QED BY <1>10, <2>1, <3>1
  <2>2. CASE N # 0
    BY <1>1, <1>8, <2>2
  <2> QED BY <2>1, <2>2
<1> HIDE DEF f0
<1> QED BY <1>10, <1>11, <1>12

\* A list of lists, one longer, is joined to the rest.
LEMMA FlattenAppend ==
  ASSUME NEW S, NEW seqs \in Seq(Seq(S)), NEW e \in Seq(S)
  PROVE  FlattenSeq(Append(seqs, e)) = FlattenSeq(seqs) \o e
<1> DEFINE N == Len(seqs)
           t == Append(seqs, e)
<1>1. N \in Nat /\ t \in Seq(Seq(S)) /\ Len(t) = N + 1 /\ t[N + 1] = e
      /\ \A i \in 1 .. N : t[i] = seqs[i]
  BY AppendProperties
<1> HIDE DEF t
<1>2. PICK f \in [0 .. N -> Seq(S)] :
         /\ f[0] = <<>> /\ FlattenSeq(seqs) = f[N]
         /\ \A i \in 1 .. N : f[i] = f[i - 1] \o seqs[i]
  BY FlattenSteps
<1>3. PICK g \in [0 .. N + 1 -> Seq(S)] :
         /\ g[0] = <<>> /\ FlattenSeq(t) = g[N + 1]
         /\ \A i \in 1 .. N + 1 : g[i] = g[i - 1] \o t[i]
  <2>1. t \in Seq(Seq(S)) /\ Len(t) = N + 1
    BY <1>1
  <2>2. \E g \in [0 .. Len(t) -> Seq(S)] :
           /\ g[0] = <<>> /\ FlattenSeq(t) = g[Len(t)]
           /\ \A i \in 1 .. Len(t) : g[i] = g[i - 1] \o t[i]
    BY <2>1, FlattenSteps
  <2> QED BY <2>1, <2>2
<1> DEFINE T == {i \in 0 .. N : f[i] = g[i]}
<1>4. 0 \in T
  BY <1>1, <1>2, <1>3
<1>5. ASSUME NEW i \in 0 .. N - 1, i \in T PROVE i + 1 \in T
  <2>1. i + 1 \in 1 .. N /\ i + 1 \in 1 .. N + 1 /\ i + 1 \in 0 .. N /\ (i + 1) - 1 = i
    BY <1>1
  <2>2. f[i + 1] = f[i] \o seqs[i + 1] /\ g[i + 1] = g[i] \o t[i + 1] /\ t[i + 1] = seqs[i + 1]
    BY <1>1, <1>2, <1>3, <2>1
  <2> QED BY <1>5, <2>1, <2>2
<1>6. f[N] = g[N]
  <2> HIDE DEF T
  <2>1. \A i \in 0 .. N : i \in T
    BY <1>1, <1>4, <1>5, UpTo
  <2> QED BY <1>1, <2>1 DEF T
<1>7. g[N + 1] = g[N] \o e
  <2>1. N + 1 \in 1 .. N + 1 /\ (N + 1) - 1 = N
    BY <1>1
  <2> QED BY <1>1, <1>3, <2>1
<1> QED BY <1>2, <1>3, <1>6, <1>7 DEF t

\* ConcatAssociative, for lists that are known to be some.
LEMMA Associates ==
  ASSUME NEW S, NEW x, x \in Seq(S), NEW y, y \in Seq(S), NEW z, z \in Seq(S)
  PROVE  (x \o y) \o z = x \o (y \o z)
BY ConcatAssociative

\* A joined list of lists of S is a list of S.
LEMMA FlattenType ==
  ASSUME NEW S, NEW seqs \in Seq(Seq(S))
  PROVE  FlattenSeq(seqs) \in Seq(S)
<1>1. PICK f \in [0 .. Len(seqs) -> Seq(S)] : FlattenSeq(seqs) = f[Len(seqs)]
  BY FlattenSteps
<1>2. Len(seqs) \in 0 .. Len(seqs)
  OBVIOUS
<1> QED BY <1>1, <1>2

\* Two lists of lists after one another.
LEMMA FlattenConcat ==
  ASSUME NEW S, NEW a \in Seq(Seq(S)), NEW b \in Seq(Seq(S))
  PROVE  FlattenSeq(a \o b) = FlattenSeq(a) \o FlattenSeq(b)
<1> DEFINE A == Len(a)
           B == Len(b)
           t == a \o b
<1>1. A \in Nat /\ B \in Nat /\ t \in Seq(Seq(S)) /\ Len(t) = A + B
      /\ (\A i \in 1 .. A : t[i] = a[i]) /\ \A i \in 1 .. B : t[A + i] = b[i]
  <2> DEFINE L == Seq(S)
  <2>1. a \in Seq(L) /\ b \in Seq(L)
    OBVIOUS
  <2> HIDE DEF L
  <2>2. /\ t \in Seq(L) /\ A \in Nat /\ B \in Nat /\ Len(t) = A + B
        /\ \A i \in 1 .. A + B : t[i] = IF i <= A THEN a[i] ELSE b[i - A]
    BY <2>1, ConcatProperties
  <2> HIDE DEF t, A, B
  <2>3. ASSUME NEW i \in 1 .. B PROVE t[A + i] = b[i]
    <3>1. A + i \in 1 .. A + B /\ ~ (A + i <= A) /\ (A + i) - A = i
      BY <2>2
    <3> QED BY <2>2, <3>1
  <2>4. \A i \in 1 .. A : t[i] = a[i]
    BY <2>2
  <2> QED BY <2>2, <2>3, <2>4 DEF L
<1> HIDE DEF t
<1>2. PICK f \in [0 .. A -> Seq(S)] :
         /\ f[0] = <<>> /\ FlattenSeq(a) = f[A]
         /\ \A i \in 1 .. A : f[i] = f[i - 1] \o a[i]
  BY FlattenSteps
<1>3. PICK h \in [0 .. B -> Seq(S)] :
         /\ h[0] = <<>> /\ FlattenSeq(b) = h[B]
         /\ \A i \in 1 .. B : h[i] = h[i - 1] \o b[i]
  BY FlattenSteps
<1>4. PICK g \in [0 .. A + B -> Seq(S)] :
         /\ g[0] = <<>> /\ FlattenSeq(t) = g[A + B]
         /\ \A i \in 1 .. A + B : g[i] = g[i - 1] \o t[i]
  <2>1. t \in Seq(Seq(S)) /\ Len(t) = A + B
    BY <1>1
  <2>2. \E g \in [0 .. Len(t) -> Seq(S)] :
           /\ g[0] = <<>> /\ FlattenSeq(t) = g[Len(t)]
           /\ \A i \in 1 .. Len(t) : g[i] = g[i - 1] \o t[i]
    BY <2>1, FlattenSteps
  <2> QED BY <2>1, <2>2
<1> DEFINE T == {i \in 0 .. A : f[i] = g[i]}
           U == {i \in 0 .. B : g[A + i] = f[A] \o h[i]}
<1>5. 0 \in T
  BY <1>1, <1>2, <1>4
<1>6. ASSUME NEW i \in 0 .. A - 1, i \in T PROVE i + 1 \in T
  <2>1. i + 1 \in 1 .. A /\ i + 1 \in 1 .. A + B /\ i + 1 \in 0 .. A /\ (i + 1) - 1 = i
    BY <1>1
  <2>2. f[i + 1] = f[i] \o a[i + 1] /\ g[i + 1] = g[i] \o t[i + 1] /\ t[i + 1] = a[i + 1]
    BY <1>1, <1>2, <1>4, <2>1
  <2> QED BY <1>6, <2>1, <2>2
<1>7. f[A] = g[A]
  <2> HIDE DEF T
  <2>1. \A i \in 0 .. A : i \in T
    BY <1>1, <1>5, <1>6, UpTo
  <2> QED BY <1>1, <2>1 DEF T
<1>8. 0 \in U
  <2>1. f[A] \in Seq(S) /\ A + 0 = A /\ 0 \in 0 .. B
    <3>1. A \in 0 .. A
      BY <1>1
    <3>2. f[A] \in Seq(S)
      BY <1>2, <3>1
    <3> QED BY <1>1, <3>2
  <2> DEFINE e == f[A]
  <2>2. e \o <<>> = e
    BY <2>1, ConcatEmptySeq
  <2> QED BY <1>3, <1>7, <2>1, <2>2
<1>9. ASSUME NEW i \in 0 .. B - 1, i \in U PROVE i + 1 \in U
  <2>1. i + 1 \in 1 .. B /\ A + (i + 1) \in 1 .. A + B /\ i + 1 \in 0 .. B /\ (i + 1) - 1 = i
        /\ (A + (i + 1)) - 1 = A + i
    BY <1>1
  <2>2. h[i + 1] = h[i] \o b[i + 1]
    BY <1>3, <2>1
  <2>3. g[A + (i + 1)] = g[A + i] \o b[i + 1]
    BY <1>1, <1>4, <2>1
  <2> DEFINE x == f[A]
             y == h[i]
             z == b[i + 1]
  <2>4. x \in Seq(S) /\ y \in Seq(S) /\ z \in Seq(S)
    <3>1. A \in 0 .. A /\ i \in 0 .. B
      BY <1>1
    <3>2. x \in Seq(S)
      BY <1>2, <3>1
    <3>3. y \in Seq(S)
      BY <1>3, <3>1
    <3>4. z \in Seq(S)
      BY <2>1
    <3> QED BY <3>2, <3>3, <3>4
  <2> HIDE DEF x, y, z
  <2>5. (x \o y) \o z = x \o (y \o z)
    <3> HIDE DEF A, B, T, U
    <3> QED BY <2>4, Associates
  <2>6. g[A + i] = x \o y
    BY <1>9 DEF x, y
  <2> QED BY <2>1, <2>2, <2>3, <2>5, <2>6 DEF x, y, z
<1>10. g[A + B] = f[A] \o h[B]
  <2> HIDE DEF U
  <2>1. \A i \in 0 .. B : i \in U
    BY <1>1, <1>8, <1>9, UpTo
  <2>2. B \in 0 .. B
    BY <1>1
  <2> QED BY <2>1, <2>2 DEF U
<1> QED BY <1>2, <1>3, <1>4, <1>10 DEF t

\* A list of empty lists.
LEMMA FlattenNothing ==
  ASSUME NEW S, NEW seqs \in Seq(Seq(S)), \A i \in 1 .. Len(seqs) : seqs[i] = <<>>
  PROVE  FlattenSeq(seqs) = <<>>
<1> DEFINE N == Len(seqs)
<1>1. N \in Nat
  OBVIOUS
<1>2. PICK f \in [0 .. N -> Seq(S)] :
         /\ f[0] = <<>> /\ FlattenSeq(seqs) = f[N]
         /\ \A i \in 1 .. N : f[i] = f[i - 1] \o seqs[i]
  BY FlattenSteps
<1> DEFINE T == {i \in 0 .. N : f[i] = <<>>}
<1>3. 0 \in T
  BY <1>1, <1>2
<1>4. ASSUME NEW i \in 0 .. N - 1, i \in T PROVE i + 1 \in T
  <2>1. i + 1 \in 1 .. N /\ i + 1 \in 0 .. N /\ (i + 1) - 1 = i
    BY <1>1
  <2>2. f[i + 1] = f[i] \o seqs[i + 1]
    BY <1>2, <2>1
  <2>3. f[i] = <<>> /\ seqs[i + 1] = <<>>
    BY <1>4, <2>1
  <2>4. <<>> \o <<>> = <<>>
    OBVIOUS
  <2> QED BY <2>1, <2>2, <2>3, <2>4
<1>5. N \in T
  <2> HIDE DEF T
  <2>1. \A i \in 0 .. N : i \in T
    BY <1>1, <1>3, <1>4, UpTo
  <2> QED BY <1>1, <2>1
<1> QED BY <1>2, <1>5

\* A segment of a list, cut in two.
LEMMA SegmentSplit ==
  ASSUME NEW S, NEW s \in Seq(S), NEW i \in Nat, NEW j \in Nat, NEW k \in Nat,
         i <= j, j <= k, k <= Len(s)
  PROVE  /\ SubSeq(s, i + 1, k) = SubSeq(s, i + 1, j) \o SubSeq(s, j + 1, k)
         /\ SubSeq(s, i + 1, k) \in Seq(S) /\ Len(SubSeq(s, i + 1, k)) = k - i
         /\ \A n \in 1 .. k - i : SubSeq(s, i + 1, k)[n] = s[i + n]
<1> DEFINE a == SubSeq(s, i + 1, j)
           b == SubSeq(s, j + 1, k)
           c == SubSeq(s, i + 1, k)
<1>1. a \in Seq(S) /\ Len(a) = j - i /\ \A n \in 1 .. j - i : a[n] = s[i + n]
  <2>1. i + 1 \in Int /\ j \in Int /\ \A n \in i + 1 .. j : s[n] \in S
    OBVIOUS
  <2> QED BY <2>1, SubSeqProperties
<1>2. b \in Seq(S) /\ Len(b) = k - j /\ \A n \in 1 .. k - j : b[n] = s[j + n]
  BY SubSeqProperties
<1>3. c \in Seq(S) /\ Len(c) = k - i /\ \A n \in 1 .. k - i : c[n] = s[i + n]
  BY SubSeqProperties
<1> HIDE DEF a, b, c
<1>4. /\ a \o b \in Seq(S) /\ Len(a \o b) = (j - i) + (k - j)
      /\ \A n \in 1 .. (j - i) + (k - j) : (a \o b)[n] = IF n <= j - i THEN a[n] ELSE b[n - (j - i)]
  <2>1. /\ a \o b \in Seq(S) /\ Len(a \o b) = Len(a) + Len(b)
        /\ \A n \in 1 .. Len(a) + Len(b) : (a \o b)[n] = IF n <= Len(a) THEN a[n] ELSE b[n - Len(a)]
    BY <1>1, <1>2, ConcatProperties
  <2> QED BY <1>1, <1>2, <2>1
<1>5. Len(a \o b) = Len(c)
  BY <1>3, <1>4
<1>6. ASSUME NEW n \in 1 .. Len(c) PROVE (a \o b)[n] = c[n]
  <2>1. CASE n <= j - i
    BY <1>1, <1>3, <1>4, <2>1
  <2>2. CASE n > j - i
    <3>1. n - (j - i) \in 1 .. k - j /\ j + (n - (j - i)) = i + n
      BY <1>3, <2>2
    <3> QED BY <1>2, <1>3, <1>4, <2>2, <3>1
  <2>3. n \in Nat /\ j - i \in Nat
    BY <1>3
  <2>4. n <= j - i \/ n > j - i
    BY <2>3
  <2> QED BY <2>1, <2>2, <2>4
<1>7. a \o b = c
  BY <1>3, <1>4, <1>5, <1>6, SeqEqual
<1> QED BY <1>3, <1>7 DEF a, b, c

-----------------------------------------------------------------------------
(* The stream and the numbers of its messages. *)

\* What the lists of this module hold.
Piece == [part : Parts \cup {"message"}, type : 0 .. 15, id : Nat]

\* The stream is the text of the request, and then the messages.
LEMMA PiecesAre ==
  ASSUME client \in Clients
  PROVE  /\ Pieces \in Seq(Piece) /\ Len(Pieces) = Len(client.request) + Len(client.types)
         /\ Len(client.request) \in Nat /\ Len(client.types) \in Nat
         /\ \A i \in 1 .. Len(client.request) : Pieces[i] = Text(client.request[i])
         /\ \A i \in 1 .. Len(Pieces) : i > Len(client.request) => Pieces[i].part = "message"
<1> DEFINE r == client.request
           t == client.types
           a == [i \in 1 .. Len(r) |-> Text(r[i])]
           b == [i \in 1 .. Len(t) |-> MessagePiece(t[i], i)]
<1>1. r \in Seq(Parts) /\ t \in Seq(0 .. 15)
  BY ClientsAssumption DEF ClientsAssumption
<1> HIDE DEF r, t
<1>2. a \in Seq(Piece) /\ Len(a) = Len(r) /\ \A i \in 1 .. Len(r) : a[i] = Text(r[i])
  <2>1. \A i \in 1 .. Len(r) : Text(r[i]) \in Piece
    BY <1>1 DEF Text, Piece
  <2>2. a \in [1 .. Len(r) -> Piece] /\ Len(r) \in Nat
    BY <1>1, <2>1
  <2> QED BY <2>2
<1>3. b \in Seq(Piece) /\ Len(b) = Len(t) /\ \A i \in 1 .. Len(t) : b[i] = MessagePiece(t[i], i)
  <2>1. \A i \in 1 .. Len(t) : MessagePiece(t[i], i) \in Piece
    BY <1>1 DEF MessagePiece, Piece
  <2>2. b \in [1 .. Len(t) -> Piece] /\ Len(t) \in Nat
    BY <1>1, <2>1
  <2> QED BY <2>2
<1>4. Pieces = a \o b
  BY DEF Pieces, r, t
<1> HIDE DEF a, b
<1>5. /\ Pieces \in Seq(Piece) /\ Len(Pieces) = Len(r) + Len(t)
      /\ \A i \in 1 .. Len(r) + Len(t) : Pieces[i] = IF i <= Len(r) THEN a[i] ELSE b[i - Len(r)]
  <2>1. /\ a \o b \in Seq(Piece) /\ Len(a \o b) = Len(a) + Len(b)
        /\ \A i \in 1 .. Len(a) + Len(b) : (a \o b)[i] = IF i <= Len(a) THEN a[i] ELSE b[i - Len(a)]
    <3>1. a \in Seq(Piece) /\ b \in Seq(Piece)
      BY <1>2, <1>3
    <3> QED BY <3>1, ConcatProperties
  <2> QED BY <1>2, <1>3, <1>4, <2>1
<1>6. Len(r) \in Nat /\ Len(t) \in Nat
  BY <1>1
<1>7. ASSUME NEW i \in 1 .. Len(r) PROVE Pieces[i] = Text(r[i])
  BY <1>2, <1>5, <1>6
<1>8. ASSUME NEW i \in 1 .. Len(Pieces), i > Len(r) PROVE Pieces[i].part = "message"
  <2>1. i - Len(r) \in 1 .. Len(t) /\ Pieces[i] = b[i - Len(r)]
    BY <1>5, <1>6, <1>8
  <2>2. b[i - Len(r)] = MessagePiece(t[i - Len(r)], i - Len(r))
    BY <1>3, <2>1
  <2>3. MessagePiece(t[i - Len(r)], i - Len(r)).part = "message"
    BY DEF MessagePiece
  <2> QED BY <2>1, <2>2, <2>3
<1> QED BY <1>5, <1>6, <1>7, <1>8 DEF r, t

\* The numbers of messages are numbers.
LEMMA IdsType ==
  ASSUME NEW a \in Seq(Piece)
  PROVE  /\ Ids(a) \in Seq(Nat)
         /\ [i \in 1 .. Len(a) |-> IdOf(a[i])] \in Seq(Seq(Nat))
<1> DEFINE x == [i \in 1 .. Len(a) |-> IdOf(a[i])]
<1>1. \A i \in 1 .. Len(a) : IdOf(a[i]) \in Seq(Nat)
  <2> SUFFICES ASSUME NEW i \in 1 .. Len(a) PROVE IdOf(a[i]) \in Seq(Nat)
    OBVIOUS
  <2>1. a[i] \in Piece /\ a[i].id \in Nat
    <3>1. a[i] \in Piece
      OBVIOUS
    <3> QED BY <3>1 DEF Piece
  <2>2. <<a[i].id>> \in Seq(Nat) /\ <<>> \in Seq(Nat)
    BY <2>1
  <2> QED BY <2>2 DEF IdOf
<1>2. x \in [1 .. Len(a) -> Seq(Nat)] /\ Len(a) \in Nat
  BY <1>1
<1>3. x \in Seq(Seq(Nat))
  BY <1>2
<1> HIDE DEF x
<1>4. FlattenSeq(x) \in Seq(Nat)
  BY <1>3, FlattenType
<1> QED BY <1>3, <1>4 DEF Ids, x

\* The numbers of two lists of pieces after one another.
LEMMA IdsConcat ==
  ASSUME NEW a \in Seq(Piece), NEW b \in Seq(Piece)
  PROVE  Ids(a \o b) = Ids(a) \o Ids(b)
<1> DEFINE x == [i \in 1 .. Len(a) |-> IdOf(a[i])]
           y == [i \in 1 .. Len(b) |-> IdOf(b[i])]
           z == [i \in 1 .. Len(a \o b) |-> IdOf((a \o b)[i])]
<1>1. x \in Seq(Seq(Nat)) /\ y \in Seq(Seq(Nat))
  BY IdsType
<1>2. /\ a \o b \in Seq(Piece) /\ Len(a \o b) = Len(a) + Len(b) /\ Len(a) \in Nat /\ Len(b) \in Nat
      /\ \A i \in 1 .. Len(a) + Len(b) : (a \o b)[i] = IF i <= Len(a) THEN a[i] ELSE b[i - Len(a)]
  BY ConcatProperties
<1>3. z \in Seq(Seq(Nat))
  BY <1>2, IdsType
<1>4. Len(x) = Len(a) /\ Len(y) = Len(b) /\ Len(z) = Len(a) + Len(b)
  BY <1>2
<1>5. /\ x \o y \in Seq(Seq(Nat)) /\ Len(x \o y) = Len(a) + Len(b)
      /\ \A i \in 1 .. Len(a) + Len(b) : (x \o y)[i] = IF i <= Len(a) THEN x[i] ELSE y[i - Len(a)]
  <2> DEFINE L == Seq(Nat)
  <2>1. x \in Seq(L) /\ y \in Seq(L)
    BY <1>1
  <2> HIDE DEF L, x, y
  <2>2. /\ x \o y \in Seq(L) /\ Len(x \o y) = Len(x) + Len(y)
        /\ \A i \in 1 .. Len(x) + Len(y) : (x \o y)[i] = IF i <= Len(x) THEN x[i] ELSE y[i - Len(x)]
    BY <2>1, ConcatProperties
  <2> QED BY <1>4, <2>2 DEF L
<1>6. ASSUME NEW i \in 1 .. Len(a) + Len(b) PROVE (x \o y)[i] = z[i]
  <2>1. z[i] = IdOf((a \o b)[i])
    BY <1>2
  <2>2. CASE i <= Len(a)
    <3>1. i \in 1 .. Len(a) /\ x[i] = IdOf(a[i])
      BY <1>2, <2>2
    <3> QED BY <1>2, <1>5, <2>1, <2>2, <3>1
  <2>3. CASE i > Len(a)
    <3>1. i - Len(a) \in 1 .. Len(b)
      BY <1>2, <2>3
    <3>2. y[i - Len(a)] = IdOf(b[i - Len(a)])
      BY <3>1
    <3> QED BY <1>2, <1>5, <2>1, <2>3, <3>2
  <2> QED BY <1>2, <2>2, <2>3
<1> HIDE DEF x, y, z
<1>7. x \o y = z
  <2> DEFINE L == Seq(Nat)
  <2>1. x \o y \in Seq(L) /\ z \in Seq(L) /\ Len(x \o y) = Len(z)
    BY <1>3, <1>4, <1>5
  <2>2. \A i \in 1 .. Len(z) : (x \o y)[i] = z[i]
    BY <1>4, <1>6
  <2> HIDE DEF L
  <2> QED BY <2>1, <2>2, SeqEqual
<1>8. FlattenSeq(x \o y) = FlattenSeq(x) \o FlattenSeq(y)
  BY <1>1, FlattenConcat
<1> QED BY <1>7, <1>8 DEF Ids, x, y, z

\* The numbers of no piece and of one.
LEMMA IdsShort ==
  /\ Ids(<<>>) = <<>>
  /\ \A m \in Piece : Ids(<<m>>) = IdOf(m)
<1>1. Ids(<<>>) = <<>>
  BY EmptySeq DEF Ids, FlattenSeq
<1>2. ASSUME NEW m \in Piece PROVE Ids(<<m>>) = IdOf(m)
  <2> DEFINE x == [i \in 1 .. Len(<<m>>) |-> IdOf(<<m>>[i])]
  <2> DEFINE one == <<m>>
  <2>0. one \in Seq(Piece) /\ Len(one) = 1 /\ one[1] = m
    OBVIOUS
  <2>1. x \in Seq(Seq(Nat)) /\ Len(x) = 1 /\ x[1] = IdOf(m)
    <3>1. [i \in 1 .. Len(one) |-> IdOf(one[i])] \in Seq(Seq(Nat))
      BY <2>0, IdsType
    <3>2. Len(x) = 1 /\ x[1] = IdOf(m)
      BY <2>0
    <3> QED BY <3>1, <3>2
  <2> HIDE DEF x
  <2>2. PICK f \in [0 .. Len(x) -> Seq(Nat)] :
         /\ f[0] = <<>> /\ FlattenSeq(x) = f[Len(x)]
         /\ \A i \in 1 .. Len(x) : f[i] = f[i - 1] \o x[i]
    BY <2>1, FlattenSteps
  <2>3. FlattenSeq(x) = <<>> \o IdOf(m)
    <3>1. 1 \in 1 .. Len(x) /\ 1 - 1 = 0
      BY <2>1
    <3>2. f[1] = f[0] \o x[1]
      BY <2>2, <3>1
    <3> QED BY <2>1, <2>2, <3>2
  <2>4. IdOf(m) \in Seq(Nat)
    BY DEF IdOf, Piece
  <2>5. <<>> \o IdOf(m) = IdOf(m)
    BY <2>4, ConcatEmptySeq
  <2> QED BY <2>3, <2>5 DEF Ids, x
<1> QED BY <1>1, <1>2

\* Pieces that are no data messages have no numbers.
LEMMA NoIds ==
  ASSUME NEW a \in Seq(Piece), \A i \in 1 .. Len(a) : ~ IsData(a[i])
  PROVE  Ids(a) = <<>>
<1> DEFINE x == [i \in 1 .. Len(a) |-> IdOf(a[i])]
<1>1. x \in Seq(Seq(Nat)) /\ Len(x) = Len(a)
  BY IdsType
<1>2. \A i \in 1 .. Len(x) : x[i] = <<>>
  BY <1>1 DEF IdOf
<1> HIDE DEF x
<1>3. FlattenSeq(x) = <<>>
  BY <1>1, <1>2, FlattenNothing
<1> QED BY <1>3 DEF Ids, x

\* A segment of one.
LEMMA SegmentOfOne ==
  ASSUME NEW S, NEW s \in Seq(S), NEW i \in Nat, i < Len(s)
  PROVE  SubSeq(s, i + 1, i + 1) = <<s[i + 1]>>
<1> DEFINE k == i + 1
           y == SubSeq(s, k, k)
<1>1. k \in Int /\ \A n \in k .. k : s[n] \in S
  OBVIOUS
<1>2. k <= k /\ 1 - 1 = 0 /\ k + 1 - k = 1
  OBVIOUS
<1> HIDE DEF k
<1>3. y \in Seq(S) /\ Len(y) = 1 /\ y[1] = s[k]
  <2>1. /\ y \in Seq(S) /\ Len(y) = IF k <= k THEN k - k + 1 ELSE 0
        /\ \A n \in 1 .. k - k + 1 : y[n] = s[k + n - 1]
    BY <1>1, SubSeqProperties
  <2>2. k - k + 1 = 1 /\ k + 1 - 1 = k
    BY <1>1
  <2> HIDE DEF y
  <2> QED BY <1>2, <2>1, <2>2
<1> HIDE DEF y
<1>4. y = <<y[1]>>
  BY <1>3
<1> QED BY <1>3, <1>4 DEF y, k

\* The head and the tail of a segment.
LEMMA SegmentTail ==
  ASSUME NEW S, NEW s \in Seq(S), NEW i \in Nat, NEW k \in Nat, i < k, k <= Len(s)
  PROVE  /\ Head(SubSeq(s, i + 1, k)) = s[i + 1]
         /\ Tail(SubSeq(s, i + 1, k)) = SubSeq(s, (i + 1) + 1, k)
<1> DEFINE c == SubSeq(s, i + 1, k)
           d == SubSeq(s, (i + 1) + 1, k)
<1>1. c \in Seq(S) /\ Len(c) = k - i /\ \A n \in 1 .. k - i : c[n] = s[i + n]
  BY SegmentSplit
<1>2. d \in Seq(S) /\ Len(d) = k - (i + 1) /\ \A n \in 1 .. k - (i + 1) : d[n] = s[(i + 1) + n]
  <2>1. i + 1 \in Nat /\ i + 1 <= k
    OBVIOUS
  <2> DEFINE j == i + 1
  <2>2. j \in Nat /\ j <= k
    BY <2>1
  <2> HIDE DEF j, d
  <2>3. /\ SubSeq(s, j + 1, k) \in Seq(S) /\ Len(SubSeq(s, j + 1, k)) = k - j
        /\ \A n \in 1 .. k - j : SubSeq(s, j + 1, k)[n] = s[j + n]
    BY <2>2, SegmentSplit
  <2> QED BY <2>3 DEF j, d
<1> HIDE DEF c, d
<1>3. c # <<>> /\ Head(c) = c[1]
  BY <1>1
<1>4. Tail(c) \in Seq(S) /\ Len(Tail(c)) = Len(c) - 1 /\ \A n \in 1 .. Len(c) - 1 : Tail(c)[n] = c[n + 1]
  BY <1>1, <1>3, HeadTailProperties
<1>5. \A n \in 1 .. Len(d) : Tail(c)[n] = d[n]
  <2> SUFFICES ASSUME NEW n \in 1 .. Len(d) PROVE Tail(c)[n] = d[n]
    OBVIOUS
  <2>1. n \in 1 .. Len(c) - 1 /\ n + 1 \in 1 .. k - i /\ n \in 1 .. k - (i + 1) /\ i + (n + 1) = (i + 1) + n
    BY <1>1, <1>2
  <2> QED BY <1>1, <1>2, <1>4, <2>1
<1>6. Tail(c) = d
  <2>1. Len(Tail(c)) = Len(d)
    BY <1>1, <1>2, <1>4
  <2> QED BY <1>2, <1>4, <1>5, <2>1, SeqEqual
<1>7. c[1] = s[i + 1]
  BY <1>1
<1> QED BY <1>3, <1>6, <1>7 DEF c, d

-----------------------------------------------------------------------------
(* Where the pieces are. *)

\* How many pieces were moved to the cache, and how many of them left it.
Got == arrived - Len(recvBuffer)
Used == Got - Len(cache)

\* What arrived is handled, in the cache and in the buffer, in this order.
Segments ==
    /\ client \in Clients /\ arrived \in Nat /\ arrived <= Len(Pieces)
    /\ Got \in 0 .. arrived /\ recvBuffer = SubSeq(Pieces, Got + 1, arrived)
    /\ Used \in 0 .. Got /\ cache = SubSeq(Pieces, Used + 1, Got)

\* What the buffers hold, piece by piece.
LEMMA SegmentsAre ==
  ASSUME Segments
  PROVE  /\ Pieces \in Seq(Piece) /\ Len(Pieces) \in Nat /\ Got \in Nat /\ Used \in Nat
         /\ recvBuffer \in Seq(Piece) /\ Len(recvBuffer) = arrived - Got
         /\ cache \in Seq(Piece) /\ Len(cache) = Got - Used
         /\ \A n \in 1 .. Got - Used : cache[n] = Pieces[Used + n]
         /\ \A n \in 1 .. arrived - Got : recvBuffer[n] = Pieces[Got + n]
<1>1. Pieces \in Seq(Piece) /\ Len(Pieces) \in Nat
  BY PiecesAre DEF Segments
<1> DEFINE g == Got
           u == Used
<1>2. /\ g \in Nat /\ u \in Nat /\ arrived \in Nat /\ u <= g /\ g <= arrived /\ arrived <= Len(Pieces)
      /\ recvBuffer = SubSeq(Pieces, g + 1, arrived) /\ cache = SubSeq(Pieces, u + 1, g)
  BY DEF Segments
<1> HIDE DEF g, u
<1>3. /\ SubSeq(Pieces, g + 1, arrived) \in Seq(Piece) /\ Len(SubSeq(Pieces, g + 1, arrived)) = arrived - g
      /\ \A n \in 1 .. arrived - g : SubSeq(Pieces, g + 1, arrived)[n] = Pieces[g + n]
  BY <1>1, <1>2, SegmentSplit
<1>4. /\ SubSeq(Pieces, u + 1, g) \in Seq(Piece) /\ Len(SubSeq(Pieces, u + 1, g)) = g - u
      /\ \A n \in 1 .. g - u : SubSeq(Pieces, u + 1, g)[n] = Pieces[u + n]
  <2>1. g <= Len(Pieces)
    BY <1>1, <1>2
  <2> QED BY <1>1, <1>2, <2>1, SegmentSplit
<1> QED BY <1>1, <1>2, <1>3, <1>4 DEF g, u

\* What each step does with the pieces.
LEMMA ArriveSegments ==
  ASSUME Segments, NEW n \in 1 .. Len(Pieces), Arrive(n)
  PROVE  Segments' /\ Got' = Got /\ Used' = Used /\ Pieces' = Pieces
<1> DEFINE g == Got
           m == arrived + n
<1>1. /\ client' = client /\ cache' = cache /\ arrived' = m /\ m <= Len(Pieces)
      /\ recvBuffer' = recvBuffer \o SubSeq(Pieces, arrived + 1, m)
  BY DEF Arrive
<1>2. /\ Pieces \in Seq(Piece) /\ Len(Pieces) \in Nat /\ g \in Nat /\ arrived \in Nat /\ g <= arrived
      /\ recvBuffer \in Seq(Piece) /\ Len(recvBuffer) = arrived - g
      /\ recvBuffer = SubSeq(Pieces, g + 1, arrived)
  BY SegmentsAre DEF Segments
<1>3. m \in Nat /\ arrived <= m /\ g <= m
  BY <1>2
<1>4. Pieces' = Pieces
  BY <1>1 DEF Pieces, Text, MessagePiece
<1> HIDE DEF g, m
<1>5. SubSeq(Pieces, g + 1, m) = SubSeq(Pieces, g + 1, arrived) \o SubSeq(Pieces, arrived + 1, m)
      /\ Len(SubSeq(Pieces, g + 1, m)) = m - g
  BY <1>1, <1>2, <1>3, SegmentSplit
<1>6. recvBuffer' = SubSeq(Pieces, g + 1, m) /\ Len(recvBuffer') = m - g
  BY <1>1, <1>2, <1>5
<1>7. Got' = g
  BY <1>1, <1>2, <1>3, <1>6 DEF Got
<1>8. Used' = Used
  BY <1>1, <1>7 DEF Used, g
<1>9. Used \in 0 .. g /\ cache = SubSeq(Pieces, Used + 1, g) /\ client \in Clients
  BY DEF Segments, g
<1>10. g \in 0 .. m
  BY <1>2, <1>3
<1> QED BY <1>1, <1>3, <1>4, <1>6, <1>7, <1>8, <1>9, <1>10 DEF Segments, g

\* CWsInput::ProcMsg, with the cache drained as it always is when it waits.
LEMMA ProcSegments ==
  ASSUME Segments, ProcMsg, cache = <<>>
  PROVE  Segments' /\ Got' = arrived /\ Used' = Got /\ Used = Got /\ Pieces' = Pieces /\ Got < arrived
<1>1. client' = client /\ arrived' = arrived /\ recvBuffer' = <<>> /\ cache' = <<>> \o recvBuffer /\ recvBuffer # <<>>
  BY DEF ProcMsg
<1>2. /\ Pieces \in Seq(Piece) /\ Len(Pieces) \in Nat /\ Got \in Nat /\ arrived \in Nat /\ Got <= arrived
      /\ recvBuffer \in Seq(Piece) /\ Len(recvBuffer) = arrived - Got
      /\ recvBuffer = SubSeq(Pieces, Got + 1, arrived)
  BY SegmentsAre DEF Segments
<1>3. cache' = recvBuffer
  BY <1>1, <1>2, ConcatEmptySeq
<1>4. Pieces' = Pieces
  BY <1>1 DEF Pieces, Text, MessagePiece
<1>5. Len(<<>>) = 0
  OBVIOUS
<1>6. Got' = arrived
  BY <1>1, <1>2, <1>5 DEF Got
<1>7. Used' = Got
  BY <1>2, <1>3, <1>6 DEF Used
<1>8. Used = Got
  BY <1>2, <1>5 DEF Used
<1>9. Got < arrived
  <2>1. Len(recvBuffer) # 0
    BY <1>1, <1>2, EmptySeq
  <2> QED BY <1>2, <2>1
<1>10. SubSeq(Pieces, arrived + 1, arrived) = <<>>
  BY <1>2, SubSeqProperties
<1> QED BY <1>1, <1>2, <1>3, <1>4, <1>6, <1>7, <1>8, <1>9, <1>10 DEF Segments

\* The cache is emptied.
LEMMA EmptySegments ==
  ASSUME Segments, UNCHANGED <<client, arrived, recvBuffer>>, cache' = <<>>
  PROVE  Segments' /\ Got' = Got /\ Used' = Got /\ Pieces' = Pieces
<1>1. Pieces' = Pieces
  BY DEF Pieces, Text, MessagePiece
<1>2. Got' = Got /\ Got \in Nat
  BY SegmentsAre DEF Got
<1>3. Used' = Got
  BY <1>2 DEF Used
<1>4. SubSeq(Pieces, Got + 1, Got) = <<>>
  BY <1>2, SegmentsAre, SubSeqProperties
<1> QED BY <1>1, <1>2, <1>3, <1>4 DEF Segments

\* A frame leaves the cache.
LEMMA DecodeSegments ==
  ASSUME Segments, UNCHANGED <<client, arrived, recvBuffer>>, cache # <<>>, cache' = Tail(cache)
  PROVE  Segments' /\ Got' = Got /\ Used' = Used + 1 /\ Pieces' = Pieces /\ Used + 1 <= Got
         /\ Head(cache) = Pieces[Used + 1]
<1>1. Pieces' = Pieces
  BY DEF Pieces, Text, MessagePiece
<1>2. Got' = Got
  BY DEF Got
<1> DEFINE u == Used
           g == Got
<1>3. /\ Pieces \in Seq(Piece) /\ Len(Pieces) \in Nat /\ u \in Nat /\ g \in Nat /\ Len(cache) = g - u
      /\ g <= Len(Pieces) /\ cache = SubSeq(Pieces, u + 1, g) /\ cache \in Seq(Piece) /\ u <= g
  BY SegmentsAre DEF Segments
<1>4. u < g
  <2>1. Len(cache) # 0
    BY <1>3, EmptySeq
  <2> QED BY <1>3, <2>1
<1>5. Len(Tail(cache)) = Len(cache) - 1
  BY <1>3, HeadTailProperties
<1>6. Used' = u + 1
  BY <1>2, <1>3, <1>5 DEF Used
<1> HIDE DEF u, g
<1>7. Head(cache) = Pieces[u + 1] /\ Tail(cache) = SubSeq(Pieces, (u + 1) + 1, g)
  BY <1>3, <1>4, SegmentTail
<1>8. u + 1 \in 0 .. g
  BY <1>3, <1>4
<1> QED BY <1>1, <1>2, <1>4, <1>6, <1>7, <1>8 DEF Segments, u, g

\* The buffers are left alone.
LEMMA SameSegments ==
  ASSUME Segments, UNCHANGED <<client, buffers>>
  PROVE  Segments' /\ Got' = Got /\ Used' = Used /\ Pieces' = Pieces
BY DEF Segments, buffers, Got, Used, Pieces, Text, MessagePiece

-----------------------------------------------------------------------------
(* What was sent. *)

\* What a connection is sent.
Asked == {"", "cut"} \cup {c.protocol : c \in Clients}
Answer == [kind : {"page"}] \cup [kind : {"101"}, key : {"whole", "cut"}, protocol : Asked]
          \cup [kind : {"echo"}, id : Nat]

\* What one answer more adds to the echoes.
LEMMA EchoesAppend ==
  ASSUME answers \in Seq(Answer), NEW a \in Answer, answers' = Append(answers, a)
  PROVE  /\ answers' \in Seq(Answer) /\ Echoes' = Echoes \o EchoOf(a) /\ Echoes \in Seq(Nat)
         /\ Accepted' <=> Accepted \/ (a.kind = "101" /\ a.key = "whole")
<1> DEFINE x == [i \in 1 .. Len(answers) |-> EchoOf(answers[i])]
           y == [i \in 1 .. Len(answers') |-> EchoOf(answers'[i])]
<1>1. \A b \in Answer : EchoOf(b) \in Seq(Nat)
  <2> SUFFICES ASSUME NEW b \in Answer PROVE EchoOf(b) \in Seq(Nat)
    OBVIOUS
  <2>1. b.kind = "echo" => b.id \in Nat
    BY DEF Answer
  <2> QED BY <2>1 DEF EchoOf
<1>2. /\ answers' \in Seq(Answer) /\ Len(answers') = Len(answers) + 1 /\ Len(answers) \in Nat
      /\ answers'[Len(answers) + 1] = a /\ \A i \in 1 .. Len(answers) : answers'[i] = answers[i]
  BY AppendProperties
<1>3. x \in Seq(Seq(Nat)) /\ Len(x) = Len(answers)
  <2>1. x \in [1 .. Len(answers) -> Seq(Nat)]
    BY <1>1
  <2> QED BY <1>2, <2>1
<1>4. y \in Seq(Seq(Nat)) /\ Len(y) = Len(answers) + 1 /\ y[Len(answers) + 1] = EchoOf(a)
      /\ \A i \in 1 .. Len(answers) : y[i] = x[i]
  <2>1. y \in [1 .. Len(answers') -> Seq(Nat)]
    BY <1>1, <1>2
  <2>2. Len(answers) + 1 \in 1 .. Len(answers')
    BY <1>2
  <2>3. \A i \in 1 .. Len(answers) : i \in 1 .. Len(answers')
    BY <1>2
  <2> QED BY <1>2, <2>1, <2>2, <2>3
<1>5. EchoOf(a) \in Seq(Nat)
  BY <1>1
<1> HIDE DEF x, y
<1>6. y = Append(x, EchoOf(a))
  <2> DEFINE L == Seq(Nat)
             e == EchoOf(a)
             n == Len(answers)
  <2>1. x \in Seq(L) /\ y \in Seq(L) /\ e \in L /\ Len(x) = n /\ Len(y) = n + 1 /\ y[n + 1] = e
        /\ n \in Nat /\ \A i \in 1 .. n : y[i] = x[i]
    BY <1>2, <1>3, <1>4, <1>5
  <2> HIDE DEF L, e, n
  <2>2. /\ Append(x, e) \in Seq(L) /\ Len(Append(x, e)) = n + 1 /\ Append(x, e)[n + 1] = e
        /\ \A i \in 1 .. n : Append(x, e)[i] = x[i]
    <3>1. /\ Append(x, e) \in Seq(L) /\ Len(Append(x, e)) = Len(x) + 1 /\ Append(x, e)[Len(x) + 1] = e
          /\ \A i \in 1 .. Len(x) : Append(x, e)[i] = x[i]
      BY <2>1, AppendProperties
    <3> QED BY <2>1, <3>1
  <2>3. \A i \in 1 .. n + 1 : y[i] = Append(x, e)[i]
    <3> SUFFICES ASSUME NEW i \in 1 .. n + 1 PROVE y[i] = Append(x, e)[i]
      OBVIOUS
    <3>1. i \in 1 .. n \/ i = n + 1
      BY <2>1
    <3> QED BY <2>1, <2>2, <3>1
  <2>4. y = Append(x, e)
    BY <2>1, <2>2, <2>3, SeqEqual
  <2> QED BY <2>4 DEF e
<1>7. FlattenSeq(Append(x, EchoOf(a))) = FlattenSeq(x) \o EchoOf(a)
  BY <1>3, <1>5, FlattenAppend
<1>8. FlattenSeq(x) \in Seq(Nat)
  BY <1>3, FlattenType
<1>9. Accepted' <=> Accepted \/ (a.kind = "101" /\ a.key = "whole")
  <2>1. \A i \in 1 .. Len(answers') : i \in 1 .. Len(answers) \/ i = Len(answers) + 1
    BY <1>2
  <2>2. Len(answers) + 1 \in 1 .. Len(answers') /\ \A i \in 1 .. Len(answers) : i \in 1 .. Len(answers')
    BY <1>2
  <2> QED BY <1>2, <2>1, <2>2 DEF Accepted
<1> QED BY <1>2, <1>6, <1>7, <1>8, <1>9 DEF Echoes, x, y

\* The numbers of the echoes are numbers.
LEMMA EchoesAre ==
  ASSUME answers \in Seq(Answer)
  PROVE  Echoes \in Seq(Nat)
<1> DEFINE x == [i \in 1 .. Len(answers) |-> EchoOf(answers[i])]
<1>1. \A b \in Answer : EchoOf(b) \in Seq(Nat)
  <2> SUFFICES ASSUME NEW b \in Answer PROVE EchoOf(b) \in Seq(Nat)
    OBVIOUS
  <2>1. b.kind = "echo" => b.id \in Nat
    BY DEF Answer
  <2> QED BY <2>1 DEF EchoOf
<1>2. x \in [1 .. Len(answers) -> Seq(Nat)] /\ Len(answers) \in Nat
  BY <1>1
<1>3. x \in Seq(Seq(Nat))
  BY <1>2
<1> HIDE DEF x
<1>4. FlattenSeq(x) \in Seq(Nat)
  BY <1>3, FlattenType
<1> QED BY <1>4 DEF Echoes, x

\* Nothing is sent.
LEMMA SameAnswers ==
  ASSUME UNCHANGED answers
  PROVE  Echoes' = Echoes /\ (Accepted' <=> Accepted)
BY DEF Echoes, Accepted

\* Nothing in the text of a request is a message.
LEMMA TextHasNoIds ==
  ASSUME client \in Clients, NEW i \in Nat, NEW j \in Nat, i <= j, j <= Len(client.request)
  PROVE  Ids(SubSeq(Pieces, i + 1, j)) = <<>>
<1>1. /\ Pieces \in Seq(Piece) /\ Len(client.request) \in Nat /\ j <= Len(Pieces) /\ Len(Pieces) \in Nat
      /\ \A n \in 1 .. Len(client.request) : Pieces[n] = Text(client.request[n])
  <2>1. Pieces \in Seq(Piece) /\ Len(Pieces) = Len(client.request) + Len(client.types)
    BY PiecesAre
  <2>2. Len(client.request) \in Nat /\ Len(client.types) \in Nat
    BY PiecesAre
  <2>3. \A n \in 1 .. Len(client.request) : Pieces[n] = Text(client.request[n])
    BY PiecesAre
  <2>4. j <= Len(Pieces) /\ Len(Pieces) \in Nat
    <3> DEFINE k == Len(client.request)
    <3>1. j <= k /\ k \in Nat
      BY <2>2
    <3> HIDE DEF k
    <3>2. Len(Pieces) = k + Len(client.types) /\ Len(client.types) \in Nat
      BY <2>1, <2>2 DEF k
    <3> QED BY ONLY <3>1, <3>2, j \in Nat, SMT
  <2> QED BY <2>1, <2>2, <2>3, <2>4
<1> DEFINE a == SubSeq(Pieces, i + 1, j)
<1>2. a \in Seq(Piece) /\ Len(a) = j - i /\ \A n \in 1 .. j - i : a[n] = Pieces[i + n]
  BY <1>1, SegmentSplit
<1> HIDE DEF a
<1>3. ASSUME NEW n \in 1 .. Len(a) PROVE ~ IsData(a[n])
  <2>1. n \in 1 .. j - i /\ i + n \in 1 .. Len(client.request)
    BY <1>1, <1>2
  <2>2. a[n] = Text(client.request[i + n])
    BY <1>1, <1>2, <2>1
  <2> QED BY <2>2 DEF Text, IsData, WS_FRAME_TEXT, WS_FRAME_BINARY
<1>4. Ids(a) = <<>>
  BY <1>2, <1>3, NoIds
<1> QED BY <1>4 DEF a

-----------------------------------------------------------------------------
(* The invariant, step by step. *)

\* The message being handled is the text in the cache, or the last frame
\* that left it.
HttpInHand(m) ==
    /\ m.http = cache /\ StartsWithGet(cache) /\ m.frame = <<>>
    /\ m.protocol = ProtocolOf(cache) /\ miState = "WS_STATE_NONE"

FrameInHand(m) ==
    /\ m.http = <<>> /\ m.frame \in Seq(Piece) /\ Len(m.frame) = 1
    /\ miState = "WS_STATE_CONNECT"
    /\ ~astray => Used >= 1 /\ m.frame[1] = Pieces[Used]

OneMessage ==
    \/ pc \in {"wait", "parse", "reset"} /\ msg = <<>>
    \/ /\ pc \in {"handle", "crashed"}
       /\ \E m : msg = <<m>> /\ m.protocol = mstrProtocol /\ (HttpInHand(m) \/ FrameInHand(m))

Typed ==
    /\ first \in Nat /\ astray \in BOOLEAN
    /\ miState \in {"WS_STATE_NONE", "WS_STATE_CONNECT"}
    /\ answers \in Seq(Answer) /\ leaked \in Seq(Piece)

Drained == pc = "wait" => cache = <<>>

\* Until something leaves the cache it holds what it first held.
FirstRead ==
    /\ first = 0 => Got = 0
    /\ first # 0 => first <= Got /\ (Used = 0 => first = Got)

\* No message has an outcome before the connection speaks frames, and a client
\* that waits has sent none.
Fresh == Echoes = <<>> /\ leaked = <<>>

BeforeFrames ==
    /\ miState = "WS_STATE_NONE" => Fresh /\ ~Accepted /\ ~astray
    /\ pc = "reset" => Fresh /\ (client.patient => Got <= Len(client.request))
    /\ client.patient /\ arrived > Len(client.request) => Accepted

\* Messages are echoed or leaked, never some of each.
OneOutcome ==
    miState = "WS_STATE_CONNECT" =>
        /\ mstrProtocol # WS_PROTOCOL_ECHO => Echoes = <<>>
        /\ mstrProtocol \in Registered => leaked = <<>>
        /\ mstrProtocol \in {client.protocol, "cut", WS_PROTOCOL_BLANK}

\* From a place in the stream on, every data message has its outcome; for a
\* client that waits this is no later than the end of its request.
FlowFrom(l) ==
    /\ client.patient => l <= Len(client.request)
    /\ Echoes \o Ids(leaked) \o Ids(InHand) = Ids(SubSeq(Pieces, l + 1, Used))

Flow ==
    miState = "WS_STATE_CONNECT" /\ pc # "reset" /\ ~astray /\ mstrProtocol # GET =>
        \E l \in 0 .. Used : FlowFrom(l)

SessionInv == /\ Segments /\ Typed /\ Drained /\ FirstRead /\ OneMessage
              /\ BeforeFrames /\ OneOutcome /\ Flow

\* The state of the handling changes, the stream stays.
LEMMA ArriveKeeps ==
  ASSUME SessionInv, NEW n \in 1 .. Len(Pieces), Arrive(n)
  PROVE  SessionInv'
<1>1. Segments' /\ Got' = Got /\ Used' = Used /\ Pieces' = Pieces
  BY ArriveSegments DEF SessionInv
<1>2. UNCHANGED <<client, cache, first, miState, mstrProtocol, msg, pc, answers, leaked, astray>>
      /\ arrived' = arrived + n
      /\ (client.patient /\ arrived + n > Len(client.request) => Accepted)
  BY DEF Arrive, state, outcome
<1>3. Echoes' = Echoes /\ (Accepted' <=> Accepted)
  BY <1>2, SameAnswers
<1>4. InHand' = InHand
  BY <1>2 DEF InHand
<1>5. Typed' /\ Drained' /\ FirstRead' /\ OneOutcome'
  BY <1>1, <1>2, <1>3 DEF SessionInv, Typed, Drained, FirstRead, OneOutcome
<1>6. OneMessage'
  BY <1>1, <1>2 DEF SessionInv, OneMessage, HttpInHand, FrameInHand
<1>7. BeforeFrames'
  BY <1>1, <1>2, <1>3 DEF SessionInv, BeforeFrames, Fresh
<1>8. Flow'
  BY <1>1, <1>2, <1>3, <1>4 DEF SessionInv, Flow, FlowFrom
<1> QED BY <1>1, <1>5, <1>6, <1>7, <1>8 DEF SessionInv

\* What arrived goes to the empty cache.
LEMMA ProcKeeps ==
  ASSUME SessionInv, ProcMsg
  PROVE  SessionInv'
<1>1. Segments' /\ Got' = arrived /\ Used' = Got /\ Used = Got /\ Pieces' = Pieces /\ Got < arrived
  BY ProcSegments DEF SessionInv, Drained, ProcMsg
<1>2. /\ UNCHANGED <<client, arrived, miState, mstrProtocol, msg, answers, leaked, astray>>
      /\ first' = (IF first = 0 THEN Len(recvBuffer) ELSE first) /\ pc = "wait" /\ pc' = "parse"
  BY DEF ProcMsg, state, outcome
<1>3. Echoes' = Echoes /\ (Accepted' <=> Accepted)
  BY <1>2, SameAnswers
<1>4. msg = <<>> /\ OneMessage'
  BY <1>2 DEF SessionInv, OneMessage
<1>5. InHand' = InHand
  BY <1>2 DEF InHand
<1>6. Got \in Nat /\ Len(recvBuffer) = arrived - Got /\ arrived \in Nat
  BY SegmentsAre DEF SessionInv, Segments
<1>7. Typed' /\ FirstRead'
  BY <1>1, <1>2, <1>6 DEF SessionInv, Typed, FirstRead
<1>8. BeforeFrames' /\ OneOutcome' /\ Drained'
  BY <1>1, <1>2, <1>3 DEF SessionInv, BeforeFrames, Fresh, OneOutcome, Drained
<1>9. Flow'
  BY <1>1, <1>2, <1>3, <1>5 DEF SessionInv, Flow, FlowFrom
<1> QED BY <1>1, <1>4, <1>7, <1>8, <1>9 DEF SessionInv

\* Text is made a message or is about to be dropped.
LEMMA ParseKeeps ==
  ASSUME SessionInv, ParseHttp
  PROVE  SessionInv'
<1>1. Segments' /\ Got' = Got /\ Used' = Used /\ Pieces' = Pieces
  BY SameSegments DEF SessionInv, ParseHttp
<1>2. /\ UNCHANGED <<client, arrived, cache, first, miState, answers, leaked, astray>>
      /\ pc = "parse" /\ miState = "WS_STATE_NONE"
      /\ \/ /\ StartsWithGet(cache) /\ mstrProtocol' = ProtocolOf(cache) /\ pc' = "handle"
            /\ msg' = <<[protocol |-> ProtocolOf(cache), http |-> cache, frame |-> <<>>]>>
         \/ pc' = "reset" /\ msg' = msg
  BY DEF ParseHttp, buffers, outcome
<1>3. Echoes' = Echoes /\ (Accepted' <=> Accepted)
  BY <1>2, SameAnswers
<1>4. OneMessage'
  <2>1. CASE pc' = "reset" /\ msg' = msg
    BY <1>2, <2>1 DEF SessionInv, OneMessage
  <2>2. CASE /\ StartsWithGet(cache) /\ mstrProtocol' = ProtocolOf(cache) /\ pc' = "handle"
             /\ msg' = <<[protocol |-> ProtocolOf(cache), http |-> cache, frame |-> <<>>]>>
    <3>0. PICK m : m = [protocol |-> ProtocolOf(cache), http |-> cache, frame |-> <<>>]
      OBVIOUS
    <3>1. HttpInHand(m)'
      BY <1>2, <2>2, <3>0 DEF HttpInHand
    <3>2. msg' = <<m>> /\ m.protocol = mstrProtocol'
      BY <2>2, <3>0
    <3> QED BY <2>2, <3>1, <3>2 DEF OneMessage
  <2> QED BY <1>2, <2>1, <2>2
<1>5. Typed' /\ FirstRead' /\ Drained' /\ OneOutcome' /\ Flow'
  BY <1>1, <1>2, <1>3 DEF SessionInv, Typed, FirstRead, Drained, OneOutcome, Flow
<1>6. BeforeFrames'
  <2>1. client.patient => arrived <= Len(client.request)
    <3>1. ~Accepted /\ arrived \in Nat /\ Len(client.request) \in Nat
      BY <1>2, PiecesAre DEF SessionInv, BeforeFrames, Segments
    <3> QED BY <3>1 DEF SessionInv, BeforeFrames
  <2>2. Got \in Nat /\ Got <= arrived /\ arrived \in Nat /\ Len(client.request) \in Nat
    BY SegmentsAre, PiecesAre DEF SessionInv, Segments
  <2>3. client.patient => Got <= Len(client.request)
    BY <2>1, <2>2
  <2> QED BY <1>1, <1>2, <1>3, <2>3 DEF SessionInv, BeforeFrames, Fresh
<1> QED BY <1>1, <1>4, <1>5, <1>6 DEF SessionInv

\* The text is dropped: if this was after the upgrade, the flow of messages
\* starts at what is left.
LEMMA ResetKeeps ==
  ASSUME SessionInv, ResetCache
  PROVE  SessionInv'
<1>1. Segments' /\ Got' = Got /\ Used' = Got /\ Pieces' = Pieces
  BY EmptySegments DEF SessionInv, ResetCache
<1>2. /\ UNCHANGED <<client, arrived, first, miState, mstrProtocol, msg, answers, leaked, astray>>
      /\ pc = "reset" /\ pc' = "wait" /\ cache' = <<>>
  BY DEF ResetCache, state, outcome
<1>3. Echoes' = Echoes /\ (Accepted' <=> Accepted)
  BY <1>2, SameAnswers
<1>4. msg = <<>> /\ OneMessage'
  BY <1>2 DEF SessionInv, OneMessage
<1>5. Typed' /\ Drained' /\ OneOutcome' /\ BeforeFrames'
  BY <1>1, <1>2, <1>3 DEF SessionInv, Typed, Drained, OneOutcome, BeforeFrames, Fresh
<1>6. Got \in Nat
  BY SegmentsAre DEF SessionInv
<1>7. FirstRead'
  BY <1>1, <1>2, <1>6 DEF SessionInv, Typed, FirstRead
<1>8. Flow'
  <2>1. Fresh /\ (client.patient => Got <= Len(client.request))
    BY <1>2 DEF SessionInv, BeforeFrames
  <2>2. InHand' = <<>> /\ Echoes' = <<>> /\ leaked' = <<>>
    BY <1>2, <1>3, <1>4, <2>1 DEF InHand, Fresh
  <2>3. SubSeq(Pieces, Got + 1, Got) = <<>>
    <3>1. Pieces \in Seq(Piece)
      BY SegmentsAre DEF SessionInv
    <3> QED BY <1>6, <3>1, SubSeqProperties
  <2>4. <<>> \o Ids(<<>>) \o Ids(<<>>) = Ids(<<>>)
    <3>1. Ids(<<>>) = <<>>
      BY IdsShort
    <3>2. <<>> \o <<>> \o <<>> = <<>>
      OBVIOUS
    <3> QED BY <3>1, <3>2
  <2>5. FlowFrom(Got)'
    BY <1>1, <1>2, <2>1, <2>2, <2>3, <2>4 DEF FlowFrom
  <2> QED BY <1>1, <1>6, <2>5 DEF Flow
<1> QED BY <1>1, <1>4, <1>5, <1>7, <1>8 DEF SessionInv

\* The frame that left the cache is the last of the flow.
LEMMA DecodeKeeps ==
  ASSUME SessionInv, DecodeMsg
  PROVE  SessionInv'
<1>1. /\ Segments' /\ Got' = Got /\ Used' = Used + 1 /\ Pieces' = Pieces /\ Used + 1 <= Got
      /\ Head(cache) = Pieces[Used + 1]
  BY DecodeSegments DEF SessionInv, DecodeMsg
<1>2. /\ UNCHANGED <<client, arrived, first, miState, mstrProtocol, answers, leaked, astray>>
      /\ pc = "parse" /\ pc' = "handle" /\ miState = "WS_STATE_CONNECT" /\ cache # <<>>
      /\ msg' = <<[protocol |-> mstrProtocol, http |-> <<>>, frame |-> <<Head(cache)>>]>>
  BY DEF DecodeMsg, Decoding, state, outcome
<1>3. Echoes' = Echoes /\ (Accepted' <=> Accepted)
  BY <1>2, SameAnswers
<1>4. /\ Got \in Nat /\ Used \in Nat /\ Pieces \in Seq(Piece) /\ Len(Pieces) \in Nat
      /\ arrived \in Nat /\ Got <= arrived /\ arrived <= Len(Pieces)
  BY SegmentsAre DEF SessionInv, Segments
<1>5. Used + 1 \in 1 .. Len(Pieces)
  BY <1>1, <1>4
<1> DEFINE x == Pieces[Used + 1]
<1>6. x \in Piece
  BY <1>4, <1>5
<1> HIDE DEF x
<1>7. PICK m : m = [protocol |-> mstrProtocol, http |-> <<>>, frame |-> <<x>>]
  OBVIOUS
<1>8. msg' = <<m>>
  BY <1>1, <1>2, <1>7 DEF x
<1>9. OneMessage'
  <2>1. m.frame = <<x>> /\ m.http = <<>> /\ m.protocol = mstrProtocol
    BY <1>7
  <2>2. <<x>> \in Seq(Piece) /\ Len(<<x>>) = 1 /\ <<x>>[1] = x
    BY <1>6
  <2>3. Used' >= 1 /\ Pieces'[Used'] = x
    BY <1>1, <1>4 DEF x
  <2>4. FrameInHand(m)'
    BY <1>2, <2>1, <2>2, <2>3 DEF FrameInHand
  <2> QED BY <1>2, <1>8, <2>1, <2>4 DEF OneMessage
<1>10. Typed' /\ Drained' /\ OneOutcome' /\ BeforeFrames'
  BY <1>1, <1>2, <1>3 DEF SessionInv, Typed, Drained, OneOutcome, BeforeFrames, Fresh
<1>11. FirstRead'
  BY <1>1, <1>2, <1>4 DEF SessionInv, Typed, FirstRead
<1>12. Flow'
  <2> SUFFICES ASSUME ~astray, mstrProtocol # GET
               PROVE  \E l \in 0 .. Used' : FlowFrom(l)'
    BY <1>2 DEF Flow
  <2>1. PICK l \in 0 .. Used : FlowFrom(l)
    BY <1>2 DEF SessionInv, Flow
  <2>2. InHand = <<>> /\ InHand' = <<x>>
    <3>1. msg = <<>>
      BY <1>2 DEF SessionInv, OneMessage
    <3>2. msg' # <<>> /\ msg'[1].frame = <<x>>
      BY <1>7, <1>8
    <3> QED BY <3>1, <3>2 DEF InHand
  <2> DEFINE e == Echoes \o Ids(leaked)
             u == Used
  <2>3. e \in Seq(Nat)
    <3>1. Echoes \in Seq(Nat)
      BY EchoesAre DEF SessionInv, Typed
    <3>2. Ids(leaked) \in Seq(Nat)
      BY IdsType DEF SessionInv, Typed
    <3> QED BY <3>1, <3>2, ConcatProperties
  <2>4. e = Ids(SubSeq(Pieces, l + 1, u))
    <3>1. e \o Ids(<<>>) = Ids(SubSeq(Pieces, l + 1, u))
      BY <2>1, <2>2 DEF FlowFrom
    <3> HIDE DEF e
    <3>2. e \o Ids(<<>>) = e
      BY <2>3, IdsShort, ConcatEmptySeq
    <3> QED BY <3>1, <3>2
  <2>5. SubSeq(Pieces, l + 1, u + 1) = SubSeq(Pieces, l + 1, u) \o <<x>>
        /\ SubSeq(Pieces, l + 1, u) \in Seq(Piece)
    <3>0. u \in Nat /\ l \in Nat /\ l <= u /\ u + 1 \in Nat /\ u + 1 <= Len(Pieces) /\ u <= u + 1 /\ u <= Len(Pieces)
      BY <1>4, <1>5
    <3> HIDE DEF u, e
    <3>1. SubSeq(Pieces, l + 1, u + 1) = SubSeq(Pieces, l + 1, u) \o SubSeq(Pieces, u + 1, u + 1)
      BY <1>4, <3>0, SegmentSplit
    <3>2. SubSeq(Pieces, l + 1, u) \in Seq(Piece)
      BY <1>4, <3>0, SegmentSplit
    <3>3. SubSeq(Pieces, u + 1, u + 1) = <<x>>
      <4>1. u < Len(Pieces)
        BY <3>0, <1>4
      <4>2. SubSeq(Pieces, u + 1, u + 1) = <<Pieces[u + 1]>>
        BY <1>4, <3>0, <4>1, SegmentOfOne
      <4> QED BY <4>2 DEF x, u
    <3> QED BY <3>1, <3>2, <3>3
  <2>6. Ids(SubSeq(Pieces, l + 1, u + 1)) = e \o Ids(<<x>>)
    <3>1. <<x>> \in Seq(Piece)
      BY <1>6
    <3> HIDE DEF u, e
    <3>2. Ids(SubSeq(Pieces, l + 1, u) \o <<x>>) = Ids(SubSeq(Pieces, l + 1, u)) \o Ids(<<x>>)
      BY <2>5, <3>1, IdsConcat
    <3> QED BY <2>4, <2>5, <3>2
  <2>7. FlowFrom(l)'
    <3>1. client'.patient => l <= Len(client'.request)
      BY <1>2, <2>1 DEF FlowFrom
    <3>2. Echoes' \o Ids(leaked') \o Ids(InHand') = e \o Ids(<<x>>)
      BY <1>2, <1>3, <2>2
    <3>3. SubSeq(Pieces', l + 1, Used') = SubSeq(Pieces, l + 1, u + 1)
      BY <1>1
    <3> QED BY <2>6, <3>1, <3>2, <3>3 DEF FlowFrom
  <2>8. l \in 0 .. Used'
    BY <1>1, <1>4
  <2> QED BY <2>7, <2>8
<1> QED BY <1>1, <1>9, <1>10, <1>11, <1>12 DEF SessionInv

\* The decoder goes astray, and nothing is claimed any more.
LEMMA DecodeTextKeeps ==
  ASSUME SessionInv, DecodeText
  PROVE  SessionInv'
<1>1. Segments' /\ Got' = Got /\ Used' = Got /\ Pieces' = Pieces
  BY EmptySegments DEF SessionInv, DecodeText
<1>2. /\ UNCHANGED <<client, arrived, first, miState, mstrProtocol, answers, leaked>>
      /\ pc = "parse" /\ miState = "WS_STATE_CONNECT" /\ cache' = <<>> /\ astray' = TRUE
      /\ \/ pc' = "wait" /\ msg' = msg
         \/ /\ \E type \in {WS_FRAME_CONTINUATION, WS_FRAME_TEXT} :
                 msg' = <<[protocol |-> mstrProtocol, http |-> <<>>, frame |-> <<MessagePiece(type, 0)>>]>>
            /\ pc' = "handle"
  BY DEF DecodeText, Decoding, state, outcome
<1>3. Echoes' = Echoes /\ (Accepted' <=> Accepted)
  BY <1>2, SameAnswers
<1>4. OneMessage'
  <2>1. CASE pc' = "wait" /\ msg' = msg
    BY <1>2, <2>1 DEF SessionInv, OneMessage
  <2>2. CASE pc' = "handle" /\ \E type \in {WS_FRAME_CONTINUATION, WS_FRAME_TEXT} :
                 msg' = <<[protocol |-> mstrProtocol, http |-> <<>>, frame |-> <<MessagePiece(type, 0)>>]>>
    <3>1. PICK type \in {WS_FRAME_CONTINUATION, WS_FRAME_TEXT} :
                 msg' = <<[protocol |-> mstrProtocol, http |-> <<>>, frame |-> <<MessagePiece(type, 0)>>]>>
      BY <2>2
    <3>2. MessagePiece(type, 0) \in Piece
      BY DEF MessagePiece, Piece, WS_FRAME_CONTINUATION, WS_FRAME_TEXT
    <3>3. PICK x \in Piece : x = MessagePiece(type, 0)
      BY <3>2
    <3>4. PICK m : m = [protocol |-> mstrProtocol, http |-> <<>>, frame |-> <<x>>]
      OBVIOUS
    <3>5. msg' = <<m>> /\ m.protocol = mstrProtocol /\ m.http = <<>> /\ m.frame = <<x>>
      BY <3>1, <3>3, <3>4
    <3>6. <<x>> \in Seq(Piece) /\ Len(<<x>>) = 1
      OBVIOUS
    <3>7. FrameInHand(m)'
      BY <1>2, <3>5, <3>6 DEF FrameInHand
    <3> QED BY <1>2, <2>2, <3>5, <3>7 DEF OneMessage
  <2> QED BY <1>2, <2>1, <2>2
<1>5. Got \in Nat
  BY SegmentsAre DEF SessionInv
<1>6. Typed' /\ FirstRead' /\ Drained' /\ OneOutcome' /\ Flow' /\ BeforeFrames'
  BY <1>1, <1>2, <1>3, <1>5 DEF SessionInv, Typed, FirstRead, Drained, OneOutcome, Flow, BeforeFrames, Fresh
<1> QED BY <1>1, <1>4, <1>6 DEF SessionInv

\* All frames were decoded.
LEMMA DecodeEndKeeps ==
  ASSUME SessionInv, DecodeEnd
  PROVE  SessionInv'
<1>1. Segments' /\ Got' = Got /\ Used' = Used /\ Pieces' = Pieces
  BY SameSegments DEF SessionInv, DecodeEnd
<1>2. /\ UNCHANGED <<client, arrived, cache, first, miState, mstrProtocol, msg, answers, leaked, astray>>
      /\ pc = "parse" /\ pc' = "wait" /\ cache = <<>>
  BY DEF DecodeEnd, Decoding, buffers, state, outcome
<1>3. Echoes' = Echoes /\ (Accepted' <=> Accepted)
  BY <1>2, SameAnswers
<1>4. OneMessage'
  BY <1>2 DEF SessionInv, OneMessage
<1>5. InHand' = InHand
  BY <1>2 DEF InHand
<1>6. Typed' /\ FirstRead' /\ Drained' /\ OneOutcome' /\ BeforeFrames'
  BY <1>1, <1>2, <1>3 DEF SessionInv, Typed, FirstRead, Drained, OneOutcome, BeforeFrames, Fresh
<1>7. Flow'
  BY <1>1, <1>2, <1>3, <1>5 DEF SessionInv, Flow, FlowFrom
<1> QED BY <1>1, <1>4, <1>6, <1>7 DEF SessionInv

\* The message that is handled.
LEMMA InHandIs ==
  ASSUME SessionInv, NEW m, pc = "handle", msg = <<m>>
  PROVE  m.protocol = mstrProtocol /\ (HttpInHand(m) \/ FrameInHand(m)) /\ InHand = m.frame
<1>1. PICK x : msg = <<x>> /\ x.protocol = mstrProtocol /\ (HttpInHand(x) \/ FrameInHand(x))
  BY DEF SessionInv, OneMessage
<1>2. x = m
  BY <1>1
<1>3. InHand = m.frame
  <2>1. msg # <<>> /\ msg[1] = m
    OBVIOUS
  <2> QED BY <2>1 DEF InHand
<1> QED BY <1>1, <1>2, <1>3

\* What every path of the dispatch does.
LEMMA HandledIs ==
  ASSUME SessionInv, NEW m, Handled(m)
  PROVE  /\ UNCHANGED <<client, arrived, cache, first, astray>> /\ pc' = Return(m)
         /\ m.protocol = mstrProtocol /\ InHand = m.frame /\ InHand' = <<>>
         /\ \/ HttpInHand(m) /\ pc' = "reset"
            \/ FrameInHand(m) /\ pc' = "parse"
         /\ Segments' /\ Got' = Got /\ Used' = Used /\ Pieces' = Pieces
         /\ Drained' /\ FirstRead' /\ OneMessage' /\ pc = "handle"
<1>1. /\ UNCHANGED <<client, arrived, cache, first, astray>> /\ pc' = Return(m)
      /\ pc = "handle" /\ msg = <<m>> /\ msg' = <<>>
  BY DEF Handled, buffers
<1>2. Segments' /\ Got' = Got /\ Used' = Used /\ Pieces' = Pieces
  BY SameSegments DEF SessionInv, Handled
<1>3. m.protocol = mstrProtocol /\ (HttpInHand(m) \/ FrameInHand(m)) /\ InHand = m.frame
  BY <1>1, InHandIs
<1>4. HttpInHand(m) => pc' = "reset"
  <2>1. HttpInHand(m) => m.http # <<>>
    BY DEF HttpInHand, StartsWithGet
  <2> QED BY <1>1, <2>1 DEF Return
<1>5. FrameInHand(m) => pc' = "parse"
  BY <1>1 DEF FrameInHand, Return
<1>6. InHand' = <<>>
  BY <1>1 DEF InHand
<1>7. pc' \in {"parse", "reset"}
  BY <1>1 DEF Return
<1>8. Drained' /\ FirstRead'
  BY <1>1, <1>2, <1>7 DEF SessionInv, Drained, FirstRead
<1>9. OneMessage'
  BY <1>1, <1>7 DEF OneMessage
<1> QED BY <1>1, <1>2, <1>3, <1>4, <1>5, <1>6, <1>8, <1>9

\* The frame that is handled is the last that left the cache, and its data
\* message has no outcome yet.
LEMMA FrameIs ==
  ASSUME SessionInv, NEW m, pc = "handle", InHand = m.frame, FrameInHand(m)
  PROVE  /\ m.frame \in Seq(Piece) /\ m.frame[1] \in Piece /\ m.frame = <<m.frame[1]>>
         /\ Ids(m.frame) = IdOf(m.frame[1]) /\ Echoes \in Seq(Nat) /\ Ids(leaked) \in Seq(Nat)
<1> DEFINE f == m.frame
<1>1. f \in Seq(Piece) /\ Len(f) = 1
  BY DEF FrameInHand
<1> HIDE DEF f
<1>2. f[1] \in Piece /\ f = <<f[1]>>
  BY <1>1
<1>3. Ids(<<f[1]>>) = IdOf(f[1])
  BY <1>2, IdsShort
<1>4. Echoes \in Seq(Nat) /\ Ids(leaked) \in Seq(Nat)
  BY EchoesAre, IdsType DEF SessionInv, Typed
<1>5. Ids(f) = IdOf(f[1])
  BY <1>2, <1>3
<1> QED BY <1>1, <1>2, <1>4, <1>5 DEF f

\* A frame that is not data has no number.
LEMMA IgnoreKeeps ==
  ASSUME SessionInv, NEW m, IgnoreFrame(m)
  PROVE  SessionInv'
<1>1. /\ UNCHANGED <<client, arrived, cache, first, astray>>
      /\ m.protocol = mstrProtocol /\ InHand = m.frame /\ InHand' = <<>>
      /\ \/ HttpInHand(m) /\ pc' = "reset"
         \/ FrameInHand(m) /\ pc' = "parse"
      /\ Segments' /\ Got' = Got /\ Used' = Used /\ Pieces' = Pieces
      /\ Drained' /\ FirstRead' /\ OneMessage' /\ pc = "handle"
  BY HandledIs DEF IgnoreFrame
<1>2. UNCHANGED <<miState, mstrProtocol, answers, leaked>> /\ m.frame # <<>> /\ ~ IsData(m.frame[1])
  BY DEF IgnoreFrame, Ignored, state, outcome
<1>3. Echoes' = Echoes /\ (Accepted' <=> Accepted)
  BY <1>2, SameAnswers
<1>4. FrameInHand(m) /\ pc' = "parse"
  BY <1>1, <1>2 DEF HttpInHand
<1>5. Typed' /\ BeforeFrames' /\ OneOutcome'
  BY <1>1, <1>2, <1>3, <1>4 DEF SessionInv, Typed, BeforeFrames, Fresh, OneOutcome
<1>6. Flow'
  <2>1. Ids(InHand) = <<>> /\ Ids(InHand') = <<>>
    BY <1>1, <1>2, <1>4, FrameIs, IdsShort DEF IdOf
  <2>2. \A l : FlowFrom(l) => FlowFrom(l)'
    BY <1>1, <1>2, <1>3, <2>1 DEF FlowFrom
  <2> QED BY <1>1, <1>2, <2>2 DEF SessionInv, Flow
<1> QED BY <1>1, <1>5, <1>6 DEF SessionInv

\* The message in hand is leaked; none was echoed.
LEMMA NoHandlerKeeps ==
  ASSUME SessionInv, NEW m, NoHandler(m)
  PROVE  SessionInv'
<1>1. /\ UNCHANGED <<client, arrived, cache, first, astray>>
      /\ m.protocol = mstrProtocol /\ InHand = m.frame /\ InHand' = <<>>
      /\ \/ HttpInHand(m) /\ pc' = "reset"
         \/ FrameInHand(m) /\ pc' = "parse"
      /\ Segments' /\ Got' = Got /\ Used' = Used /\ Pieces' = Pieces
      /\ Drained' /\ FirstRead' /\ OneMessage' /\ pc = "handle"
  BY HandledIs DEF NoHandler
<1>2. /\ UNCHANGED <<miState, mstrProtocol, answers>> /\ leaked' = leaked \o m.frame
      /\ m.protocol \notin Registered
  BY DEF NoHandler, state
<1>3. Echoes' = Echoes /\ (Accepted' <=> Accepted)
  BY <1>2, SameAnswers
<1>4. FrameInHand(m) /\ pc' = "parse" /\ miState = "WS_STATE_CONNECT"
  BY <1>1, <1>2 DEF HttpInHand, FrameInHand, ProtocolOf, Registered
<1>5. leaked \in Seq(Piece) /\ m.frame \in Seq(Piece)
  BY <1>1, <1>4, FrameIs DEF SessionInv, Typed
<1>6. leaked' \in Seq(Piece) /\ Ids(leaked') = Ids(leaked) \o Ids(m.frame)
  BY <1>2, <1>5, IdsConcat, ConcatProperties
<1>7. Typed' /\ BeforeFrames' /\ OneOutcome'
  BY <1>1, <1>2, <1>3, <1>4, <1>6 DEF SessionInv, Typed, BeforeFrames, Fresh, OneOutcome
<1>8. Flow'
  <2>1. Echoes = <<>>
    BY <1>1, <1>2, <1>4 DEF SessionInv, OneOutcome, Registered
  <2>2. Echoes \o Ids(leaked) \o Ids(InHand) = Echoes' \o Ids(leaked') \o Ids(InHand')
    <3> DEFINE a == Ids(leaked)
               b == Ids(m.frame)
    <3>1. a \in Seq(Nat) /\ b \in Seq(Nat)
      BY <1>5, IdsType
    <3>2. Ids(leaked') = a \o b /\ Ids(InHand') = <<>> /\ Ids(InHand) = b
      BY <1>1, <1>6, IdsShort
    <3> HIDE DEF a, b
    <3>3. <<>> \o a = a /\ a \o b \in Seq(Nat)
      BY <3>1, ConcatEmptySeq, ConcatProperties
    <3> DEFINE c == a \o b
    <3>4. <<>> \o c = c /\ c \o <<>> = c
      BY <3>3, ConcatEmptySeq
    <3>5. Echoes \o Ids(leaked) \o Ids(InHand) = c
      BY <2>1, <3>2, <3>3 DEF a
    <3>6. Echoes' \o Ids(leaked') \o Ids(InHand') = c
      BY <1>3, <2>1, <3>2, <3>4
    <3> QED BY <3>5, <3>6
  <2>3. \A l : FlowFrom(l) => FlowFrom(l)'
    BY <1>1, <1>2, <2>2 DEF FlowFrom
  <2> QED BY <1>1, <1>2, <2>3 DEF SessionInv, Flow
<1> QED BY <1>1, <1>7, <1>8 DEF SessionInv

\* A page is neither an echo nor the answer to a key.
LEMMA GetKeeps ==
  ASSUME SessionInv, NEW m, GetHandler(m)
  PROVE  SessionInv'
<1>1. /\ UNCHANGED <<client, arrived, cache, first, astray>>
      /\ m.protocol = mstrProtocol /\ InHand = m.frame /\ InHand' = <<>>
      /\ \/ HttpInHand(m) /\ pc' = "reset"
         \/ FrameInHand(m) /\ pc' = "parse"
      /\ Segments' /\ Got' = Got /\ Used' = Used /\ Pieces' = Pieces
      /\ Drained' /\ FirstRead' /\ OneMessage' /\ pc = "handle"
  BY HandledIs DEF GetHandler
<1>2. /\ UNCHANGED <<miState, mstrProtocol, leaked>> /\ mstrProtocol = GET
      /\ (answers' = Append(answers, [kind |-> "page"]) \/ answers' = answers)
  BY <1>1 DEF GetHandler, state
<1>3. answers' \in Seq(Answer) /\ Echoes' = Echoes /\ (Accepted' <=> Accepted)
  <2>1. CASE answers' = answers
    BY <2>1, SameAnswers DEF SessionInv, Typed
  <2>2. CASE answers' = Append(answers, [kind |-> "page"])
    <3> DEFINE a == [kind |-> "page"]
    <3>1. a \in Answer /\ a.kind = "page"
      BY DEF Answer
    <3>2. answers \in Seq(Answer) /\ answers' = Append(answers, a)
      BY <2>2 DEF SessionInv, Typed
    <3> HIDE DEF a
    <3>3. /\ answers' \in Seq(Answer) /\ Echoes' = Echoes \o EchoOf(a) /\ Echoes \in Seq(Nat)
          /\ (Accepted' <=> Accepted \/ (a.kind = "101" /\ a.key = "whole"))
      BY <3>1, <3>2, EchoesAppend
    <3>4. EchoOf(a) = <<>> /\ Echoes \o <<>> = Echoes
      BY <3>1, <3>3, ConcatEmptySeq DEF EchoOf
    <3> QED BY <3>1, <3>3, <3>4
  <2> QED BY <1>2, <2>1, <2>2
<1>4. client.patient /\ miState = "WS_STATE_NONE" => Got <= Len(client.request)
  <2>1. Got \in Nat /\ Got <= arrived /\ arrived \in Nat /\ Len(client.request) \in Nat
    BY SegmentsAre, PiecesAre DEF SessionInv, Segments
  <2> QED BY <2>1 DEF SessionInv, BeforeFrames
<1>5. Typed' /\ OneOutcome' /\ Flow'
  BY <1>1, <1>2, <1>3 DEF SessionInv, Typed, OneOutcome, Flow
<1>6. BeforeFrames'
  BY <1>1, <1>2, <1>3, <1>4 DEF SessionInv, BeforeFrames, Fresh, HttpInHand
<1> QED BY <1>1, <1>5, <1>6 DEF SessionInv

\* The upgrade: only text leads to it, before any message had an outcome.
LEMMA UpgradeKeeps ==
  ASSUME SessionInv, NEW m, UpgradeHandler(m)
  PROVE  /\ SessionInv' /\ HttpInHand(m)
         /\ (Accepted' <=> Accepted \/ Key(m.http) = "whole")
<1>1. /\ UNCHANGED <<client, arrived, cache, first, astray>>
      /\ m.protocol = mstrProtocol /\ InHand = m.frame /\ InHand' = <<>>
      /\ \/ HttpInHand(m) /\ pc' = "reset"
         \/ FrameInHand(m) /\ pc' = "parse"
      /\ Segments' /\ Got' = Got /\ Used' = Used /\ Pieces' = Pieces
      /\ Drained' /\ FirstRead' /\ OneMessage' /\ pc = "handle"
  BY HandledIs DEF UpgradeHandler
<1>2. /\ answers' = Append(answers, [kind |-> "101", key |-> Key(m.http), protocol |-> Protocol(m.http)])
      /\ miState' = "WS_STATE_CONNECT" /\ leaked' = leaked /\ Key(m.http) # ""
      /\ mstrProtocol' = (IF Protocol(m.http) = "" THEN WS_PROTOCOL_BLANK ELSE Protocol(m.http))
  BY DEF UpgradeHandler
<1>3. HttpInHand(m) /\ pc' = "reset"
  <2>1. FrameInHand(m) => Key(m.http) = ""
    BY DEF FrameInHand, Key, Value, PartsOf
  <2> QED BY <1>1, <1>2, <2>1
<1>4. Key(m.http) \in {"whole", "cut"} /\ Protocol(m.http) \in Asked
      /\ Protocol(m.http) \in {client.protocol, "cut", ""}
  <2>1. client \in Clients
    BY DEF SessionInv, Segments
  <2>2. Protocol(m.http) \in {client.protocol, "cut", ""}
    BY DEF Protocol, Value
  <2>3. Key(m.http) \in {"whole", "cut"}
    BY <1>2 DEF Key, Value
  <2> QED BY <2>1, <2>2, <2>3 DEF Asked
<1>5. PICK a \in Answer : a = [kind |-> "101", key |-> Key(m.http), protocol |-> Protocol(m.http)]
  <2> DEFINE a == [kind |-> "101", key |-> Key(m.http), protocol |-> Protocol(m.http)]
  <2>1. a \in [kind : {"101"}, key : {"whole", "cut"}, protocol : Asked]
    BY <1>4
  <2>2. a \in Answer
    BY <2>1, Zenon DEF Answer
  <2> HIDE DEF a
  <2> QED BY <2>2 DEF a
<1>6. a.kind = "101" /\ a.key = Key(m.http) /\ answers' = Append(answers, a)
  BY <1>2, <1>5
<1>7. /\ answers' \in Seq(Answer) /\ Echoes' = Echoes \o EchoOf(a) /\ Echoes \in Seq(Nat)
      /\ (Accepted' <=> Accepted \/ (a.kind = "101" /\ a.key = "whole"))
  BY <1>6, EchoesAppend DEF SessionInv, Typed
<1>8. Echoes' = Echoes
  <2>1. EchoOf(a) = <<>> /\ Echoes \o <<>> = Echoes
    BY <1>6, <1>7, ConcatEmptySeq DEF EchoOf
  <2> QED BY <1>7, <2>1
<1>9. Fresh /\ ~astray /\ ~Accepted
  BY <1>3 DEF SessionInv, BeforeFrames, HttpInHand
<1>10. client.patient => Got <= Len(client.request)
  <2>1. Got \in Nat /\ Got <= arrived /\ arrived \in Nat /\ Len(client.request) \in Nat
    BY SegmentsAre, PiecesAre DEF SessionInv, Segments
  <2> QED BY <1>9, <2>1 DEF SessionInv, BeforeFrames
<1>11. Typed' /\ BeforeFrames' /\ Flow'
  BY <1>1, <1>2, <1>3, <1>7, <1>8, <1>9, <1>10 DEF SessionInv, Typed, BeforeFrames, Fresh, Flow
<1>12. OneOutcome'
  BY <1>1, <1>2, <1>4, <1>8, <1>9 DEF OneOutcome, Fresh
<1> QED BY <1>1, <1>3, <1>6, <1>7, <1>11, <1>12 DEF SessionInv

\* The process is gone.
LEMMA CrashKeeps ==
  ASSUME SessionInv, NEW m, UpgradeCrash(m)
  PROVE  SessionInv'
<1>1. Segments' /\ Got' = Got /\ Used' = Used /\ Pieces' = Pieces
  BY SameSegments DEF SessionInv, UpgradeCrash
<1>2. /\ UNCHANGED <<client, arrived, cache, first, miState, mstrProtocol, msg, answers, leaked, astray>>
      /\ pc = "handle" /\ pc' = "crashed"
  BY DEF UpgradeCrash, buffers, state
<1>3. Echoes' = Echoes /\ (Accepted' <=> Accepted)
  BY <1>2, SameAnswers
<1>4. OneMessage'
  BY <1>1, <1>2 DEF SessionInv, OneMessage, HttpInHand, FrameInHand
<1>5. InHand' = InHand
  BY <1>2 DEF InHand
<1>6. Typed' /\ FirstRead' /\ Drained' /\ OneOutcome' /\ BeforeFrames'
  BY <1>1, <1>2, <1>3 DEF SessionInv, Typed, FirstRead, Drained, OneOutcome, BeforeFrames, Fresh
<1>7. Flow'
  BY <1>1, <1>2, <1>3, <1>5 DEF SessionInv, Flow, FlowFrom
<1> QED BY <1>1, <1>4, <1>6, <1>7 DEF SessionInv

\* The message in hand is echoed; none was leaked.
LEMMA EchoKeeps ==
  ASSUME SessionInv, NEW m, EchoHandler(m)
  PROVE  SessionInv'
<1>1. /\ UNCHANGED <<client, arrived, cache, first, astray>>
      /\ m.protocol = mstrProtocol /\ InHand = m.frame /\ InHand' = <<>>
      /\ \/ HttpInHand(m) /\ pc' = "reset"
         \/ FrameInHand(m) /\ pc' = "parse"
      /\ Segments' /\ Got' = Got /\ Used' = Used /\ Pieces' = Pieces
      /\ Drained' /\ FirstRead' /\ OneMessage' /\ pc = "handle"
  BY HandledIs DEF EchoHandler
<1>2. /\ UNCHANGED <<miState, mstrProtocol, leaked>> /\ mstrProtocol = WS_PROTOCOL_ECHO
      /\ answers' = Append(answers, [kind |-> "echo", id |-> m.frame[1].id])
      /\ ~ Ignored(m)
  BY <1>1 DEF EchoHandler, state
<1>3. FrameInHand(m) /\ pc' = "parse" /\ miState = "WS_STATE_CONNECT"
  BY <1>1, <1>2 DEF HttpInHand, FrameInHand, ProtocolOf, WS_PROTOCOL_ECHO, GET, WEBSOCKETKEY
<1>4. /\ m.frame[1] \in Piece /\ m.frame # <<>>
      /\ Ids(m.frame) = IdOf(m.frame[1]) /\ Echoes \in Seq(Nat)
  BY <1>1, <1>3, FrameIs DEF FrameInHand
<1> DEFINE n == m.frame[1].id
<1>5. n \in Nat /\ Ids(m.frame) = <<n>>
  BY <1>2, <1>4 DEF Ignored, IdOf, Piece
<1> HIDE DEF n
<1>6. PICK a \in Answer : a = [kind |-> "echo", id |-> n]
  BY <1>5 DEF Answer
<1>7. a.kind = "echo" /\ a.id = n /\ answers' = Append(answers, a)
  BY <1>2, <1>6 DEF n
<1>8. /\ answers' \in Seq(Answer) /\ Echoes' = Echoes \o EchoOf(a)
      /\ (Accepted' <=> Accepted \/ (a.kind = "101" /\ a.key = "whole"))
  BY <1>7, EchoesAppend DEF SessionInv, Typed
<1>9. Echoes' = Echoes \o <<n>> /\ (Accepted' <=> Accepted)
  BY <1>7, <1>8 DEF EchoOf
<1>10. Typed' /\ BeforeFrames' /\ OneOutcome'
  BY <1>1, <1>2, <1>3, <1>8, <1>9 DEF SessionInv, Typed, BeforeFrames, Fresh, OneOutcome
<1>11. Flow'
  <2>1. leaked = <<>> /\ leaked' = <<>>
    BY <1>2, <1>3 DEF SessionInv, OneOutcome, Registered
  <2>2. Echoes \o Ids(leaked) \o Ids(InHand) = Echoes' \o Ids(leaked') \o Ids(InHand')
    <3>1. <<n>> \in Seq(Nat)
      BY <1>5
    <3> DEFINE e == Echoes
               x == <<n>>
               c == e \o x
    <3>2. e \in Seq(Nat) /\ x \in Seq(Nat)
      BY <1>4, <3>1
    <3> HIDE DEF e, x
    <3>3. e \o <<>> = e /\ c \in Seq(Nat)
      BY <3>2, ConcatEmptySeq, ConcatProperties
    <3> HIDE DEF c
    <3>4. c \o <<>> = c
      BY <3>3, ConcatEmptySeq
    <3>5. Ids(<<>>) = <<>> /\ Ids(InHand) = x /\ Ids(InHand') = <<>>
      BY <1>1, <1>5, IdsShort DEF x
    <3>6. Echoes \o Ids(leaked) \o Ids(InHand) = c
      BY <2>1, <3>3, <3>5 DEF c, e
    <3>7. Echoes' \o Ids(leaked') \o Ids(InHand') = c
      <4>1. Echoes' = c
        BY <1>9 DEF c, e, x
      <4> QED BY <2>1, <3>4, <3>5, <4>1
    <3> QED BY <3>6, <3>7
  <2>3. \A l : FlowFrom(l) => FlowFrom(l)'
    BY <1>1, <1>2, <2>2 DEF FlowFrom
  <2> QED BY <1>1, <1>2, <1>3, <2>3 DEF SessionInv, Flow
<1> QED BY <1>1, <1>10, <1>11 DEF SessionInv

\* Nothing happens.
LEMMA StutterKeeps ==
  ASSUME SessionInv, UNCHANGED vars
  PROVE  SessionInv' /\ (Accepted' <=> Accepted)
<1>1. UNCHANGED <<client, arrived, recvBuffer, cache, first, miState, mstrProtocol, msg, pc, answers, leaked, astray>>
  BY DEF vars, buffers, state, outcome
<1>2. Segments' /\ Got' = Got /\ Used' = Used /\ Pieces' = Pieces
  BY <1>1, SameSegments DEF SessionInv, buffers
<1>3. Echoes' = Echoes /\ (Accepted' <=> Accepted)
  BY <1>1, SameAnswers
<1>4. OneMessage'
  BY <1>1, <1>2 DEF SessionInv, OneMessage, HttpInHand, FrameInHand
<1>5. InHand' = InHand
  BY <1>1 DEF InHand
<1>6. Typed' /\ FirstRead' /\ Drained' /\ OneOutcome' /\ BeforeFrames'
  BY <1>1, <1>2, <1>3 DEF SessionInv, Typed, FirstRead, Drained, OneOutcome, BeforeFrames, Fresh
<1>7. Flow'
  BY <1>1, <1>2, <1>3, <1>5 DEF SessionInv, Flow, FlowFrom
<1> QED BY <1>2, <1>3, <1>4, <1>6, <1>7 DEF SessionInv

\* The connection was just accepted.
LEMMA SessionStarts == Init => SessionInv
<1> SUFFICES ASSUME Init PROVE SessionInv
  OBVIOUS
<1>1. /\ client \in Clients /\ arrived = 0 /\ recvBuffer = <<>> /\ cache = <<>> /\ first = 0
      /\ miState = "WS_STATE_NONE" /\ msg = <<>> /\ pc = "wait" /\ answers = <<>> /\ leaked = <<>>
      /\ astray = FALSE
  BY DEF Init
<1>2. Got = 0 /\ Used = 0
  <2>1. Len(<<>>) = 0
    OBVIOUS
  <2>2. Len(recvBuffer) = 0 /\ Len(cache) = 0
    BY <1>1, <2>1
  <2>3. Got = 0 - 0
    BY <1>1, <2>2 DEF Got
  <2>4. Got = 0
    BY ONLY <2>3, SMT
  <2>5. Used = 0 - 0
    BY <2>2, <2>4 DEF Used
  <2> QED BY ONLY <2>4, <2>5, SMT
<1>3. Pieces \in Seq(Piece) /\ Len(Pieces) \in Nat /\ Len(client.request) \in Nat
  BY <1>1, PiecesAre
<1>4. SubSeq(Pieces, 1, 0) = <<>> /\ 0 + 1 = 1
  BY <1>3, SubSeqProperties
<1>5. Segments
  BY <1>1, <1>2, <1>3, <1>4 DEF Segments
<1>6. Echoes = <<>> /\ ~Accepted
  <2>1. Echoes = <<>>
    <3>1. [i \in 1 .. Len(answers) |-> EchoOf(answers[i])] = <<>>
      BY <1>1, EmptySeq
    <3>2. FlattenSeq(<<>>) = <<>>
      BY DEF FlattenSeq
    <3> QED BY <3>1, <3>2 DEF Echoes
  <2>2. ~Accepted
    BY <1>1 DEF Accepted
  <2> QED BY <2>1, <2>2
<1>7. Typed
  <2>1. answers \in Seq(Answer) /\ leaked \in Seq(Piece)
    BY <1>1
  <2> QED BY <1>1, <2>1 DEF Typed
<1>9. Drained /\ FirstRead /\ OneMessage
  BY <1>1, <1>2 DEF Drained, FirstRead, OneMessage
<1>10. OneOutcome /\ Flow
  BY <1>1 DEF OneOutcome, Flow
<1>8. BeforeFrames
  BY <1>1, <1>3, <1>6 DEF BeforeFrames, Fresh
<1> QED BY <1>5, <1>7, <1>8, <1>9, <1>10 DEF SessionInv

\* Every step of the event loop and of the task thread.
LEMMA SessionStep == SessionInv /\ [Next]_vars => SessionInv'
<1> SUFFICES ASSUME SessionInv, [Next]_vars PROVE SessionInv'
  OBVIOUS
<1>1. ASSUME NEW n \in 1 .. Len(Pieces), Arrive(n) PROVE SessionInv'
  BY <1>1, ArriveKeeps
<1>2. CASE ProcMsg
  BY <1>2, ProcKeeps
<1>3. CASE ParseHttp
  BY <1>3, ParseKeeps
<1>4. CASE ResetCache
  BY <1>4, ResetKeeps
<1>5. CASE DecodeMsg
  BY <1>5, DecodeKeeps
<1>6. CASE DecodeText
  BY <1>6, DecodeTextKeeps
<1>7. CASE DecodeEnd
  BY <1>7, DecodeEndKeeps
<1>8. ASSUME NEW i \in 1 .. Len(msg), Handle(msg[i]) PROVE SessionInv'
  BY <1>8, IgnoreKeeps, NoHandlerKeeps, GetKeeps, UpgradeKeeps, CrashKeeps, EchoKeeps DEF Handle
<1>9. CASE UNCHANGED vars
  BY <1>9, StutterKeeps
<1> QED BY <1>1, <1>2, <1>3, <1>4, <1>5, <1>6, <1>7, <1>8, <1>9 DEF Next, Task

\* The invariant holds throughout.
LEMMA SessionAlways == Spec => []SessionInv
BY SessionStarts, SessionStep, PTL DEF Spec

-----------------------------------------------------------------------------
(* What follows of it. *)

\* The type invariant is part of it.
LEMMA TypeFollows == SessionInv => TypeOK
<1> SUFFICES ASSUME SessionInv PROVE TypeOK
  OBVIOUS
<1>1. /\ client \in Clients /\ arrived \in Nat /\ arrived <= Len(Pieces) /\ Len(Pieces) \in Nat
      /\ Got \in Nat /\ Got <= arrived /\ Used \in Nat /\ Used <= Got
      /\ Len(recvBuffer) = arrived - Got /\ Len(cache) = Got - Used
      /\ (\A n \in 1 .. Got - Used : cache[n] = Pieces[Used + n])
      /\ \A n \in 1 .. arrived - Got : recvBuffer[n] = Pieces[Got + n]
  <2>1. Segments
    BY DEF SessionInv
  <2>2. /\ Pieces \in Seq(Piece) /\ Len(Pieces) \in Nat /\ Got \in Nat /\ Used \in Nat
        /\ Len(recvBuffer) = arrived - Got /\ Len(cache) = Got - Used
        /\ (\A n \in 1 .. Got - Used : cache[n] = Pieces[Used + n])
        /\ \A n \in 1 .. arrived - Got : recvBuffer[n] = Pieces[Got + n]
    BY <2>1, SegmentsAre, Zenon
  <2>3. /\ client \in Clients /\ arrived \in Nat /\ arrived <= Len(Pieces)
        /\ Got \in 0 .. arrived /\ Used \in 0 .. Got
    BY <2>1, Zenon DEF Segments
  <2> QED BY <2>2, <2>3
<1>2. {recvBuffer[i] : i \in 1 .. Len(recvBuffer)} \subseteq {Pieces[i] : i \in 1 .. arrived}
  <2> SUFFICES ASSUME NEW i \in 1 .. Len(recvBuffer)
               PROVE  recvBuffer[i] \in {Pieces[k] : k \in 1 .. arrived}
    OBVIOUS
  <2>1. i \in 1 .. arrived - Got /\ Got + i \in 1 .. arrived
    BY <1>1
  <2> QED BY <1>1, <2>1
<1>3. {cache[i] : i \in 1 .. Len(cache)} \subseteq {Pieces[i] : i \in 1 .. arrived}
  <2> SUFFICES ASSUME NEW i \in 1 .. Len(cache)
               PROVE  cache[i] \in {Pieces[k] : k \in 1 .. arrived}
    OBVIOUS
  <2>1. i \in 1 .. Got - Used /\ Used + i \in 1 .. arrived
    BY <1>1
  <2> QED BY <1>1, <2>1
<1>4. first \in 0 .. arrived
  BY <1>1 DEF SessionInv, Typed, FirstRead
<1>5. pc \in {"wait", "parse", "handle", "reset", "crashed"}
      /\ Len(msg) = (IF pc \in {"handle", "crashed"} THEN 1 ELSE 0)
  BY DEF SessionInv, OneMessage
<1>6. client \in Clients /\ arrived \in 0 .. Len(Pieces)
  BY <1>1
<1>7. miState \in {"WS_STATE_NONE", "WS_STATE_CONNECT"} /\ astray \in BOOLEAN
  BY DEF SessionInv, Typed
<1> QED BY ONLY <1>2, <1>3, <1>4, <1>5, <1>6, <1>7, Zenon DEF TypeOK

\* The messages of the stream, in parts.
LEMMA IdsSplit ==
  ASSUME client \in Clients, NEW i \in Nat, NEW j \in Nat, NEW k \in Nat,
         i <= j, j <= k, k <= Len(Pieces)
  PROVE  /\ Ids(SubSeq(Pieces, i + 1, k)) = Ids(SubSeq(Pieces, i + 1, j)) \o Ids(SubSeq(Pieces, j + 1, k))
         /\ Ids(SubSeq(Pieces, i + 1, j)) \in Seq(Nat) /\ Ids(SubSeq(Pieces, j + 1, k)) \in Seq(Nat)
<1>1. Pieces \in Seq(Piece) /\ Len(Pieces) \in Nat
  <2>1. Pieces \in Seq(Piece)
    BY PiecesAre
  <2> QED BY <2>1
<1> DEFINE s == Pieces
           a == SubSeq(s, i + 1, j)
           b == SubSeq(s, j + 1, k)
           c == SubSeq(s, i + 1, k)
<1>5. s \in Seq(Piece) /\ k <= Len(s) /\ j <= Len(s)
  BY <1>1
<1> HIDE DEF s
<1>2. c = a \o b
  BY <1>5, SegmentSplit
<1>3. a \in Seq(Piece)
  BY <1>5, SegmentSplit
<1>4. b \in Seq(Piece)
  BY <1>5, SegmentSplit
<1> HIDE DEF a, b, c
<1>6. Ids(c) = Ids(a) \o Ids(b) /\ Ids(a) \in Seq(Nat) /\ Ids(b) \in Seq(Nat)
  <2>1. c = a \o b
    BY <1>2
  <2>2. Ids(a \o b) = Ids(a) \o Ids(b)
    BY <1>3, <1>4, IdsConcat
  <2>3. Ids(a) \in Seq(Nat) /\ Ids(b) \in Seq(Nat)
    BY <1>3, <1>4, IdsType
  <2> QED BY <2>1, <2>2, <2>3
<1> QED BY <1>6 DEF a, b, c, s

\* Before the connection speaks frames nothing has come but the request; then
\* the messages flow, or the rest of the request is about to be dropped.
LEMMA DroppedFollows == SessionInv => NothingDropped
<1> SUFFICES ASSUME SessionInv, client.patient, ~astray, client.protocol # GET
             PROVE  Echoes \o Ids(leaked) \o Ids(InHand) \o Ids(cache) \o Ids(recvBuffer)
                        = Ids(SubSeq(Pieces, 1, arrived))
  BY DEF NothingDropped
<1> DEFINE A == SubSeq(Pieces, 1, Used)
           C == Ids(cache)
           R == Ids(recvBuffer)
           E == Echoes \o Ids(leaked) \o Ids(InHand)
<1>1. /\ client \in Clients /\ arrived \in Nat /\ arrived <= Len(Pieces) /\ Len(Pieces) \in Nat
      /\ Got \in Nat /\ Got <= arrived /\ Used \in Nat /\ Used <= Got
      /\ recvBuffer = SubSeq(Pieces, Got + 1, arrived) /\ cache = SubSeq(Pieces, Used + 1, Got)
  BY SegmentsAre DEF SessionInv, Segments
<1>2. Len(client.request) \in Nat /\ Len(client.request) <= Len(Pieces)
  <2>1. Len(Pieces) = Len(client.request) + Len(client.types)
    BY <1>1, PiecesAre
  <2>2. Len(client.request) \in Nat /\ Len(client.types) \in Nat
    BY <1>1, PiecesAre
  <2>3. \A r, t \in Nat : r <= r + t
    OBVIOUS
  <2> QED BY <2>1, <2>2, <2>3
<1>3. Ids(SubSeq(Pieces, 1, arrived)) = (Ids(A) \o C) \o R /\ Ids(A) \in Seq(Nat) /\ C \in Seq(Nat) /\ R \in Seq(Nat)
  <2> DEFINE u == Used
             g == Got
  <2>1. /\ u \in Nat /\ g \in Nat /\ u <= g /\ g <= arrived /\ g <= Len(Pieces) /\ 0 \in Nat /\ 0 <= g /\ 0 <= u
        /\ 0 + 1 = 1
    BY <1>1
  <2> HIDE DEF u, g
  <2>2. /\ Ids(SubSeq(Pieces, 0 + 1, arrived)) = Ids(SubSeq(Pieces, 0 + 1, g)) \o Ids(SubSeq(Pieces, g + 1, arrived))
        /\ Ids(SubSeq(Pieces, g + 1, arrived)) \in Seq(Nat)
    BY <1>1, <2>1, IdsSplit
  <2>3. /\ Ids(SubSeq(Pieces, 0 + 1, g)) = Ids(SubSeq(Pieces, 0 + 1, u)) \o Ids(SubSeq(Pieces, u + 1, g))
        /\ Ids(SubSeq(Pieces, 0 + 1, u)) \in Seq(Nat) /\ Ids(SubSeq(Pieces, u + 1, g)) \in Seq(Nat)
    BY <1>1, <2>1, IdsSplit
  <2> QED BY <1>1, <2>1, <2>2, <2>3 DEF u, g
<1>4. E = Ids(A)
  <2>1. CASE miState = "WS_STATE_NONE"
    <3>1. Echoes = <<>> /\ leaked = <<>> /\ InHand = <<>> /\ ~Accepted
      <4>1. InHand = <<>>
        BY <2>1 DEF SessionInv, OneMessage, HttpInHand, FrameInHand, InHand
      <4> QED BY <2>1, <4>1 DEF SessionInv, BeforeFrames, Fresh
    <3>2. Used <= Len(client.request)
      BY <1>1, <1>2, <3>1 DEF SessionInv, BeforeFrames
    <3>3. Ids(A) = <<>>
      <4>1. 0 \in Nat /\ 0 <= Used /\ 0 + 1 = 1
        BY <1>1
      <4>2. Ids(SubSeq(Pieces, 0 + 1, Used)) = <<>>
        BY <1>1, <3>2, <4>1, TextHasNoIds
      <4> QED BY <4>1, <4>2
    <3>4. Ids(<<>>) = <<>> /\ <<>> \o <<>> = <<>>
      BY IdsShort
    <3>5. E = <<>>
      BY <3>1, <3>4
    <3> QED BY <3>3, <3>5
  <2>2. CASE miState = "WS_STATE_CONNECT" /\ pc = "reset"
    <3>1. Echoes = <<>> /\ leaked = <<>> /\ InHand = <<>> /\ Got <= Len(client.request)
      BY <2>2 DEF SessionInv, OneMessage, InHand, BeforeFrames, Fresh
    <3>2. Used <= Len(client.request)
      BY <1>1, <1>2, <3>1
    <3>3. Ids(A) = <<>>
      <4>1. 0 \in Nat /\ 0 <= Used /\ 0 + 1 = 1
        BY <1>1
      <4>2. Ids(SubSeq(Pieces, 0 + 1, Used)) = <<>>
        BY <1>1, <3>2, <4>1, TextHasNoIds
      <4> QED BY <4>1, <4>2
    <3>4. Ids(<<>>) = <<>> /\ <<>> \o <<>> = <<>>
      BY IdsShort
    <3>5. E = <<>>
      BY <3>1, <3>4
    <3> QED BY <3>3, <3>5
  <2>3. CASE miState = "WS_STATE_CONNECT" /\ pc # "reset"
    <3>1. mstrProtocol # GET
      BY <2>3 DEF SessionInv, OneOutcome, GET, WS_PROTOCOL_BLANK
    <3>2. PICK l \in 0 .. Used : FlowFrom(l)
      BY <2>3, <3>1 DEF SessionInv, Flow
    <3>3. l \in Nat /\ 0 \in Nat /\ 0 <= l /\ 0 + 1 = 1 /\ l <= Used /\ Used <= Len(Pieces) /\ l <= Len(client.request)
      BY <1>1, <3>2 DEF FlowFrom
    <3> DEFINE u == Used
               x == Ids(SubSeq(Pieces, 0 + 1, l))
               y == Ids(SubSeq(Pieces, l + 1, u))
    <3>4. x = <<>>
      BY <1>1, <3>3, TextHasNoIds
    <3>5. u \in Nat /\ u <= Len(Pieces) /\ l <= u
      BY <1>1, <3>3
    <3> HIDE DEF u
    <3>6. Ids(SubSeq(Pieces, 0 + 1, u)) = x \o y /\ y \in Seq(Nat)
      BY <1>1, <3>3, <3>5, IdsSplit
    <3> HIDE DEF x, y
    <3>7. <<>> \o y = y
      BY <3>6, ConcatEmptySeq
    <3>8. E = y
      BY <3>2 DEF FlowFrom, u, y
    <3>9. Ids(A) = x \o y
      BY <3>3, <3>6 DEF u
    <3> QED BY <3>4, <3>7, <3>8, <3>9
  <2> QED BY <2>1, <2>2, <2>3 DEF SessionInv, Typed
<1> HIDE DEF A, C, R, E
<1>5. E \o C \o R = Ids(SubSeq(Pieces, 1, arrived))
  BY <1>3, <1>4
<1> QED BY <1>5 DEF C, R, E

\* A list found within a longer one.
LEMMA Within ==
  ASSUME NEW S, NEW a, a \in Seq(S), NEW e, e \in Seq(S), NEW b, b \in Seq(S), NEW x, x = (a \o e) \o b
  PROVE  /\ x \in Seq(S) /\ Len(a) + Len(e) <= Len(x) /\ Len(a) \in Nat /\ Len(e) \in Nat
         /\ e = SubSeq(x, Len(a) + 1, Len(a) + Len(e))
<1> DEFINE A == Len(a)
           E == Len(e)
           B == Len(b)
           ae == a \o e
           m == SubSeq(x, A + 1, A + E)
<1>1. A \in Nat /\ E \in Nat /\ B \in Nat
  OBVIOUS
<1>2. /\ ae \in Seq(S) /\ Len(ae) = A + E
      /\ \A i \in 1 .. A + E : ae[i] = IF i <= A THEN a[i] ELSE e[i - A]
  BY ConcatProperties
<1> HIDE DEF ae, m, A, E
<1>3. /\ ae \o b \in Seq(S) /\ Len(ae \o b) = Len(ae) + B
      /\ \A i \in 1 .. Len(ae) + B : (ae \o b)[i] = IF i <= Len(ae) THEN ae[i] ELSE b[i - Len(ae)]
  <2>1. ae \in Seq(S)
    BY <1>2
  <2> QED BY <2>1, ConcatProperties
<1>4. x = ae \o b
  BY DEF ae
<1> HIDE DEF A, E, B, m
<1>5. /\ x \in Seq(S) /\ Len(x) = (A + E) + B
      /\ \A i \in 1 .. A + E : x[i] = ae[i]
  BY <1>1, <1>2, <1>3, <1>4
<1>6. m \in Seq(S) /\ Len(m) = E /\ \A n \in 1 .. E : m[n] = x[A + n]
  <2>1. A + E \in Nat /\ A <= A + E /\ A + E <= Len(x) /\ (A + E) - A = E
    BY <1>1, <1>5
  <2> DEFINE k == A + E
  <2> HIDE DEF k
  <2>2. k \in Nat /\ A <= k /\ k <= Len(x) /\ k - A = E
    BY <2>1 DEF k
  <2>3. /\ SubSeq(x, A + 1, k) \in Seq(S) /\ Len(SubSeq(x, A + 1, k)) = k - A
        /\ \A n \in 1 .. k - A : SubSeq(x, A + 1, k)[n] = x[A + n]
    BY <1>1, <1>5, <2>2, SegmentSplit
  <2> QED BY <2>2, <2>3 DEF m, k
<1>7. ASSUME NEW n \in 1 .. E PROVE m[n] = e[n]
  <2>1. A + n \in 1 .. A + E /\ ~ (A + n <= A) /\ (A + n) - A = n
    BY <1>1
  <2> QED BY <1>2, <1>5, <1>6, <2>1
<1>8. m = e
  BY <1>6, <1>7, SeqEqual DEF E
<1>9. A + E <= Len(x)
  BY <1>1, <1>5
<1> QED BY <1>1, <1>5, <1>8, <1>9 DEF A, E, m

\* The echoes are the first messages of the flow, and the flow has no gaps.
LEMMA RunFollows == SessionInv => EchoesAreARun
<1> SUFFICES ASSUME SessionInv, ~astray
             PROVE  \E i \in 1 .. Len(Ids(Pieces)) + 1 :
                       /\ i + Len(Echoes) - 1 <= Len(Ids(Pieces))
                       /\ Echoes = SubSeq(Ids(Pieces), i, i + Len(Echoes) - 1)
  BY DEF EchoesAreARun
<1> DEFINE E == Echoes
           X == Ids(Pieces)
<1>1. /\ client \in Clients /\ Pieces \in Seq(Piece) /\ Len(Pieces) \in Nat
      /\ Used \in Nat /\ Used <= Len(Pieces) /\ E \in Seq(Nat) /\ X \in Seq(Nat)
  <2>1. /\ client \in Clients /\ Pieces \in Seq(Piece) /\ Len(Pieces) \in Nat
        /\ Used \in Nat /\ Used <= Got /\ Got \in Nat /\ Got <= arrived /\ arrived \in Nat
        /\ arrived <= Len(Pieces)
    BY SegmentsAre DEF SessionInv, Segments
  <2>2. E \in Seq(Nat)
    BY EchoesAre DEF SessionInv, Typed
  <2>3. X \in Seq(Nat)
    BY <2>1, IdsType
  <2> QED BY <2>1, <2>2, <2>3
<1>2. SUFFICES ASSUME NEW A, A \in Seq(Nat), NEW B, B \in Seq(Nat), X = (A \o E) \o B
               PROVE  \E i \in 1 .. Len(X) + 1 :
                         /\ i + Len(E) - 1 <= Len(X)
                         /\ E = SubSeq(X, i, i + Len(E) - 1)
  <2> SUFFICES \E A, B \in Seq(Nat) : X = (A \o E) \o B
    OBVIOUS
  <2>1. CASE E = <<>>
    <3>1. (<<>> \o <<>>) \o X = X /\ <<>> \in Seq(Nat)
      BY <1>1, ConcatEmptySeq
    <3> HIDE DEF X, E
    <3> QED BY <1>1, <2>1, <3>1
  <2>2. CASE E # <<>>
    <3>1. miState = "WS_STATE_CONNECT" /\ pc # "reset"
      BY <2>2 DEF SessionInv, Typed, BeforeFrames, Fresh
    <3>2. mstrProtocol = WS_PROTOCOL_ECHO
      BY <2>2, <3>1 DEF SessionInv, OneOutcome
    <3>3. leaked = <<>>
      BY <3>1, <3>2 DEF SessionInv, OneOutcome, Registered
    <3>4. PICK l \in 0 .. Used : FlowFrom(l)
      BY <3>1, <3>2 DEF SessionInv, Flow, WS_PROTOCOL_ECHO, GET
    <3> DEFINE H == Ids(InHand)
               N == Len(Pieces)
               a == Ids(SubSeq(Pieces, 0 + 1, l))
               f == Ids(SubSeq(Pieces, l + 1, Used))
               r == Ids(SubSeq(Pieces, Used + 1, N))
    <3>5. H \in Seq(Nat)
      <4>1. InHand \in Seq(Piece)
        <5>1. <<>> \in Seq(Piece)
          OBVIOUS
        <5>2. msg = <<>> \/ \E m : msg = <<m>> /\ m.frame \in Seq(Piece)
          BY <5>1 DEF SessionInv, OneMessage, HttpInHand, FrameInHand
        <5> QED BY <5>1, <5>2 DEF InHand
      <4> QED BY <4>1, IdsType
    <3>6. f = E \o H
      <4>1. f = (E \o <<>>) \o H
        BY <3>3, <3>4, IdsShort DEF FlowFrom
      <4>2. E \o <<>> = E
        BY <1>1, ConcatEmptySeq
      <4> QED BY <4>1, <4>2
    <3>7. Ids(SubSeq(Pieces, 0 + 1, N)) = (a \o f) \o r /\ a \in Seq(Nat) /\ f \in Seq(Nat) /\ r \in Seq(Nat)
      <4> DEFINE u == Used
      <4>1. 0 \in Nat /\ l \in Nat /\ u \in Nat /\ N \in Nat /\ 0 <= l /\ l <= u /\ 0 <= u /\ u <= N /\ N <= N
        BY <1>1
      <4> HIDE DEF u
      <4>2. /\ Ids(SubSeq(Pieces, 0 + 1, N)) = Ids(SubSeq(Pieces, 0 + 1, u)) \o Ids(SubSeq(Pieces, u + 1, N))
            /\ Ids(SubSeq(Pieces, u + 1, N)) \in Seq(Nat)
        BY <1>1, <4>1, IdsSplit
      <4>3. /\ Ids(SubSeq(Pieces, 0 + 1, u)) = Ids(SubSeq(Pieces, 0 + 1, l)) \o Ids(SubSeq(Pieces, l + 1, u))
            /\ Ids(SubSeq(Pieces, 0 + 1, l)) \in Seq(Nat) /\ Ids(SubSeq(Pieces, l + 1, u)) \in Seq(Nat)
        BY <1>1, <4>1, IdsSplit
      <4> QED BY <4>2, <4>3 DEF u
    <3>8. SubSeq(Pieces, 0 + 1, N) = Pieces
      <4>1. 0 \in Nat /\ N \in Nat /\ 0 <= N /\ N <= N /\ N - 0 = N
        BY <1>1
      <4>2. /\ SubSeq(Pieces, 0 + 1, N) \in Seq(Piece) /\ Len(SubSeq(Pieces, 0 + 1, N)) = N - 0
            /\ \A n \in 1 .. N - 0 : SubSeq(Pieces, 0 + 1, N)[n] = Pieces[0 + n]
        BY <1>1, <4>1, SegmentSplit
      <4>3. \A n \in 1 .. N : SubSeq(Pieces, 0 + 1, N)[n] = Pieces[n]
        BY <4>1, <4>2
      <4>4. Len(SubSeq(Pieces, 0 + 1, N)) = Len(Pieces)
        BY <4>1, <4>2
      <4> QED BY <1>1, <4>2, <4>3, <4>4, SeqEqual
    <3> HIDE DEF H, a, f, r, E, X, N
    <3> DEFINE B == H \o r
               ae == a \o E
    <3>12. a \in Seq(Nat) /\ E \in Seq(Nat) /\ H \in Seq(Nat) /\ r \in Seq(Nat)
      BY <1>1, <3>5, <3>7
    <3>9. (a \o (E \o H)) = ae \o H /\ ae \in Seq(Nat) /\ B \in Seq(Nat)
      <4>1. (a \o E) \o H = a \o (E \o H)
        BY <3>12, Associates
      <4>2. a \o E \in Seq(Nat)
        BY <3>12, ConcatProperties
      <4>3. H \o r \in Seq(Nat)
        BY <3>12, ConcatProperties
      <4> QED BY <4>1, <4>2, <4>3
    <3> HIDE DEF ae
    <3>10. (ae \o H) \o r = ae \o B
      <4>1. ae \in Seq(Nat)
        BY <3>9
      <4> QED BY <3>12, <4>1, Associates
    <3> HIDE DEF B
    <3>11. X = ae \o B
      BY <3>6, <3>7, <3>8, <3>9, <3>10 DEF X
    <3> QED BY <3>7, <3>9, <3>11 DEF ae
  <2> QED BY <2>1, <2>2
<1> HIDE DEF E, X
<1>3. /\ Len(A) + Len(E) <= Len(X) /\ Len(A) \in Nat /\ Len(E) \in Nat /\ X \in Seq(Nat)
      /\ E = SubSeq(X, Len(A) + 1, Len(A) + Len(E))
  BY <1>1, <1>2, Within
<1> DEFINE i == Len(A) + 1
<1>4. i \in 1 .. Len(X) + 1 /\ i + Len(E) - 1 = Len(A) + Len(E)
  <2>1. Len(X) \in Nat
    BY <1>3
  <2> QED BY <1>3, <2>1
<1> QED BY <1>3, <1>4

-----------------------------------------------------------------------------
(* The first read. *)

\* What the text of the first read holds.
AnsweredWhole == Accepted => first # 0 /\ "key rest" \in PartsOf(SubSeq(Pieces, 1, first))

\* A request starts once.
OneStart == \A c \in Clients : \A i \in 2 .. Len(c.request) : c.request[i] # "G"

\* The text that is handled is what the cache first held: nothing later
\* starts with GET.
LEMMA FirstText ==
  ASSUME OneStart, SessionInv, NEW m, HttpInHand(m)
  PROVE  first # 0 /\ m.http = SubSeq(Pieces, 1, first)
<1>1. /\ client \in Clients /\ Len(cache) = Got - Used /\ Got \in Nat /\ Used \in Nat
      /\ Got <= Len(Pieces) /\ cache = SubSeq(Pieces, Used + 1, Got)
      /\ (\A n \in 1 .. Got - Used : cache[n] = Pieces[Used + n])
  BY SegmentsAre DEF SessionInv, Segments
<1>2. m.http = cache /\ Len(cache) >= 2 /\ cache[1] = Text("G")
  BY DEF HttpInHand, StartsWithGet
<1>3. 1 \in 1 .. Got - Used /\ Used + 1 \in 1 .. Len(Pieces) /\ Used < Got
  BY <1>1, <1>2
<1>4. Pieces[Used + 1] = Text("G")
  BY <1>1, <1>2, <1>3
<1>5. Used + 1 <= Len(client.request) /\ client.request[Used + 1] = "G"
  <2>1. Text("G").part = "G"
    BY DEF Text
  <2>2. /\ Len(client.request) \in Nat
        /\ \A i \in 1 .. Len(client.request) : Pieces[i] = Text(client.request[i])
        /\ \A i \in 1 .. Len(Pieces) : i > Len(client.request) => Pieces[i].part = "message"
    BY <1>1, PiecesAre
  <2>3. Used + 1 <= Len(client.request)
    BY <1>3, <1>4, <2>1, <2>2
  <2>4. Text(client.request[Used + 1]) = Text("G")
    BY <1>1, <1>4, <2>2, <2>3
  <2> QED BY <2>3, <2>4 DEF Text
<1>6. Used = 0
  <2>1. Used + 1 \notin 2 .. Len(client.request)
    BY <1>1, <1>5 DEF OneStart
  <2>2. Len(client.request) \in Nat
    BY <1>1, PiecesAre
  <2> QED BY <1>1, <1>5, <2>1, <2>2
<1>7. first = Got /\ first # 0
  BY <1>1, <1>3, <1>6 DEF SessionInv, FirstRead, Typed
<1> QED BY <1>1, <1>2, <1>6, <1>7

\* Only the upgrade handler answers a key, from the text of the first read.
LEMMA AnswerStep ==
  ASSUME OneStart, SessionInv, AnsweredWhole, [Next]_vars
  PROVE  AnsweredWhole'
<1> DEFINE Whole == first # 0 /\ "key rest" \in PartsOf(SubSeq(Pieces, 1, first))
<1>1. CASE Pieces' = Pieces /\ (first # 0 => first' = first) /\ (Accepted' => Accepted)
  BY <1>1 DEF AnsweredWhole, PartsOf
<1>2. ASSUME NEW i \in 1 .. Len(msg), UpgradeHandler(msg[i]) PROVE AnsweredWhole'
  <2> DEFINE m == msg[i]
  <2>1. HttpInHand(m) /\ (Accepted' <=> Accepted \/ Key(m.http) = "whole")
    BY <1>2, UpgradeKeeps
  <2>2. first # 0 /\ m.http = SubSeq(Pieces, 1, first)
    BY <2>1, FirstText
  <2>3. UNCHANGED <<client, first>>
    BY <1>2 DEF UpgradeHandler, Handled, buffers
  <2>4. Pieces' = Pieces
    BY <2>3 DEF Pieces, Text, MessagePiece
  <2>5. Key(m.http) = "whole" => "key rest" \in PartsOf(m.http)
    BY DEF Key, Value
  <2> HIDE DEF m
  <2> QED BY <2>1, <2>2, <2>3, <2>4, <2>5 DEF AnsweredWhole, PartsOf
<1>3. ASSUME UNCHANGED client PROVE Pieces' = Pieces
  BY <1>3 DEF Pieces, Text, MessagePiece
<1>4. ASSUME NEW i \in 1 .. Len(msg), GetHandler(msg[i]) \/ EchoHandler(msg[i])
      PROVE  AnsweredWhole'
  <2>1. UNCHANGED <<client, first>>
    BY <1>4 DEF GetHandler, EchoHandler, Handled, buffers
  <2>2. answers' = answers \/ \E a \in Answer : a.kind # "101" /\ answers' = Append(answers, a)
    <3>1. CASE GetHandler(msg[i])
      <4>1. [kind |-> "page"] \in Answer /\ [kind |-> "page"].kind # "101"
        BY DEF Answer
      <4> QED BY <3>1, <4>1 DEF GetHandler
    <3>2. CASE EchoHandler(msg[i])
      <4> DEFINE m == msg[i]
      <4>1. pc = "handle" /\ msg = <<m>> /\ m.protocol = WS_PROTOCOL_ECHO
        BY <3>2 DEF EchoHandler, Handled
      <4>2. (HttpInHand(m) \/ FrameInHand(m)) /\ InHand = m.frame
        BY <4>1, InHandIs
      <4>3. FrameInHand(m)
        BY <4>1, <4>2 DEF HttpInHand, ProtocolOf, WS_PROTOCOL_ECHO, GET, WEBSOCKETKEY
      <4>4. m.frame[1] \in Piece
        BY <4>1, <4>2, <4>3, FrameIs
      <4> DEFINE n == m.frame[1].id
      <4>5. n \in Nat
        BY <4>4 DEF Piece
      <4>6. answers' = Append(answers, [kind |-> "echo", id |-> n])
        BY <3>2 DEF EchoHandler
      <4> HIDE DEF n, m
      <4>7. [kind |-> "echo", id |-> n] \in Answer /\ [kind |-> "echo", id |-> n].kind # "101"
        BY <4>5 DEF Answer
      <4> QED BY <4>6, <4>7
    <3> QED BY <1>4, <3>1, <3>2
  <2>3. Accepted' => Accepted
    <3>1. CASE answers' = answers
      BY <3>1, SameAnswers
    <3>2. ASSUME NEW a \in Answer, a.kind # "101", answers' = Append(answers, a)
          PROVE  Accepted' => Accepted
      <4>1. answers \in Seq(Answer)
        BY DEF SessionInv, Typed
      <4> QED BY <3>2, <4>1, EchoesAppend
    <3> QED BY <2>2, <3>1, <3>2
  <2> QED BY <1>1, <1>3, <2>1, <2>3
<1>5. ASSUME UNCHANGED <<client, answers>>, first # 0 => first' = first
      PROVE  AnsweredWhole'
  BY <1>1, <1>3, <1>5, SameAnswers
<1>6. ASSUME NEW n \in 1 .. Len(Pieces), Arrive(n) PROVE AnsweredWhole'
  BY <1>5, <1>6 DEF Arrive, outcome
<1>7. CASE ProcMsg \/ ParseHttp \/ ResetCache
  BY <1>5, <1>7 DEF ProcMsg, ParseHttp, ResetCache, outcome, buffers
<1>8. CASE DecodeMsg \/ DecodeText \/ DecodeEnd
  BY <1>5, <1>8 DEF DecodeMsg, DecodeText, DecodeEnd, outcome, buffers
<1>9. ASSUME NEW i \in 1 .. Len(msg), IgnoreFrame(msg[i]) \/ NoHandler(msg[i]) \/ UpgradeCrash(msg[i])
      PROVE  AnsweredWhole'
  BY <1>5, <1>9 DEF IgnoreFrame, NoHandler, UpgradeCrash, Handled, outcome, buffers
<1>10. CASE UNCHANGED vars
  BY <1>5, <1>10 DEF vars, outcome, buffers
<1> QED BY <1>2, <1>4, <1>6, <1>7, <1>8, <1>9, <1>10 DEF Next, Task, Handle

-----------------------------------------------------------------------------
\* No message is lost, repeated or reordered between its arrival and its echo,
\* whatever clients there are and wherever the reads cut their streams: what
\* ParseMsg drops after the handshake (WsInput.cpp:47) is never a message of a
\* client that waits for its answer.
THEOREM AccountsForMessages == Spec => []MessagesAccounted
<1>1. SessionInv => MessagesAccounted
  BY TypeFollows, DroppedFollows, RunFollows DEF MessagesAccounted
<1> QED BY <1>1, SessionAlways, PTL

\* A request that was cut before the end of its key is never answered right,
\* for ParseMsg drops the text and nothing later starts with GET.
THEOREM NoSecondChance ==
  ASSUME OneStart
  PROVE  Spec => []SplitIsLost
<1>1. Init => AnsweredWhole
  <2>1. Init => answers = <<>>
    BY DEF Init
  <2>2. answers = <<>> => ~Accepted
    BY DEF Accepted
  <2> QED BY <2>1, <2>2 DEF AnsweredWhole
<1>2. SessionInv /\ AnsweredWhole /\ [Next]_vars => AnsweredWhole'
  BY AnswerStep
<1>3. AnsweredWhole => SplitIsLost
  BY DEF AnsweredWhole, SplitIsLost
<1> QED BY <1>1, <1>2, <1>3, SessionAlways, PTL DEF Spec
==============================================================================
