----------------------- MODULE CloudStreamingAsrProofs -----------------------
(***************************************************************************)
(* Proofs about a cloud recognizer session.  The inductive invariant       *)
(* SessionInv ties the ring to what was pushed (RingOK), what is sent to   *)
(* what was pushed (SentOK, FirstOK), what a new connection may hear to    *)
(* what the ring still has (LateOK), and the committed text to what the    *)
(* provider has said of what it heard (SaidOK, TextOK, AckOK).             *)
(***************************************************************************)
EXTENDS CloudStreamingAsr, SequenceTheorems, WellFoundedInduction, TLAPS
----------------------------------------------------------------------------
(* Merging text: what TranscriptReconciler keeps and what it adds.         *)

LEMMA PrefixAt ==
  ASSUME NEW S, NEW s \in Seq(S), NEW t \in Seq(S)
  PROVE  IsPrefix(s, t) <=> Len(s) <= Len(t) /\ \A i \in 1..Len(s) : s[i] = t[i]
<1>1. CASE Len(s) <= Len(t)
  <2>1. SubSeq(s, 1, Len(s)) = s
    BY SubSeqFull
  <2>2. /\ SubSeq(t, 1, Len(s)) \in Seq(S) /\ Len(SubSeq(t, 1, Len(s))) = Len(s)
        /\ \A i \in 1..Len(s) : SubSeq(t, 1, Len(s))[i] = t[i]
    BY <1>1
  <2> DEFINE u == SubSeq(t, 1, Len(s))
  <2> HIDE DEF u
  <2>3. s = u <=> \A i \in 1..Len(s) : s[i] = u[i]
    BY <2>2, SeqEqual DEF u
  <2> QED BY <1>1, <2>1, <2>2, <2>3 DEF IsPrefix, u
<1> QED BY <1>1 DEF IsPrefix

LEMMA ReverseAt ==
  ASSUME NEW S, NEW s \in Seq(S)
  PROVE  Reverse(s) \in Seq(S) /\ Len(Reverse(s)) = Len(s) /\ \A i \in 1..Len(s) : Reverse(s)[i] = s[Len(s) - i + 1]
BY DEF Reverse

LEMMA SuffixAt ==
  ASSUME NEW S, NEW s \in Seq(S), NEW t \in Seq(S)
  PROVE  IsSuffix(s, t) <=> Len(s) <= Len(t) /\ \A i \in 1..Len(s) : s[i] = t[(Len(t) - Len(s)) + i]
<1> DEFINE m == Len(s)  n == Len(t)
<1>1. m \in Nat /\ n \in Nat
  OBVIOUS
<1>2. IsSuffix(s, t) <=> m <= n /\ \A i \in 1..m : Reverse(s)[i] = Reverse(t)[i]
  BY ReverseAt, PrefixAt DEF IsSuffix
<1>3. /\ \A i \in 1..m : Reverse(s)[i] = s[m - i + 1]
      /\ \A i \in 1..n : Reverse(t)[i] = t[n - i + 1]
  BY ReverseAt
<1>4. CASE m <= n
  <2> HIDE DEF m, n
  <2>1. ASSUME \A i \in 1..m : Reverse(s)[i] = Reverse(t)[i], NEW i \in 1..m
        PROVE  s[i] = t[(n - m) + i]
    <3>1. m - i + 1 \in 1..m /\ m - i + 1 \in 1..n
      BY <1>1, <1>4
    <3>2. m - (m - i + 1) + 1 = i /\ n - (m - i + 1) + 1 = (n - m) + i
      BY <1>1
    <3> QED BY <1>3, <2>1, <3>1, <3>2
  <2>2. ASSUME \A i \in 1..m : s[i] = t[(n - m) + i], NEW i \in 1..m
        PROVE  Reverse(s)[i] = Reverse(t)[i]
    <3>1. m - i + 1 \in 1..m /\ i \in 1..n /\ (n - m) + (m - i + 1) = n - i + 1
      BY <1>1, <1>4
    <3> QED BY <1>3, <2>2, <3>1
  <2> QED BY <1>2, <1>4, <2>1, <2>2 DEF m, n
<1> QED BY <1>2, <1>4

\* A set of numbers up to m has a greatest one.
LEMMA GreatestOf ==
  ASSUME NEW m \in Nat, NEW T \in SUBSET (0..m), 0 \in T
  PROVE  \E n \in T : \A k \in T : k <= n
<1> DEFINE D == {m - k : k \in T}
<1>1. D \subseteq Nat /\ D # {}
  OBVIOUS
<1>2. PICK d \in D : \A e \in D : ~(<<e, d>> \in OpToRel(<, Nat))
  BY <1>1, NatLessThanWellFounded, WFMin
<1>3. \A e \in D : ~(e < d)
  BY <1>1, <1>2 DEF OpToRel
<1>4. PICK n \in T : d = m - n
  OBVIOUS
<1>5. ASSUME NEW k \in T PROVE k <= n
  <2>1. ~(m - k < m - n)
    BY <1>3, <1>4
  <2> QED BY <2>1
<1> QED BY <1>5

LEMMA OverlapIs ==
  ASSUME NEW S, NEW left \in Seq(S), NEW right \in Seq(S)
  PROVE  /\ OverlapLength(left, right) \in 0..Len(right)
         /\ OverlapLength(left, right) <= Len(left)
         /\ IsSuffix(SubSeq(right, 1, OverlapLength(left, right)), left)
         /\ \A m \in (OverlapLength(left, right) + 1)..Len(right) :
              m > Len(left) \/ ~IsSuffix(SubSeq(right, 1, m), left)
<1> DEFINE Ok(n) == n <= Len(left) /\ IsSuffix(SubSeq(right, 1, n), left)
           T == {n \in 0..Len(right) : Ok(n)}
<1>1. Ok(0)
  <2>1. SubSeq(right, 1, 0) = <<>> /\ <<>> \in Seq(S)
    BY SubSeqEmpty
  <2>2. IsSuffix(<<>>, left)
    <3> DEFINE e == <<>>
    <3>1. e \in Seq(S) /\ Len(e) = 0 /\ Len(e) <= Len(left) /\ \A i \in 1..Len(e) : FALSE
      BY <2>1
    <3> HIDE DEF e
    <3>2. IsSuffix(e, left)
      BY <3>1, SuffixAt
    <3> QED BY <3>2 DEF e
  <2>3. 0 <= Len(left)
    OBVIOUS
  <2> QED BY <2>1, <2>2, <2>3
<1> HIDE DEF Ok
<1>2. PICK n \in T : \A k \in T : k <= n
  <2>1. Len(right) \in Nat /\ 0 \in T /\ T \in SUBSET (0..Len(right))
    BY <1>1
  <2> HIDE DEF T
  <2> QED BY <2>1, GreatestOf
<1>3. n \in 0..Len(right) /\ Ok(n) /\ \A m \in (n + 1)..Len(right) : ~Ok(m)
  BY <1>2
<1>4. \A k \in 0..Len(right) :
        (Ok(k) /\ \A m \in (k + 1)..Len(right) : ~Ok(m)) <=>
        (/\ k <= Len(left) /\ IsSuffix(SubSeq(right, 1, k), left)
         /\ \A m \in (k + 1)..Len(right) : m > Len(left) \/ ~IsSuffix(SubSeq(right, 1, m), left))
  BY DEF Ok
<1> QED BY <1>3, <1>4 DEF OverlapLength

LEMMA MergeTypes ==
  ASSUME NEW S, NEW c \in Seq(S), NEW t \in Seq(S)
  PROVE  MergeConfirmed(c, t) \in Seq(S)
<1> DEFINE n == OverlapLength(c, t)
<1>1. n \in 0..Len(t)
  BY OverlapIs
<1> HIDE DEF n
<1>2. SubSeq(t, n + 1, Len(t)) \in Seq(S)
  BY <1>1
<1>3. c \o SubSeq(t, n + 1, Len(t)) \in Seq(S)
  BY <1>2, ConcatProperties
<1> QED BY <1>3 DEF MergeConfirmed, n

LEMMA InConcat ==
  ASSUME NEW S, NEW s \in Seq(S), NEW t \in Seq(S)
  PROVE  ToSet(s \o t) = ToSet(s) \cup ToSet(t)
<1>1. /\ s \o t \in Seq(S) /\ Len(s \o t) = Len(s) + Len(t)
      /\ \A i \in 1..Len(s) + Len(t) : (s \o t)[i] = IF i <= Len(s) THEN s[i] ELSE t[i - Len(s)]
  BY ConcatProperties
<1> DEFINE u == s \o t  m == Len(s)  n == Len(t)
<1>2. m \in Nat /\ n \in Nat /\ DOMAIN u = 1..m + n /\ DOMAIN s = 1..m /\ DOMAIN t = 1..n
  BY <1>1
<1>3. /\ \A i \in 1..m : i \in 1..m + n /\ u[i] = s[i]
      /\ \A i \in 1..n : m + i \in 1..m + n /\ u[m + i] = t[i]
  BY <1>1
<1>4. \A i \in 1..m + n : (i \in 1..m /\ u[i] = s[i]) \/ (i - m \in 1..n /\ u[i] = t[i - m])
  BY <1>1
<1> HIDE DEF u, m, n
<1>5. ToSet(u) \subseteq ToSet(s) \cup ToSet(t)
  BY <1>2, <1>4 DEF ToSet
<1>6. ToSet(s) \subseteq ToSet(u) /\ ToSet(t) \subseteq ToSet(u)
  BY <1>2, <1>3 DEF ToSet
<1> QED BY <1>5, <1>6 DEF u

\* No word is lost: neither of what is committed nor of the text.
LEMMA MergeKeeps ==
  ASSUME NEW S, NEW c \in Seq(S), NEW t \in Seq(S)
  PROVE  ToSet(c) \cup ToSet(t) \subseteq ToSet(MergeConfirmed(c, t))
<1>0. Len(c) \in Nat /\ Len(t) \in Nat /\ DOMAIN c = 1..Len(c) /\ DOMAIN t = 1..Len(t)
  OBVIOUS
<1>1. CASE t = <<>>
  <2>1. ToSet(t) = {}
    BY <1>1 DEF ToSet
  <2> QED BY <1>1, <2>1 DEF MergeConfirmed
<1>2. CASE t # <<>> /\ IsSuffix(t, c)
  <2>1. Len(t) <= Len(c) /\ \A i \in 1..Len(t) : t[i] = c[(Len(c) - Len(t)) + i]
    BY <1>2, SuffixAt
  <2>2. \A i \in 1..Len(t) : (Len(c) - Len(t)) + i \in 1..Len(c)
    BY <1>0, <2>1
  <2>3. ToSet(t) \subseteq ToSet(c)
    BY <1>0, <2>1, <2>2 DEF ToSet
  <2> QED BY <1>2, <2>3 DEF MergeConfirmed
<1>3. CASE t # <<>> /\ ~IsSuffix(t, c) /\ IsPrefix(c, t)
  <2>1. Len(c) <= Len(t) /\ \A i \in 1..Len(c) : c[i] = t[i]
    BY <1>3, PrefixAt
  <2>2. ToSet(c) \subseteq ToSet(t)
    BY <1>0, <2>1 DEF ToSet
  <2> QED BY <1>3, <2>2 DEF MergeConfirmed
<1>4. CASE t # <<>> /\ ~IsSuffix(t, c) /\ ~IsPrefix(c, t)
  <2> DEFINE n == OverlapLength(c, t)
  <2>1. n \in 0..Len(t) /\ n <= Len(c) /\ IsSuffix(SubSeq(t, 1, n), c)
    BY OverlapIs
  <2>2. MergeConfirmed(c, t) = c \o SubSeq(t, n + 1, Len(t))
    BY <1>4 DEF MergeConfirmed
  <2> HIDE DEF n
  <2> DEFINE a == SubSeq(t, 1, n)  b == SubSeq(t, n + 1, Len(t))
  <2>3. a \in Seq(S) /\ b \in Seq(S) /\ t = a \o b
    <3>1. SubSeq(t, 1, n) \o SubSeq(t, n + 1, Len(t)) = SubSeq(t, 1, Len(t))
      <4>1. 1 \in 1..Len(t) + 1 /\ n \in 1 - 1..Len(t) /\ Len(t) \in n..Len(t)
        BY <1>0, <2>1
      <4> QED BY <4>1, ConcatAdjacentSubSeq
    <3>2. SubSeq(t, 1, n) \in Seq(S) /\ SubSeq(t, n + 1, Len(t)) \in Seq(S)
      BY <2>1
    <3> QED BY <3>1, <3>2, SubSeqFull
  <2>4. ToSet(a) \subseteq ToSet(c)
    <3> HIDE DEF a, b
    <3>1. Len(a) <= Len(c) /\ \A i \in 1..Len(a) : a[i] = c[(Len(c) - Len(a)) + i]
      BY <2>1, <2>3, SuffixAt DEF a
    <3>2. Len(a) \in Nat /\ DOMAIN a = 1..Len(a) /\ \A i \in 1..Len(a) : (Len(c) - Len(a)) + i \in 1..Len(c)
      BY <1>0, <2>3, <3>1
    <3> QED BY <1>0, <3>1, <3>2 DEF ToSet
  <2> HIDE DEF a, b
  <2>5. ToSet(c \o b) = ToSet(c) \cup ToSet(b) /\ ToSet(a \o b) = ToSet(a) \cup ToSet(b)
    BY <2>3, InConcat
  <2> QED BY <2>2, <2>3, <2>4, <2>5 DEF b
<1> QED BY <1>1, <1>2, <1>3, <1>4

\* A text that goes on where the committed words are adds what is new of it.
LEMMA MergeCounts ==
  ASSUME NEW S, NEW c \in Seq(S), NEW n \in Nat, Len(c) = n, \A i \in 1..n : c[i] = i,
         NEW t \in Seq(S), NEW u \in 1..n + 1, NEW k \in Nat, k >= n, k >= u, Len(t) = (k - u) + 1,
         \A i \in 1..Len(t) : t[i] = (u - 1) + i
  PROVE  Len(MergeConfirmed(c, t)) = k /\ \A i \in 1..k : MergeConfirmed(c, t)[i] = i
<1>0. Len(t) \in Nat /\ Len(t) >= 1 /\ t # <<>> /\ Len(t) \in 1..Len(t) /\ 1 \in 1..Len(t)
  OBVIOUS
<1>1. CASE k = n
  <2>1. Len(t) <= Len(c) /\ \A i \in 1..Len(t) : t[i] = c[(Len(c) - Len(t)) + i]
    BY <1>1
  <2>2. IsSuffix(t, c)
    BY <2>1, SuffixAt
  <2> QED BY <1>0, <1>1, <2>2 DEF MergeConfirmed
<1>2. CASE k > n
  <2>1. ~IsSuffix(t, c)
    <3> SUFFICES ASSUME IsSuffix(t, c) PROVE FALSE
      OBVIOUS
    <3>1. Len(t) <= Len(c) /\ \A i \in 1..Len(t) : t[i] = c[(Len(c) - Len(t)) + i]
      BY SuffixAt
    <3> DEFINE l == Len(t)
    <3>2. l \in 1..l /\ t[l] = c[(n - l) + l] /\ t[l] = (u - 1) + l
      BY <1>0, <3>1
    <3>3. (u - 1) + l = k /\ (n - l) + l = n /\ n \in 1..n
      BY <1>0, <3>1
    <3> HIDE DEF l
    <3>4. t[l] = k /\ t[l] = c[n] /\ c[n] = n
      BY <3>2, <3>3
    <3> QED BY <1>2, <3>4
  <2>2. CASE IsPrefix(c, t)
    <3>1. MergeConfirmed(c, t) = t
      BY <1>0, <2>1, <2>2 DEF MergeConfirmed
    <3>2. n <= Len(t) /\ \A i \in 1..n : c[i] = t[i]
      BY <2>2, PrefixAt
    <3>3. u = 1
      <4>1. CASE n = 0
        BY <4>1
      <4>2. CASE n > 0
        <5>1. 1 \in 1..n /\ c[1] = 1 /\ t[1] = (u - 1) + 1
          BY <1>0, <4>2
        <5> QED BY <3>2, <5>1
      <4> QED BY <4>1, <4>2
    <3> QED BY <3>1, <3>3
  <2>3. CASE ~IsPrefix(c, t)
    <3> DEFINE m == OverlapLength(c, t)  d == (n - u) + 1
    <3>1. MergeConfirmed(c, t) = c \o SubSeq(t, m + 1, Len(t))
      BY <1>0, <2>1, <2>3 DEF MergeConfirmed
    <3>2. /\ m \in 0..Len(t) /\ m <= n /\ IsSuffix(SubSeq(t, 1, m), c)
          /\ \A j \in (m + 1)..Len(t) : j > n \/ ~IsSuffix(SubSeq(t, 1, j), c)
      BY OverlapIs
    <3> HIDE DEF m
    <3>3. d \in 0..Len(t) /\ d <= n
      BY <1>2
    <3>4. ASSUME NEW j \in 0..Len(t), j <= n
          PROVE  IsSuffix(SubSeq(t, 1, j), c) <=> j = 0 \/ j = d
      <4> DEFINE s == SubSeq(t, 1, j)
      <4>1. s \in Seq(S) /\ Len(s) = j /\ \A i \in 1..j : s[i] = t[i]
        BY <3>4
      <4> HIDE DEF s
      <4>2. IsSuffix(s, c) <=> \A i \in 1..j : (u - 1) + i = (n - j) + i
        <5>0. \A i \in 1..j : i \in 1..Len(t) /\ (n - j) + i \in 1..n
          BY <3>4
        <5>1. \A i \in 1..j : s[i] = (u - 1) + i /\ c[(n - j) + i] = (n - j) + i
          BY <4>1, <5>0
        <5>2. IsSuffix(s, c) <=> j <= n /\ \A i \in 1..j : s[i] = c[(n - j) + i]
          <6>1. IsSuffix(s, c) <=> Len(s) <= Len(c) /\ \A i \in 1..Len(s) : s[i] = c[(Len(c) - Len(s)) + i]
            <7>1. s \in Seq(S) /\ c \in Seq(S)
              BY <4>1
            <7> QED BY ONLY <7>1, SuffixAt
          <6>2. Len(s) = j /\ Len(c) = n
            BY <4>1
          <6> QED BY <6>1, <6>2
        <5>3. j <= n
          BY <3>4
        <5> HIDE DEF d
        <5> QED BY <5>1, <5>2, <5>3
      <4>3. (\A i \in 1..j : (u - 1) + i = (n - j) + i) <=> j = 0 \/ j = d
        <5>0. j \in Nat
          BY <3>4
        <5>1. ASSUME \A i \in 1..j : (u - 1) + i = (n - j) + i, j # 0 PROVE j = d
          <6>1. 1 \in 1..j
            BY <5>0, <5>1
          <6>2. (u - 1) + 1 = (n - j) + 1
            BY <5>1, <6>1
          <6> QED BY <5>0, <6>2
        <5>2. ASSUME j = d, NEW i \in 1..j PROVE (u - 1) + i = (n - j) + i
          BY <5>0, <5>2
        <5>3. ASSUME j = 0, NEW i \in 1..j PROVE (u - 1) + i = (n - j) + i
          BY <5>3
        <5> HIDE DEF d
        <5> QED BY <5>1, <5>2, <5>3
      <4> QED BY <4>2, <4>3 DEF s
    <3>5. m = d
      <4>1. m = 0 \/ m = d
        BY <3>2, <3>4
      <4>2. ASSUME m = 0, d > 0 PROVE FALSE
        <5>1. d \in (m + 1)..Len(t) /\ d <= n /\ d \in 0..Len(t)
          BY <3>3, <4>2
        <5>2. ~IsSuffix(SubSeq(t, 1, d), c)
          BY <3>2, <5>1
        <5> HIDE DEF d
        <5> QED BY <3>4, <5>1, <5>2
      <4> QED BY <3>3, <4>1, <4>2
    <3> DEFINE rest == SubSeq(t, m + 1, Len(t))
    <3>6. /\ rest \in Seq(S) /\ Len(rest) = Len(t) - m
          /\ \A i \in 1..Len(t) - m : rest[i] = t[m + i]
      BY <1>0, <3>2
    <3> HIDE DEF rest
    <3>7. /\ Len(c \o rest) = n + Len(rest)
          /\ \A i \in 1..n + Len(rest) : (c \o rest)[i] = IF i <= n THEN c[i] ELSE rest[i - n]
      BY <3>6, ConcatProperties
    <3>8. n + Len(rest) = k
      BY <3>3, <3>5, <3>6
    <3>9. ASSUME NEW i \in 1..k PROVE (c \o rest)[i] = i
      <4>0. i <= n \/ i > n
        OBVIOUS
      <4>1. CASE i <= n
        BY <3>7, <3>8, <4>1
      <4>2. CASE i > n
        <5>1. i - n \in 1..Len(t) - m /\ m + (i - n) \in 1..Len(t)
          BY <3>2, <3>6, <3>8, <4>2
        <5> DEFINE e == i - n
        <5>4. e \in 1..Len(t) - m /\ ~(i <= n) /\ i \in 1..n + Len(rest)
          BY <3>8, <4>2, <5>1
        <5>2. (c \o rest)[i] = t[m + (i - n)]
          <6>1. (c \o rest)[i] = rest[e]
            BY <3>7, <5>4
          <6> HIDE DEF e
          <6>2. rest[e] = t[m + e]
            BY <3>6, <5>4
          <6> QED BY <6>1, <6>2 DEF e
        <5>3. t[m + (i - n)] = (u - 1) + (m + (i - n)) /\ (u - 1) + (m + (i - n)) = i
          BY <3>5, <5>1
        <5> QED BY <5>2, <5>3
      <4> QED BY <4>0, <4>1, <4>2
    <3> QED BY <3>1, <3>7, <3>8, <3>9 DEF rest
  <2> QED BY <2>2, <2>3
<1> QED BY <1>1, <1>2

----------------------------------------------------------------------------
(* The inductive invariant.                                                *)

\* The ring holds the newest chunks; what it dropped, the capacity or an end of speech allowed.
Base == pushed - Len(ring)
Trimmed == Minus(pushed, Capacity)
RingOK ==
  /\ ring \in Seq(Chunks) /\ Len(ring) <= pushed /\ Len(ring) <= Capacity
  /\ \A i \in 1..Len(ring) : ring[i] = Base + i
  /\ Base <= Minus(pushed, Overlap) \/ Base <= Trimmed
  /\ Base <= speechEnd \/ Base <= Trimmed
\* The batch is what was pushed last.
PendingOK ==
  /\ pending \in Seq(Chunks) /\ Len(pending) <= pushed /\ Len(pending) < Batch
  /\ \A i \in 1..Len(pending) : pending[i] = (pushed - Len(pending)) + i
\* What is sent was pushed, and a chunk once for each of replay and batch.
SentOK ==
  /\ heard \in Seq(1..pushed) /\ replay \in Seq(1..pushed)
  /\ Len(heard) + Len(replay) + Len(pending) <= MaxChunk + pushed
\* A new connection hears nothing the ring has forgotten, but for its capacity.
LateOK ==
  epoch > 0 /\ utterance = 1 =>
    /\ \A i \in 1..Len(heard) : Base <= heard[i] \/ Base <= Trimmed
    /\ \A i \in 1..Len(replay) : Base <= replay[i] \/ Base <= Trimmed
\* The first connection.
FirstOK ==
  epoch = 0 =>
    /\ replay = <<>> /\ receiver # "replay"
    /\ \A i \in 1..Len(heard) : heard[i] = i
    /\ up => connected /\ Len(heard) + Len(pending) = pushed
    /\ finAt # Never => Len(heard) = pushed
FinishOK ==
  /\ feeder \in {"finish", "await"} => finishing
  /\ feeder = "finish" => pending = <<>>
  /\ finAt # Never => feeder \notin {"feed", "finish"} /\ finishing /\ finAt <= Len(heard)
SaidOK ==
  /\ said \in 0..Len(heard) /\ utterance \in 1..said + 1
  /\ \A id \in seen : id \in Nat \X Nat /\ id[2] <= said
  /\ mergeLeft \in 0..ReplayMerges /\ (epoch = 0 => mergeLeft = 0)
TextOK ==
  /\ committed \in Seq(Chunks)
  /\ epoch = 0 => Len(committed) = said /\ \A i \in 1..said : committed[i] = i
  /\ \A i \in 1..said : heard[i] \in ToSet(committed)
AckOK ==
  acked /\ ~FinishOnFinal =>
    finAt # Never /\ finishing /\ said = Len(heard) /\ receiver \in {"recv", "done"}
RestOK ==
  /\ pushed \in 0..MaxChunk /\ dials \in 0..MaxDial /\ epoch \in Nat /\ breaks \in 0..MaxBreak
  /\ speechEnd \in 0..pushed /\ finAt \in 0..Never
  /\ connected \in BOOLEAN /\ finishing \in BOOLEAN /\ closing \in BOOLEAN
  /\ acked \in BOOLEAN /\ told \in BOOLEAN /\ up \in BOOLEAN
  /\ feeder \in {"feed", "finish", "await", "end", "closed"}
  /\ receiver \in {"recv", "backoff", "replay", "done"}

SessionInv ==
  /\ RestOK /\ RingOK /\ PendingOK /\ SentOK /\ LateOK
  /\ FirstOK /\ FinishOK /\ SaidOK /\ TextOK /\ AckOK

----------------------------------------------------------------------------
(* The ring and what is sent.                                              *)

LEMMA Constants ==
  /\ MaxChunk \in Nat /\ MaxChunk > 0 /\ Batch \in Nat /\ Capacity \in Nat /\ Capacity > 0
  /\ Overlap \in Nat /\ ReplayBatch \in Nat /\ ReplayBatch > 0 /\ MaxBreak \in Nat /\ MaxDial \in Nat
  /\ MaxDial > 0 /\ ReplayMerges \in Nat /\ ChunkStyle \in BOOLEAN /\ FinishOnFinal \in BOOLEAN
  /\ Batch <= Overlap + 2 /\ Batch > 0
BY CloudAssumption

\* More than the provider can hear on a connection.
LEMMA NeverIs == Never \in Nat /\ Never > 2 * MaxChunk
<1> DEFINE b == MaxBreak + MaxDial
<1>1. b \in Nat /\ MaxChunk * b \in Nat
  BY Constants
<1>2. Never = MaxChunk * (b + 2)
  BY Constants DEF Never
<1>3. b >= 1 /\ MaxChunk * b >= MaxChunk
  BY Constants
<1>4. MaxChunk * (b + 2) = MaxChunk * b + 2 * MaxChunk
  BY <1>1, Constants
<1> HIDE DEF b
<1> QED BY <1>1, <1>2, <1>3, <1>4, Constants

LEMMA SeqIn ==
  ASSUME NEW S, NEW T, NEW s \in Seq(S), \A i \in 1..Len(s) : s[i] \in T
  PROVE  s \in Seq(T)
OBVIOUS

\* What is left of an interval when its front is dropped.
LEMMA AfterIs ==
  ASSUME RingOK, pushed \in Nat, NEW t \in Nat
  PROVE  \E e \in 0..Len(ring) :
           /\ After(ring, t) \in Seq(Chunks) /\ Len(After(ring, t)) = Len(ring) - e
           /\ \A i \in 1..Len(ring) - e : After(ring, t)[i] = (Base + e) + i
           /\ e = 0 \/ Base + e <= t
           /\ e = Len(ring) \/ Base + e >= t
<1> DEFINE r == ring  n == Len(ring)  b == Base
<1>9. r \in Seq(Chunks) /\ b \in Nat /\ n \in Nat /\ Len(r) = n /\ \A i \in 1..n : r[i] = b + i
  BY DEF RingOK, Base
<1> HIDE DEF r, n, b
<1> DEFINE Is(e) == (\A i \in 1..e : r[i] <= t) /\ (e < n => r[e + 1] > t)
           w == IF t <= b THEN 0 ELSE IF t >= b + n THEN n ELSE t - b
<1>1. w \in 0..n /\ Is(w)
  <2>1. CASE t <= b
    BY <1>9, <2>1
  <2>2. CASE t > b /\ t >= b + n
    BY <1>9, <2>2
  <2>3. CASE t > b /\ t < b + n
    <3>1. w = t - b /\ w \in 1..n - 1 /\ w + 1 \in 1..n /\ r[w + 1] = b + (w + 1) /\ \A i \in 1..w : i \in 1..n
      BY <1>9, <2>3
    <3>2. \A i \in 1..w : b + i <= t
      BY <1>9, <3>1
    <3> HIDE DEF w
    <3> QED BY <1>9, <3>1, <3>2
  <2> QED BY <1>9, <2>1, <2>2, <2>3
<1>2. Ended(r, t) = CHOOSE e \in 0..n : Is(e)
  BY <1>9 DEF Ended
<1> DEFINE e == Ended(r, t)
<1>3. e \in 0..n /\ Is(e)
  <2> HIDE DEF Is, w
  <2> QED BY <1>1, <1>2
<1> HIDE DEF e
<1>4. e = 0 \/ b + e <= t
  <2>1. CASE e > 0
    <3>1. e \in 1..e /\ e \in 1..n
      BY <1>9, <1>3, <2>1
    <3> QED BY <1>9, <1>3, <3>1
  <2> QED BY <1>9, <1>3, <2>1
<1>5. e = n \/ b + e >= t
  <2>1. CASE e < n
    <3>1. e + 1 \in 1..n /\ r[e + 1] = b + (e + 1)
      BY <1>9, <1>3, <2>1
    <3> QED BY <1>9, <1>3, <2>1, <3>1
  <2> QED BY <1>9, <1>3, <2>1
<1> DEFINE q == SubSeq(r, e + 1, n)
<1>6. After(r, t) = q
  BY <1>9 DEF After, e
<1>7. q \in Seq(Chunks) /\ Len(q) = n - e /\ \A i \in 1..n - e : q[i] = r[e + i]
  BY <1>9, <1>3
<1>8. \A i \in 1..n - e : q[i] = (b + e) + i
  BY <1>9, <1>3, <1>7
<1> HIDE DEF q
<1> QED BY <1>3, <1>4, <1>5, <1>6, <1>7, <1>8 DEF r, n, b

\* The heard chunks grow at their end.
LEMMA Grown ==
  ASSUME pushed \in Nat, heard \in Seq(1..pushed), NEW q \in Nat, pushed <= q, NEW b \in Seq(1..q),
         heard' = heard \/ heard' = heard \o b
  PROVE  /\ heard' \in Seq(1..q) /\ Len(heard) <= Len(heard') /\ Len(heard') <= Len(heard) + Len(b)
         /\ heard' = heard \o b => Len(heard') = Len(heard) + Len(b)
         /\ \A i \in 1..Len(heard) : heard'[i] = heard[i]
         /\ \A i \in 1..Len(heard') : i \in 1..Len(heard) \/ (i - Len(heard) \in 1..Len(b) /\ heard'[i] = b[i - Len(heard)])
<1>1. heard \in Seq(1..q)
  <2>1. 1..pushed \subseteq 1..q
    OBVIOUS
  <2> QED BY <2>1, SeqMonotonic
<1>2. CASE heard' = heard
  BY <1>1, <1>2, ConcatEqualIffEmpty
<1>3. CASE heard' = heard \o b
  <2>1. /\ heard' \in Seq(1..q) /\ Len(heard') = Len(heard) + Len(b)
        /\ \A i \in 1..Len(heard) + Len(b) : heard'[i] = IF i <= Len(heard) THEN heard[i] ELSE b[i - Len(heard)]
    BY <1>1, <1>3, ConcatProperties
  <2> DEFINE m == Len(heard)  n == Len(b)
  <2>2. m \in Nat /\ n \in Nat
    OBVIOUS
  <2>3. heard' \in Seq(1..q) /\ Len(heard') = m + n /\ \A i \in 1..m + n : heard'[i] = IF i <= m THEN heard[i] ELSE b[i - m]
    BY <2>1
  <2> HIDE DEF m, n
  <2>4. \A i \in 1..m : heard'[i] = heard[i]
    BY <2>2, <2>3
  <2>5. \A i \in 1..m + n : i \in 1..m \/ (i - m \in 1..n /\ heard'[i] = b[i - m])
    BY <2>2, <2>3
  <2> QED BY <1>3, <2>2, <2>3, <2>4, <2>5 DEF m, n
<1> QED BY <1>2, <1>3

\* A send reaches a live socket; one that fails was broken.
LEMMA Sends ==
  ASSUME NEW batch, SendOrClear(batch), heard \in Seq(1..pushed), connected \in BOOLEAN
  PROVE  /\ heard' = heard \/ heard' = heard \o batch
         /\ connected' \in BOOLEAN
         /\ up /\ connected => connected' /\ heard' = heard \o batch
<1>1. batch = <<>> => heard \o batch = heard
  BY ConcatEmptySeq
<1> QED BY <1>1 DEF SendOrClear, Delivers, Disappears

----------------------------------------------------------------------------
(* The parts of the invariant that a step leaves alone.                    *)

LEMMA RingKept == ASSUME RingOK, UNCHANGED <<ring, pushed, speechEnd>> PROVE RingOK'
BY DEF RingOK, Base, Trimmed

LEMMA PendingKept == ASSUME PendingOK, UNCHANGED <<pending, pushed>> PROVE PendingOK'
BY DEF PendingOK

LEMMA NoPending == ASSUME pending' = <<>>, pushed' \in Nat PROVE PendingOK'
<1>1. Len(pending') = 0 /\ pending' \in Seq(Chunks)
  OBVIOUS
<1> QED BY <1>1, Constants DEF PendingOK

LEMMA SentKept ==
  ASSUME SentOK, UNCHANGED <<heard, pushed>>, replay' \in {replay, <<>>}, pending' \in {pending, <<>>},
         pending \in Seq(Chunks), pushed \in Nat
  PROVE  SentOK'
<1>1. <<>> \in Seq(1..pushed) /\ Len(<<>>) = 0
  OBVIOUS
<1>2. Len(heard) \in Nat /\ Len(replay) \in Nat /\ Len(pending) \in Nat
  BY DEF SentOK
<1>3. Len(replay') \in 0..Len(replay) /\ replay' \in Seq(1..pushed)
  <2>1. CASE replay' = replay
    BY <1>2, <2>1 DEF SentOK
  <2>2. CASE replay' = <<>>
    BY <1>1, <1>2, <2>2
  <2> QED BY <2>1, <2>2
<1>4. Len(pending') \in 0..Len(pending)
  <2>1. CASE pending' = pending
    BY <1>2, <2>1
  <2>2. CASE pending' = <<>>
    BY <1>1, <1>2, <2>2
  <2> QED BY <2>1, <2>2
<1> QED BY <1>2, <1>3, <1>4, Constants DEF SentOK

LEMMA LateKept ==
  ASSUME LateOK, UNCHANGED <<heard, pushed, ring, epoch, utterance>>, replay' \in {replay, <<>>}
  PROVE  LateOK'
<1>1. Len(<<>>) = 0
  OBVIOUS
<1> QED BY <1>1 DEF LateOK, Base, Trimmed

LEMMA FirstKept ==
  ASSUME FirstOK, UNCHANGED <<heard, pushed, epoch>>, replay' \in {replay, <<>>}, pending' = pending,
         receiver' = "replay" => receiver = "replay", up' => up /\ connected' = connected,
         epoch = 0 /\ finAt' # Never => Len(heard) = pushed \/ finAt # Never
  PROVE  FirstOK'
BY DEF FirstOK

LEMMA FinishKept ==
  ASSUME FinishOK, UNCHANGED <<heard, finAt, feeder>>, finishing => finishing', pending' \in {pending, <<>>}
  PROVE  FinishOK'
BY DEF FinishOK

LEMMA SaidKept == ASSUME SaidOK, UNCHANGED <<said, heard, utterance, seen, mergeLeft, epoch>> PROVE SaidOK'
BY DEF SaidOK

LEMMA TextKept == ASSUME TextOK, UNCHANGED <<said, heard, committed, epoch>> PROVE TextOK'
BY DEF TextOK

LEMMA AckKept ==
  ASSUME AckOK, UNCHANGED <<said, heard, finAt, finishing>>, acked' /\ ~FinishOnFinal => acked,
         receiver \in {"recv", "done"} /\ finishing => receiver' \in {"recv", "done"}
  PROVE  AckOK'
BY DEF AckOK

\* Chunks that are heard leave what was said as it was.
LEMMA SaidGrows ==
  ASSUME SaidOK, TextOK, SentOK, pushed \in Nat, UNCHANGED <<said, utterance, seen, mergeLeft, epoch, committed>>,
         heard' \in Seq(1..pushed'), Len(heard) <= Len(heard'), \A i \in 1..Len(heard) : heard'[i] = heard[i]
  PROVE  SaidOK' /\ TextOK'
<1>1. Len(heard) \in Nat /\ Len(heard') \in Nat
  BY DEF SentOK
<1>2. said \in 0..Len(heard') /\ \A i \in 1..said : heard'[i] = heard[i]
  BY <1>1 DEF SaidOK
<1>3. SaidOK'
  BY <1>2 DEF SaidOK
<1> QED BY <1>2, <1>3 DEF TextOK

----------------------------------------------------------------------------
(* Committing text.                                                        *)

LEMMA HeardChunks == ASSUME SentOK, pushed \in 0..MaxChunk PROVE \A i \in 1..Len(heard) : heard[i] \in Chunks
<1>1. \A i \in 1..Len(heard) : heard[i] \in 1..pushed
  BY DEF SentOK
<1>2. 1..pushed \subseteq Chunks
  BY Constants DEF Chunks
<1> QED BY <1>1, <1>2

LEMMA CommitKeeps ==
  ASSUME SaidOK, TextOK, NEW text \in Seq(Chunks), NEW id, Commit(text, id)
  PROVE  /\ committed' \in Seq(Chunks) /\ ToSet(committed) \subseteq ToSet(committed')
         /\ id \notin seen \/ ~ChunkStyle => ToSet(text) \subseteq ToSet(committed')
         /\ seen' \subseteq seen \cup {id}
         /\ mergeLeft' \in 0..ReplayMerges /\ (mergeLeft = 0 => mergeLeft' = 0)
         /\ ChunkStyle /\ id \in seen => committed' = committed
<1>1. committed \in Seq(Chunks)
  BY DEF TextOK
<1>2. /\ MergeConfirmed(committed, text) \in Seq(Chunks)
      /\ ToSet(committed) \cup ToSet(text) \subseteq ToSet(MergeConfirmed(committed, text))
  BY <1>1, MergeTypes, MergeKeeps
<1>3. committed \o text \in Seq(Chunks) /\ ToSet(committed \o text) = ToSet(committed) \cup ToSet(text)
  BY <1>1, InConcat, ConcatProperties
<1>4. mergeLeft \in 0..ReplayMerges /\ ReplayMerges \in Nat
  BY Constants DEF SaidOK
<1>5. Minus(mergeLeft, 1) \in 0..ReplayMerges /\ (mergeLeft = 0 => Minus(mergeLeft, 1) = 0)
  BY <1>4 DEF Minus
<1> HIDE DEF SaidOK, TextOK
<1>6. CASE ChunkStyle /\ id \in seen
  <2>1. committed' = committed /\ mergeLeft' = mergeLeft /\ seen' = seen \cup {id}
    BY <1>6 DEF Commit
  <2> QED BY <1>1, <1>4, <1>6, <2>1
<1>8. CASE ChunkStyle /\ id \notin seen
  <2>1. /\ committed' = MergeConfirmed(committed, text) \/ committed' = committed \o text
        /\ mergeLeft' = Minus(mergeLeft, 1) /\ seen' = seen \cup {id}
    BY <1>8 DEF Commit
  <2>2. committed' \in Seq(Chunks) /\ ToSet(committed) \cup ToSet(text) \subseteq ToSet(committed')
    BY <1>2, <1>3, <2>1
  <2> QED BY <1>5, <1>8, <2>1, <2>2
<1>7. CASE ~ChunkStyle
  BY <1>2, <1>4, <1>7 DEF Commit
<1> QED BY <1>6, <1>7, <1>8

\* On the first connection the words are counted on.
LEMMA CommitCounts ==
  ASSUME SaidOK, TextOK, FirstOK, SentOK, pushed \in 0..MaxChunk, epoch = 0, NEW from \in Nat, NEW k \in said..Len(heard),
         from = (IF ChunkStyle THEN said + 1 ELSE utterance), k >= from,
         Commit(SubSeq(heard, from, k), <<said, k>>)
  PROVE  Len(committed') = k /\ \A i \in 1..k : committed'[i] = i
<1> DEFINE text == SubSeq(heard, from, k)
<1>1. /\ said \in Nat /\ k \in Nat /\ k >= said /\ utterance \in 1..said + 1 /\ from \in 1..said + 1
      /\ Len(heard) \in Nat /\ k <= Len(heard)
  BY DEF SaidOK, SentOK
<1>2. committed \in Seq(Chunks) /\ Len(committed) = said /\ \A i \in 1..said : committed[i] = i
  BY DEF TextOK
<1>3. \A i \in 1..Len(heard) : heard[i] = i /\ heard[i] \in Chunks
  BY HeardChunks DEF FirstOK
<1>4. text \in Seq(Chunks) /\ Len(text) = (k - from) + 1 /\ \A i \in 1..Len(text) : text[i] = (from - 1) + i
  <2>1. \A i \in from..k : heard[i] \in Chunks /\ heard[i] = i
    BY <1>1, <1>3
  <2>2. text \in Seq(Chunks) /\ Len(text) = (k - from) + 1 /\ \A i \in 1..(k - from) + 1 : text[i] = heard[from + i - 1]
    BY <1>1, <2>1, SubSeqProperties
  <2>3. \A i \in 1..(k - from) + 1 : from + i - 1 \in from..k /\ from + i - 1 = (from - 1) + i
    BY <1>1
  <2> HIDE DEF text
  <2> QED BY <2>1, <2>2, <2>3
<1>5. mergeLeft = 0 /\ \A id \in seen : id[2] <= said
  BY DEF SaidOK
<1> HIDE DEF text
<1>6. CASE ChunkStyle
  <2>1. <<said, k>> \notin seen
    <3>1. <<said, k>>[2] = k /\ k > said
      BY <1>1, <1>6
    <3> QED BY <1>1, <1>5, <3>1
  <2>2. committed' = committed \o text
    BY <1>5, <1>6, <2>1 DEF Commit, text
  <2>3. /\ Len(committed \o text) = said + Len(text)
        /\ \A i \in 1..said + Len(text) : (committed \o text)[i] = IF i <= said THEN committed[i] ELSE text[i - said]
    BY <1>2, <1>4, ConcatProperties
  <2>4. said + Len(text) = k /\ from = said + 1
    BY <1>1, <1>4, <1>6
  <2>5. ASSUME NEW i \in 1..k PROVE committed'[i] = i
    <3>1. CASE i <= said
      BY <1>2, <2>2, <2>3, <2>4, <3>1
    <3>2. CASE i > said
      <4> DEFINE j == i - said
      <4>1. j \in 1..Len(text) /\ (from - 1) + j = i
        BY <1>1, <1>4, <2>4, <3>2
      <4>2. committed'[i] = text[j]
        BY <1>1, <2>2, <2>3, <2>4, <3>2
      <4> HIDE DEF j
      <4> QED BY <1>4, <4>1, <4>2
    <3> QED BY <1>1, <3>1, <3>2
  <2> QED BY <2>2, <2>3, <2>4, <2>5
<1>7. CASE ~ChunkStyle
  <2>1. committed' = MergeConfirmed(committed, text)
    BY <1>7 DEF Commit, text
  <2>2. Len(text) \in Nat /\ from \in 1..said + 1
    BY <1>1, <1>4
  <2>3. /\ committed \in Seq(Chunks) /\ said \in Nat /\ Len(committed) = said /\ \A i \in 1..said : committed[i] = i
        /\ text \in Seq(Chunks) /\ from \in 1..said + 1 /\ k \in Nat /\ k >= said /\ k >= from
        /\ Len(text) = (k - from) + 1 /\ \A i \in 1..Len(text) : text[i] = (from - 1) + i
    BY <1>1, <1>2, <1>4
  <2>4. Len(MergeConfirmed(committed, text)) = k /\ \A i \in 1..k : MergeConfirmed(committed, text)[i] = i
    BY ONLY <2>3, MergeCounts
  <2> QED BY <2>1, <2>4
<1> QED BY <1>6, <1>7

\* A piece, or the text of an utterance, up to what was heard.
LEMMA NewText ==
  ASSUME SaidOK, TextOK, FirstOK, SentOK, pushed \in 0..MaxChunk, NEW from \in Nat, NEW k \in said..Len(heard),
         from = (IF ChunkStyle THEN said + 1 ELSE utterance), k >= from,
         Commit(SubSeq(heard, from, k), <<said, k>>), said' = k, UNCHANGED <<heard, epoch>>,
         utterance' \in {utterance, k + 1}
  PROVE  SaidOK' /\ TextOK'
<1> DEFINE text == SubSeq(heard, from, k)
<1>1. /\ said \in Nat /\ k \in Nat /\ k >= said /\ utterance \in 1..said + 1 /\ from \in 1..said + 1
      /\ Len(heard) \in Nat /\ k <= Len(heard)
  BY DEF SaidOK, SentOK
<1>2. \A i \in 1..Len(heard) : heard[i] \in Chunks
  BY HeardChunks
<1>3. text \in Seq(Chunks) /\ Len(text) = (k - from) + 1 /\ \A i \in 1..Len(text) : text[i] = heard[(from - 1) + i]
  <2>1. \A i \in from..k : heard[i] \in Chunks
    BY <1>1, <1>2
  <2>2. text \in Seq(Chunks) /\ Len(text) = (k - from) + 1 /\ \A i \in 1..(k - from) + 1 : text[i] = heard[from + i - 1]
    BY <1>1, <2>1, SubSeqProperties
  <2>3. \A i \in 1..(k - from) + 1 : from + i - 1 = (from - 1) + i
    BY <1>1
  <2> HIDE DEF text
  <2> QED BY <2>2, <2>3
<1>4. ChunkStyle => <<said, k>> \notin seen
  <2>1. ChunkStyle => k > said /\ <<said, k>>[2] = k
    BY <1>1
  <2> QED BY <1>1, <2>1 DEF SaidOK
<1> HIDE DEF text
<1>5. /\ committed' \in Seq(Chunks) /\ ToSet(committed) \subseteq ToSet(committed')
      /\ ToSet(text) \subseteq ToSet(committed') /\ seen' \subseteq seen \cup {<<said, k>>}
      /\ mergeLeft' \in 0..ReplayMerges /\ (mergeLeft = 0 => mergeLeft' = 0)
  BY <1>3, <1>4, CommitKeeps DEF text
<1>6. SaidOK'
  <2>1. \A id \in seen' : id \in Nat \X Nat /\ id[2] <= k
    BY <1>1, <1>5 DEF SaidOK
  <2>2. epoch' = 0 => mergeLeft' = 0
    BY <1>5 DEF SaidOK
  <2> QED BY <1>1, <1>5, <2>1, <2>2 DEF SaidOK
<1>7. ASSUME NEW i \in 1..k PROVE heard[i] \in ToSet(committed')
  <2>1. CASE i <= said
    BY <1>1, <1>5, <2>1 DEF TextOK
  <2>2. CASE i > said
    <3> DEFINE j == i - (from - 1)
    <3>1. j \in 1..Len(text) /\ (from - 1) + j = i
      BY <1>1, <1>3, <2>2
    <3> HIDE DEF j
    <3>4. text[j] = heard[(from - 1) + j]
      BY <1>3, <3>1
    <3>2. text[j] = heard[i]
      BY <3>1, <3>4
    <3>5. DOMAIN text = 1..Len(text)
      BY <1>3
    <3>3. heard[i] \in ToSet(text)
      BY <3>1, <3>2, <3>5 DEF ToSet
    <3> QED BY <1>5, <3>3
  <2> QED BY <1>1, <2>1, <2>2
<1>8. epoch = 0 => Len(committed') = k /\ \A i \in 1..k : committed'[i] = i
  BY CommitCounts
<1> QED BY <1>5, <1>6, <1>7, <1>8 DEF TextOK

----------------------------------------------------------------------------
(* The steps of the feeder.                                                *)

LEMMA InitInv == ASSUME Init PROVE SessionInv
<1>1. <<>> \in Seq(Chunks) /\ <<>> \in Seq(1..0) /\ Len(<<>>) = 0 /\ ToSet(<<>>) = {}
  BY DEF ToSet
<1>2. RestOK
  <2>1. /\ pushed \in 0..MaxChunk /\ dials \in 0..MaxDial /\ epoch \in Nat /\ breaks \in 0..MaxBreak
        /\ speechEnd \in 0..pushed /\ finAt \in 0..Never
    BY Constants, NeverIs DEF Init
  <2>2. /\ connected \in BOOLEAN /\ finishing \in BOOLEAN /\ closing \in BOOLEAN
        /\ acked \in BOOLEAN /\ told \in BOOLEAN /\ up \in BOOLEAN
        /\ feeder \in {"feed", "finish", "await", "end", "closed"}
        /\ receiver \in {"recv", "backoff", "replay", "done"}
    BY DEF Init
  <2> QED BY <2>1, <2>2 DEF RestOK
<1>3. RingOK /\ PendingOK /\ SentOK /\ LateOK
  BY <1>1, Constants DEF Init, RingOK, PendingOK, SentOK, LateOK, Base, Trimmed, Minus
<1>4. FirstOK /\ FinishOK /\ SaidOK /\ TextOK /\ AckOK
  BY <1>1, Constants DEF Init, FirstOK, FinishOK, SaidOK, TextOK, AckOK
<1> QED BY <1>2, <1>3, <1>4 DEF SessionInv

\* A chunk more, and one less where the ring is full.
LEMMA RingGrows ==
  ASSUME RingOK, RestOK, pushed' = pushed + 1, pushed < MaxChunk, ring' = RingAppend(pushed'), speechEnd' = speechEnd
  PROVE  RingOK' /\ (Base' = Base \/ Base' <= Trimmed') /\ Trimmed <= Trimmed'
<1> DEFINE n == Len(ring)  r == Append(ring, pushed + 1)  p == pushed + 1
<1>1. /\ ring \in Seq(Chunks) /\ n \in Nat /\ pushed \in Nat /\ n <= pushed /\ n <= Capacity
      /\ p \in Chunks /\ \A i \in 1..n : ring[i] = (pushed - n) + i
  BY Constants DEF RingOK, RestOK, Base, Chunks
<1>2. /\ r \in Seq(Chunks) /\ Len(r) = n + 1 /\ r[n + 1] = p
      /\ \A i \in 1..n : r[i] = ring[i]
  BY <1>1
<1> HIDE DEF r, n
<1>3. \A i \in 1..n + 1 : r[i] = (pushed - n) + i
  BY <1>1, <1>2
<1>4. Trimmed <= Trimmed' /\ Trimmed' = (IF p > Capacity THEN p - Capacity ELSE 0) /\ pushed' = p
  BY <1>1, Constants DEF Trimmed, Minus
<1>5. CASE n + 1 <= Capacity
  <2>1. ring' = r
    BY <1>1, <1>2, <1>5, Constants DEF RingAppend, r
  <2>2. Base' = Base
    BY <1>1, <1>2, <2>1 DEF Base, n
  <2>6. Base = pushed - n /\ Len(ring') = n + 1
    BY <1>2, <2>1 DEF Base, n
  <2>3. Base <= Minus(pushed, Overlap) => Base <= Minus(p, Overlap)
    BY <1>1, <2>6, Constants DEF Minus
  <2>4. Base <= Minus(p, Overlap) \/ Base <= Trimmed'
    BY <1>1, <1>4, <2>3, Constants DEF RingOK, Base, Trimmed, n, Minus
  <2>5. Base <= speechEnd \/ Base <= Trimmed'
    BY <1>1, <1>4, Constants DEF RingOK, RestOK, Base, Trimmed, n, Minus
  <2> QED BY <1>1, <1>2, <1>3, <1>4, <1>5, <2>1, <2>2, <2>4, <2>5, <2>6 DEF RingOK
<1>6. CASE n + 1 > Capacity
  <2>0. n = Capacity
    BY <1>1, <1>6, Constants
  <2>1. ring' = Tail(r)
    BY <1>1, <1>2, <1>6, Constants DEF RingAppend, r
  <2>2. r # <<>>
    BY <1>1, <1>2
  <2>3. Tail(r) \in Seq(Chunks) /\ Len(Tail(r)) = n /\ \A i \in 1..n : Tail(r)[i] = r[i + 1]
    BY <1>1, <1>2, <2>2, HeadTailProperties
  <2>4. \A i \in 1..n : Tail(r)[i] = (p - n) + i
    BY <1>1, <1>3, <2>3
  <2>6. ring' \in Seq(Chunks) /\ Len(ring') = n /\ \A i \in 1..n : ring'[i] = (p - n) + i
    BY <2>1, <2>3, <2>4
  <2>5. Base' = p - n /\ p > Capacity /\ Base' = Trimmed' /\ Len(ring') = n
    BY <1>1, <1>4, <2>0, <2>1, <2>3 DEF Base
  <2> QED BY <1>1, <1>4, <2>0, <2>5, <2>6 DEF RingOK
<1> QED BY <1>1, <1>5, <1>6, Constants

\* The chunks of a batch are late enough for the ring to have them, but for its capacity.
LEMMA BatchIsLate ==
  ASSUME RingOK, RestOK, NEW batch, NEW p \in {pushed, pushed + 1}, NEW l \in Nat, Len(batch) = l,
         l <= (Batch - 1) + (p - pushed), \A i \in 1..l : batch[i] = (p - l) + i, NEW i \in 1..l
  PROVE  Base <= batch[i] \/ Base <= Trimmed
<1>1. batch[i] >= (p - l) + 1 /\ pushed \in Nat /\ Base \in Nat
  BY DEF RestOK, RingOK, Base
<1>2. (p - l) + 1 >= pushed - Overlap /\ (p - l) + 1 >= p - l
  BY <1>1, Constants
<1>3. CASE Base <= Minus(pushed, Overlap) /\ pushed > Overlap
  BY <1>1, <1>2, <1>3, Constants DEF Minus
<1>4. CASE Base <= Trimmed
  BY <1>4
<1>5. CASE Base <= Minus(pushed, Overlap) /\ pushed <= Overlap
  <2>1. Base = 0
    BY <1>1, <1>5, Constants DEF Minus
  <2>2. Base <= Trimmed
    BY <1>1, <2>1, Constants DEF Trimmed, Minus
  <2> QED BY <2>2
<1> QED BY <1>1, <1>3, <1>4, <1>5, Constants DEF RingOK

\* What a send of the newest chunks changes.
LEMMA BatchSent ==
  ASSUME SessionInv, NEW p \in {pushed, pushed + 1}, p \in 0..MaxChunk, pushed' = p,
         RingOK', Base' = Base \/ Base' <= Trimmed', Trimmed <= Trimmed',
         NEW batch \in Seq(Chunks), Len(batch) <= (Batch - 1) + (p - pushed),
         Len(batch) = Len(pending) + (p - pushed),
         \A i \in 1..Len(batch) : batch[i] = (p - Len(batch)) + i,
         SendOrClear(batch), pending' = <<>>,
         UNCHANGED <<up, replay, receiver, epoch, utterance, said, seen, mergeLeft, committed, finAt>>,
         finAt = Never
  PROVE  SentOK' /\ LateOK' /\ FirstOK' /\ SaidOK' /\ TextOK' /\ connected' \in BOOLEAN
<1> DEFINE l == Len(batch)  h == Len(heard)
<1>1. /\ RestOK /\ RingOK /\ SentOK /\ LateOK /\ FirstOK /\ SaidOK /\ TextOK /\ PendingOK
  BY DEF SessionInv
<1>2. l \in Nat /\ h \in Nat /\ Len(replay) \in Nat /\ pushed \in Nat /\ p \in Nat /\ pushed <= p /\ Len(pending) \in Nat
  BY <1>1 DEF SentOK, RestOK, PendingOK
<1>3. batch \in Seq(1..p)
  <2>1. l <= p
    BY <1>1, <1>2 DEF PendingOK
  <2>2. \A i \in 1..l : batch[i] \in 1..p
    BY <1>2, <2>1
  <2> QED BY <2>2, SeqIn
<1>4. /\ heard' = heard \/ heard' = heard \o batch
      /\ connected' \in BOOLEAN /\ (up /\ connected => connected' /\ heard' = heard \o batch)
  BY <1>1, Sends DEF RestOK, SentOK
<1>5. /\ heard' \in Seq(1..p) /\ h <= Len(heard') /\ Len(heard') <= h + l
      /\ heard' = heard \o batch => Len(heard') = h + l
      /\ \A i \in 1..h : heard'[i] = heard[i]
      /\ \A i \in 1..Len(heard') : i \in 1..h \/ (i - h \in 1..l /\ heard'[i] = batch[i - h])
  <2>1. heard \in Seq(1..pushed) /\ pushed \in Nat /\ p \in Nat /\ pushed <= p /\ (heard' = heard \/ heard' = heard \o batch)
    BY <1>1, <1>2, <1>4 DEF SentOK
  <2> QED BY <1>3, <2>1, Grown
<1>6. Len(pending') = 0 /\ Len(heard') \in Nat
  BY <1>5
<1> HIDE DEF l, h
<1>7. SentOK'
  <2>1. replay' \in Seq(1..p)
    <3>1. 1..pushed \subseteq 1..p /\ replay \in Seq(1..pushed)
      BY <1>1, <1>2 DEF SentOK
    <3> QED BY <3>1, SeqMonotonic
  <2>2. Len(heard') + Len(replay) + 0 <= MaxChunk + p
    BY <1>1, <1>2, <1>5, <1>6, Constants DEF SentOK, h, l
  <2> QED BY <1>5, <1>6, <2>1, <2>2 DEF SentOK
<1>8. LateOK'
  <2> SUFFICES ASSUME epoch > 0, utterance = 1
               PROVE  /\ \A i \in 1..Len(heard') : Base' <= heard'[i] \/ Base' <= Trimmed'
                      /\ \A i \in 1..Len(replay) : Base' <= replay[i] \/ Base' <= Trimmed'
    BY DEF LateOK
  <2>1. Base \in Nat /\ Base' \in Nat /\ Trimmed \in Nat /\ Trimmed' \in Nat
    BY <1>1, <1>2, Constants DEF RingOK, Base, Trimmed, Minus
  <2>2. ASSUME NEW c \in Nat, Base <= c \/ Base <= Trimmed PROVE Base' <= c \/ Base' <= Trimmed'
    BY <2>1, <2>2
  <2>3. ASSUME NEW i \in 1..Len(replay) PROVE Base' <= replay[i] \/ Base' <= Trimmed'
    <3>1. replay[i] \in Nat
      BY <1>1 DEF SentOK
    <3>2. Base <= replay[i] \/ Base <= Trimmed
      BY <1>1 DEF LateOK
    <3> QED BY <2>2, <3>1, <3>2
  <2>4. ASSUME NEW i \in 1..Len(heard') PROVE Base' <= heard'[i] \/ Base' <= Trimmed'
    <3>1. heard'[i] \in Nat
      BY <1>5
    <3>2. CASE i \in 1..h
      <4>1. Base <= heard[i] \/ Base <= Trimmed
        BY <1>1, <3>2 DEF LateOK, h
      <4> QED BY <1>5, <2>2, <3>1, <3>2, <4>1
    <3>3. CASE i - h \in 1..l /\ heard'[i] = batch[i - h]
      <4>1. Base <= batch[i - h] \/ Base <= Trimmed
        BY <1>1, <1>2, <3>3, BatchIsLate DEF l
      <4> QED BY <2>2, <3>1, <3>3, <4>1
    <3> QED BY <1>5, <3>2, <3>3
  <2> QED BY <2>3, <2>4
<1>9. FirstOK'
  <2> SUFFICES ASSUME epoch = 0
               PROVE  /\ replay = <<>> /\ receiver # "replay"
                      /\ \A i \in 1..Len(heard') : heard'[i] = i
                      /\ up => connected' /\ Len(heard') + Len(pending') = p
    BY DEF FirstOK
  <2>1. replay = <<>> /\ receiver # "replay" /\ \A i \in 1..h : heard[i] = i
    BY <1>1 DEF FirstOK, h
  <2>2. up => connected /\ h + Len(pending) = pushed
    BY <1>1 DEF FirstOK, h
  <2>3. up => connected' /\ Len(heard') = h + l /\ h + l = p
    <3>1. l = Len(pending) + (p - pushed)
      BY DEF l
    <3>2. up => connected' /\ Len(heard') = h + l /\ h + Len(pending) = pushed
      BY <1>4, <1>5, <2>2
    <3>3. h + Len(pending) = pushed => h + l = p
      <4> DEFINE k == Len(pending)
      <4>1. k \in Nat /\ h \in Nat /\ l \in Nat /\ p \in Nat /\ pushed \in Nat /\ l = k + (p - pushed)
        BY <1>2, <3>1
      <4> HIDE DEF k
      <4>2. h + k = pushed => h + l = p
        BY ONLY <4>1
      <4> QED BY <4>2 DEF k
    <3> QED BY <3>2, <3>3
  <2>4. ASSUME ~up PROVE heard' = heard
    BY <2>4 DEF SendOrClear, Delivers, Disappears
  <2>5. CASE up
    <3>1. \A i \in 1..l : batch[i] = (p - l) + i
      BY DEF l
    <3>2. \A i \in 1..Len(heard') : heard'[i] = i
      <4>1. ASSUME NEW i \in 1..Len(heard') PROVE heard'[i] = i
        <5>1. CASE i \in 1..h
          BY <1>5, <2>1, <5>1
        <5>2. CASE i - h \in 1..l /\ heard'[i] = batch[i - h]
          <6>1. batch[i - h] = (p - l) + (i - h)
            BY <3>1, <5>2
          <6> QED BY <1>2, <1>6, <2>3, <2>5, <5>2, <6>1
        <5> QED BY <1>5, <5>1, <5>2
      <4> QED BY <4>1
    <3> QED BY <1>6, <1>2, <2>1, <2>3, <2>5, <3>2
  <2>6. CASE ~up
    BY <2>1, <2>4, <2>6 DEF h
  <2> QED BY <2>5, <2>6
<1>10. SaidOK' /\ TextOK'
  BY <1>1, <1>2, <1>5, SaidGrows DEF h
<1> QED BY <1>4, <1>7, <1>8, <1>9, <1>10

LEMMA InSequence == ASSUME NEW S, NEW s \in Seq(S) PROVE \A i \in 1..Len(s) : s[i] \in S
OBVIOUS

LEMMA LateShifts ==
  ASSUME LateOK, SentOK, Base \in Nat, Base' \in Nat, Trimmed \in Nat, Trimmed' \in Nat,
         Base' = Base \/ Base' <= Trimmed', Trimmed <= Trimmed', UNCHANGED <<heard, replay, epoch, utterance>>
  PROVE  LateOK'
<1>1. ASSUME NEW c \in Nat, Base <= c \/ Base <= Trimmed PROVE Base' <= c \/ Base' <= Trimmed'
  BY <1>1
<1>2. /\ \A i \in 1..Len(heard) : heard[i] \in Nat
      /\ \A i \in 1..Len(replay) : replay[i] \in Nat
  <2>1. /\ \A i \in 1..Len(heard) : heard[i] \in 1..pushed
        /\ \A i \in 1..Len(replay) : replay[i] \in 1..pushed
    <3>1. heard \in Seq(1..pushed) /\ replay \in Seq(1..pushed)
      BY DEF SentOK
    <3> QED BY ONLY <3>1, InSequence
  <2>3. 1..pushed \subseteq Nat
    OBVIOUS
  <2> QED BY <2>1, <2>3
<1> QED BY <1>1, <1>2 DEF LateOK

LEMMA PushStep == ASSUME SessionInv, PushAudio PROVE SessionInv'
<1> DEFINE batch == Append(pending, pushed + 1)  p == pushed + 1
<1>1. /\ RestOK /\ RingOK /\ SentOK /\ LateOK /\ FirstOK /\ SaidOK /\ TextOK /\ PendingOK /\ FinishOK /\ AckOK
  BY DEF SessionInv
<1>2. /\ feeder = "feed" /\ pushed < MaxChunk /\ pushed' = p /\ ring' = RingAppend(pushed')
      /\ UNCHANGED <<feeder, finishing, closing, up, breaks, receiver, replay, dials, epoch,
                     mergeLeft, seen, committed, speechEnd, finAt, utterance, said, acked, told>>
  BY DEF PushAudio, receiverVars, textVars
<1>3. \/ Len(batch) < Batch /\ pending' = batch /\ UNCHANGED <<heard, connected>>
      \/ ~(Len(batch) < Batch) /\ pending' = <<>> /\ SendOrClear(batch)
  BY DEF PushAudio
<1>4. finAt = Never
  BY <1>1, <1>2 DEF FinishOK
<1>5. RingOK' /\ (Base' = Base \/ Base' <= Trimmed') /\ Trimmed <= Trimmed'
  BY <1>1, <1>2, RingGrows
<1>6. /\ pushed \in Nat /\ Len(pending) \in Nat /\ p \in 0..MaxChunk /\ p \in 1..MaxChunk
      /\ Len(pending) <= Batch - 1 /\ Len(pending) <= pushed
  BY <1>1, <1>2, Constants DEF RestOK, PendingOK
<1>7. /\ batch \in Seq(Chunks) /\ Len(batch) = Len(pending) + 1
      /\ \A i \in 1..Len(batch) : batch[i] = (p - Len(batch)) + i
  <2> DEFINE k == Len(pending)
  <2>1. p \in Chunks /\ pending \in Seq(Chunks)
    BY <1>1, <1>6 DEF Chunks, PendingOK
  <2>2. batch \in Seq(Chunks) /\ Len(batch) = k + 1 /\ batch[k + 1] = p /\ \A i \in 1..k : batch[i] = pending[i]
    BY <2>1
  <2>3. \A i \in 1..k : pending[i] = (pushed - k) + i
    BY <1>1 DEF PendingOK
  <2>4. k \in Nat
    BY <1>6
  <2> HIDE DEF k, batch
  <2>5. \A i \in 1..k + 1 : batch[i] = (p - (k + 1)) + i
    BY <1>6, <2>2, <2>3, <2>4
  <2> QED BY <2>2, <2>5 DEF k
<1> HIDE DEF batch
<1>8. RestOK' /\ FinishOK' /\ AckOK' /\ PendingOK' /\ SentOK' /\ LateOK' /\ FirstOK' /\ SaidOK' /\ TextOK'
  <2>1. CASE Len(batch) < Batch /\ pending' = batch /\ UNCHANGED <<heard, connected>>
    <3>1. RestOK'
      BY <1>1, <1>2, <1>6, <2>1 DEF RestOK
    <3>2. PendingOK'
      BY <1>2, <1>6, <1>7, <2>1 DEF PendingOK
    <3>3. SentOK'
      <4>1. 1..pushed \subseteq 1..p
        BY <1>6
      <4>2. heard \in Seq(1..p) /\ replay \in Seq(1..p)
        BY <1>1, <4>1, SeqMonotonic DEF SentOK
      <4>3. Len(heard) \in Nat /\ Len(replay) \in Nat
        BY <1>1 DEF SentOK
      <4> QED BY <1>1, <1>2, <1>6, <1>7, <2>1, <4>2, <4>3, Constants DEF SentOK
    <3>4. LateOK'
      <4>1. Base \in Nat /\ Base' \in Nat /\ Trimmed \in Nat /\ Trimmed' \in Nat
        BY <1>1, <1>2, <1>5, <1>6, Constants DEF RingOK, Base, Trimmed, Minus
      <4> QED BY <1>1, <1>2, <1>5, <2>1, <4>1, LateShifts
    <3>5. FirstOK'
      <4>1. Len(heard) \in Nat
        BY <1>1 DEF SentOK
      <4> QED BY <1>1, <1>2, <1>4, <1>6, <1>7, <2>1, <4>1 DEF FirstOK
    <3>6. SaidOK' /\ TextOK'
      BY <1>1, <1>2, <2>1, SaidKept, TextKept
    <3>7. FinishOK' /\ AckOK'
      BY <1>1, <1>2, <1>4, <2>1 DEF FinishOK, AckOK
    <3> QED BY <3>1, <3>2, <3>3, <3>4, <3>5, <3>6, <3>7
  <2>2. CASE ~(Len(batch) < Batch) /\ pending' = <<>> /\ SendOrClear(batch)
    <3>1. /\ Len(batch) <= (Batch - 1) + (p - pushed) /\ Len(batch) = Len(pending) + (p - pushed)
          /\ p \in {pushed, pushed + 1} /\ pushed <= p
      BY <1>6, <1>7, Constants
    <3> HIDE DEF p
    <3>2. SentOK' /\ LateOK' /\ FirstOK' /\ SaidOK' /\ TextOK' /\ connected' \in BOOLEAN
      BY <1>2, <1>4, <1>5, <1>6, <1>7, <2>2, <3>1, BatchSent
    <3>3. RestOK'
      BY <1>1, <1>2, <1>6, <3>1, <3>2 DEF RestOK
    <3>4. PendingOK'
      BY <1>2, <1>6, <2>2, NoPending
    <3>5. FinishOK' /\ AckOK'
      BY <1>1, <1>2, <1>4, <2>2 DEF FinishOK, AckOK
    <3> QED BY <3>2, <3>3, <3>4, <3>5
  <2> QED BY <1>3, <2>1, <2>2
<1> QED BY <1>5, <1>8 DEF SessionInv

LEMMA FlushStep == ASSUME SessionInv, FinishFlush PROVE SessionInv'
<1>1. /\ RestOK /\ RingOK /\ SentOK /\ LateOK /\ FirstOK /\ SaidOK /\ TextOK /\ PendingOK /\ FinishOK /\ AckOK
  BY DEF SessionInv
<1>2. /\ feeder = "feed" /\ SendOrClear(pending) /\ pending' = <<>> /\ finishing' = TRUE
      /\ feeder' \in {"finish", "end"} /\ closing' \in {closing, TRUE}
      /\ UNCHANGED <<pushed, ring, up, breaks, receiver, replay, dials, epoch,
                     mergeLeft, seen, committed, speechEnd, finAt, utterance, said, acked, told>>
  BY DEF FinishFlush, End, receiverVars, textVars
<1>3. finAt = Never
  BY <1>1, <1>2 DEF FinishOK
<1>4. RingOK' /\ Base' = Base /\ Trimmed' = Trimmed
  BY <1>1, <1>2, RingKept DEF Base, Trimmed
<1>5. /\ pushed \in {pushed, pushed + 1} /\ pushed \in 0..MaxChunk /\ pending \in Seq(Chunks)
      /\ Len(pending) <= (Batch - 1) + (pushed - pushed) /\ Len(pending) = Len(pending) + (pushed - pushed)
      /\ \A i \in 1..Len(pending) : pending[i] = (pushed - Len(pending)) + i
      /\ Trimmed <= Trimmed'
  BY <1>1, <1>4, Constants DEF RestOK, PendingOK, Trimmed, Minus
<1>6. SentOK' /\ LateOK' /\ FirstOK' /\ SaidOK' /\ TextOK' /\ connected' \in BOOLEAN
  BY <1>2, <1>3, <1>4, <1>5, BatchSent
<1>7. RestOK'
  BY <1>1, <1>2, <1>6 DEF RestOK
<1>8. PendingOK'
  BY <1>2, <1>5, NoPending
<1>9. FinishOK' /\ AckOK'
  BY <1>1, <1>2, <1>3 DEF FinishOK, AckOK
<1> QED BY <1>4, <1>6, <1>7, <1>8, <1>9 DEF SessionInv

----------------------------------------------------------------------------
(* The steps of the receive loop.                                          *)

\* What the text of a step leaves alone.
LEMMA TextFrame ==
  ASSUME RestOK, RingOK, PendingOK, SentOK, LateOK, FirstOK, FinishOK, AckOK,
         UNCHANGED <<feederVars, audioVars, linkVars, receiverVars, speechEnd, heard, finAt, utterance, acked, told>>,
         said' \in Nat, acked /\ ~FinishOnFinal => said' = said
  PROVE  RestOK' /\ RingOK' /\ PendingOK' /\ SentOK' /\ LateOK' /\ FirstOK' /\ FinishOK' /\ AckOK'
<1>1. UNCHANGED <<pushed, feeder, finishing, closing, ring, pending, connected, up, breaks, receiver, replay, dials, epoch>>
  BY DEF feederVars, audioVars, linkVars, receiverVars
<1>2. RingOK' /\ PendingOK'
  BY <1>1, RingKept, PendingKept
<1>3. SentOK' /\ LateOK' /\ FirstOK' /\ FinishOK'
  BY <1>1 DEF SentOK, LateOK, FirstOK, FinishOK, Base, Trimmed
<1>4. RestOK' /\ AckOK'
  BY <1>1 DEF RestOK, AckOK
<1> QED BY <1>2, <1>3, <1>4

LEMMA TextStep == ASSUME SessionInv, RecvText PROVE SessionInv'
<1>1. /\ RestOK /\ RingOK /\ SentOK /\ LateOK /\ FirstOK /\ SaidOK /\ TextOK /\ PendingOK /\ FinishOK /\ AckOK
  BY DEF SessionInv
<1>2. UNCHANGED <<feederVars, audioVars, linkVars, receiverVars, speechEnd, heard, finAt, utterance, acked, told>>
  BY DEF RecvText
<1>3. PICK k \in (said + 1)..Len(heard) :
        /\ Commit(SubSeq(heard, IF ChunkStyle THEN said + 1 ELSE utterance, k), <<said, k>>) /\ said' = k
  BY DEF RecvText
<1> DEFINE from == IF ChunkStyle THEN said + 1 ELSE utterance
<1>4. /\ said \in Nat /\ utterance \in 1..said + 1 /\ Len(heard) \in Nat /\ from \in Nat /\ k \in Nat
      /\ k \in said..Len(heard) /\ k >= from /\ k > said /\ pushed \in 0..MaxChunk
  BY <1>1, <1>3 DEF SaidOK, SentOK, RestOK
<1>5. UNCHANGED <<heard, epoch>> /\ utterance' \in {utterance, k + 1}
  BY <1>2 DEF receiverVars
<1>6. Commit(SubSeq(heard, from, k), <<said, k>>) /\ from = (IF ChunkStyle THEN said + 1 ELSE utterance)
  BY <1>3
<1> HIDE DEF from
<1>7. SaidOK' /\ TextOK'
  BY <1>1, <1>3, <1>4, <1>5, <1>6, NewText
<1>8. acked /\ ~FinishOnFinal => said' = said
  BY <1>1, <1>4 DEF AckOK
<1> QED BY <1>1, <1>2, <1>3, <1>4, <1>7, <1>8, TextFrame DEF SessionInv

\* A repeated piece is committed no second time.
LEMMA RepeatStep == ASSUME SessionInv, RecvRepeated PROVE SessionInv'
<1>1. /\ RestOK /\ RingOK /\ SentOK /\ LateOK /\ FirstOK /\ SaidOK /\ TextOK /\ PendingOK /\ FinishOK /\ AckOK
  BY DEF SessionInv
<1>2. /\ UNCHANGED <<feederVars, audioVars, linkVars, receiverVars, speechEnd, heard, finAt, utterance, acked, told>>
      /\ said' = said /\ ChunkStyle
  BY DEF RecvRepeated, providerVars
<1>3. PICK id \in seen : Commit(SubSeq(heard, id[1] + 1, id[2]), id)
  BY DEF RecvRepeated
<1>4. committed' = committed /\ seen' = seen /\ mergeLeft' = mergeLeft
  BY <1>2, <1>3 DEF Commit
<1>5. SaidOK' /\ TextOK'
  BY <1>1, <1>2, <1>4, SaidKept, TextKept DEF receiverVars
<1>6. said' \in Nat
  BY <1>1, <1>2 DEF SaidOK, SentOK
<1> QED BY <1>1, <1>2, <1>5, <1>6, TextFrame DEF SessionInv

LEMMA LatestIs == ASSUME RingOK, pushed \in Nat PROVE LatestEnd \in 0..pushed /\ (LatestEnd # 0 => LatestEnd = pushed)
<1> DEFINE n == Len(ring)
<1>1. ring \in Seq(Chunks) /\ n \in Nat /\ n <= pushed /\ \A i \in 1..n : ring[i] = (pushed - n) + i
  BY DEF RingOK, Base
<1>2. CASE ring = <<>>
  BY <1>2 DEF LatestEnd
<1>3. CASE ring # <<>>
  <2>1. n \in 1..n /\ Last(ring) = ring[n]
    BY <1>1, <1>3 DEF Last
  <2>2. ring[n] = pushed
    <3> HIDE DEF n
    <3> QED BY <1>1, <2>1
  <2> QED BY <1>3, <2>1, <2>2 DEF LatestEnd
<1> QED BY <1>2, <1>3

\* An end of speech that may follow the last one lies in what the ring has, but for its capacity.
LEMMA SpeechInRing ==
  ASSUME RestOK, RingOK, SentOK, LateOK, NEW t \in ToSet(heard) \cup {LatestEnd, speechEnd}, Follows(t)
  PROVE  t \in 0..pushed /\ (Base <= t \/ Base <= Trimmed)
<1>1. pushed \in Nat /\ speechEnd \in 0..pushed /\ Base \in Nat /\ Base <= pushed /\ Trimmed \in Nat
  BY Constants DEF RestOK, RingOK, Base, Trimmed, Minus
<1>2. CASE t \in ToSet(heard)
  <2>1. PICK i \in 1..Len(heard) : t = heard[i]
    BY <1>2 DEF ToSet, SentOK
  <2>2. t \in 1..pushed
    <3>1. heard \in Seq(1..pushed)
      BY DEF SentOK
    <3> QED BY <2>1, <3>1, InSequence
  <2>3. CASE t >= speechEnd
    BY <1>1, <2>2, <2>3 DEF RingOK
  <2>4. CASE epoch > 0 /\ utterance = 1
    BY <2>1, <2>2, <2>4 DEF LateOK
  <2> QED BY <2>2, <2>3, <2>4 DEF Follows
<1>3. CASE t = LatestEnd
  <2>1. t \in 0..pushed /\ t = pushed
    BY <1>1, <1>3, LatestIs DEF Follows
  <2> QED BY <1>1, <2>1
<1>4. CASE t = speechEnd
  BY <1>1, <1>4 DEF RingOK
<1> QED BY <1>2, <1>3, <1>4

LEMMA SpeechStep == ASSUME SessionInv, RecvSpeechStopped PROVE SessionInv'
<1>1. /\ RestOK /\ RingOK /\ SentOK /\ LateOK /\ FirstOK /\ SaidOK /\ TextOK /\ PendingOK /\ FinishOK /\ AckOK
  BY DEF SessionInv
<1>2. UNCHANGED <<pushed, feeder, finishing, closing, ring, pending, connected, up, breaks, receiver, replay, dials, epoch,
                  mergeLeft, seen, committed, heard, finAt, utterance, said, acked, told>>
  BY DEF RecvSpeechStopped, feederVars, audioVars, linkVars, receiverVars, providerVars
<1>3. PICK t \in ToSet(heard) \cup {LatestEnd} : Follows(t) /\ speechEnd' = t
  BY DEF RecvSpeechStopped
<1>4. speechEnd' \in 0..pushed /\ (Base <= speechEnd' \/ Base <= Trimmed)
  BY <1>1, <1>3, SpeechInRing
<1>5. RingOK'
  BY <1>1, <1>2, <1>4 DEF RingOK, Base, Trimmed
<1>6. RestOK'
  BY <1>1, <1>2, <1>4 DEF RestOK
<1>7. SentOK' /\ LateOK' /\ FirstOK' /\ FinishOK' /\ PendingOK'
  BY <1>1, <1>2 DEF SentOK, LateOK, FirstOK, FinishOK, PendingOK, Base, Trimmed
<1>8. SaidOK' /\ TextOK' /\ AckOK'
  BY <1>1, <1>2 DEF SaidOK, TextOK, AckOK
<1> QED BY <1>5, <1>6, <1>7, <1>8 DEF SessionInv

LEMMA MinusIs ==
  ASSUME NEW a \in Nat, NEW b \in Nat, NEW d \in Nat, a <= d
  PROVE  Minus(a, b) \in Nat /\ Minus(a, b) <= a /\ Minus(a, b) <= Minus(d, b)
BY DEF Minus

\* The ring after a FINAL: what is before the end of speech goes, but for the overlap.
LEMMA RingCut ==
  ASSUME RestOK, RingOK, pushed' = pushed, speechEnd' \in 0..pushed, Base <= speechEnd' \/ Base <= Trimmed,
         NEW c \in Nat, c <= speechEnd', c <= Minus(pushed, Overlap), ring' = After(ring, c)
  PROVE  RingOK'
<1> DEFINE n == Len(ring)  b == Base
<1>1. n \in Nat /\ pushed \in Nat /\ b \in Nat /\ b = pushed - n /\ n <= Capacity
  BY DEF RingOK, RestOK, Base
<1>2. c \in Nat /\ c <= speechEnd' /\ c <= Minus(pushed, Overlap) /\ speechEnd' \in Nat
  BY <1>1
<1>3. PICK e \in 0..n : /\ After(ring, c) \in Seq(Chunks) /\ Len(After(ring, c)) = n - e
                        /\ \A i \in 1..n - e : After(ring, c)[i] = (b + e) + i
                        /\ e = 0 \/ b + e <= c
  BY <1>1, AfterIs
<1> HIDE DEF n, b
<1>4. ring' \in Seq(Chunks) /\ Len(ring') = n - e /\ \A i \in 1..n - e : ring'[i] = (b + e) + i
  BY <1>3
<1>5. Base' = b + e
  BY <1>1, <1>4 DEF Base
<1>6. (b <= Minus(pushed, Overlap) \/ b <= Trimmed) /\ (b <= speechEnd' \/ b <= Trimmed) /\ Trimmed' = Trimmed
  BY DEF RingOK, b, Trimmed
<1>7. Trimmed \in Nat /\ Minus(pushed, Overlap) \in Nat
  BY <1>1, Constants DEF Trimmed, Minus
<1>8. /\ Base' <= Minus(pushed, Overlap) \/ Base' <= Trimmed
      /\ Base' <= speechEnd' \/ Base' <= Trimmed
  BY <1>1, <1>2, <1>3, <1>5, <1>6, <1>7
<1>9. n - e <= pushed /\ n - e <= Capacity
  BY <1>1, <1>3, Constants
<1> QED BY <1>1, <1>4, <1>5, <1>6, <1>8, <1>9 DEF RingOK

LEMMA FinalStep == ASSUME SessionInv, RecvFinal PROVE SessionInv'
<1>1. /\ RestOK /\ RingOK /\ SentOK /\ LateOK /\ FirstOK /\ SaidOK /\ TextOK /\ PendingOK /\ FinishOK /\ AckOK
  BY DEF SessionInv
<1>2. /\ UNCHANGED <<pushed, feeder, finishing, closing, pending, connected, up, breaks, receiver, replay, dials, epoch,
                     heard, finAt, told>>
      /\ ring' = After(ring, Cutoff) /\ acked' = (acked \/ FinalAcknowledges)
  BY DEF RecvFinal, feederVars, linkVars, receiverVars
<1>3. PICK k \in said..Len(heard) :
        /\ k >= utterance
        /\ IF ChunkStyle /\ k = said
           THEN UNCHANGED <<committed, seen, mergeLeft>>
           ELSE Commit(SubSeq(heard, IF ChunkStyle THEN said + 1 ELSE utterance, k), <<said, k>>)
        /\ \E t \in {speechEnd, heard[k]} : Follows(t) /\ speechEnd' = t
        /\ said' = k /\ utterance' = k + 1
  BY DEF RecvFinal
<1> DEFINE from == IF ChunkStyle THEN said + 1 ELSE utterance
<1>4. /\ said \in Nat /\ utterance \in 1..said + 1 /\ Len(heard) \in Nat /\ from \in Nat /\ k \in Nat
      /\ k \in 1..Len(heard) /\ k >= said /\ pushed \in 0..MaxChunk
  BY <1>1, <1>3 DEF SaidOK, SentOK, RestOK
<1>5. speechEnd' \in 0..pushed /\ (Base <= speechEnd' \/ Base <= Trimmed)
  <2>1. heard[k] \in ToSet(heard)
    BY <1>1, <1>4 DEF ToSet, SentOK
  <2>2. PICK t \in {speechEnd, heard[k]} : Follows(t) /\ speechEnd' = t
    BY <1>3
  <2>3. t \in ToSet(heard) \cup {LatestEnd, speechEnd}
    BY <2>1
  <2> QED BY <1>1, <2>2, <2>3, SpeechInRing
<1>6. RingOK'
  <2>1. Cutoff \in Nat /\ Cutoff <= speechEnd' /\ Cutoff <= Minus(pushed, Overlap)
    <3>1. speechEnd' \in Nat /\ pushed \in Nat /\ speechEnd' <= pushed /\ Overlap \in Nat
      BY <1>4, <1>5, Constants
    <3> QED BY <3>1, MinusIs DEF Cutoff
  <2> QED BY <1>1, <1>2, <1>5, <2>1, RingCut
<1>7. SaidOK' /\ TextOK'
  <2>1. CASE ChunkStyle /\ k = said
    <3>1. UNCHANGED <<committed, seen, mergeLeft>> /\ said' = said /\ utterance' = said + 1 /\ UNCHANGED <<heard, epoch>>
      BY <1>2, <1>3, <2>1
    <3> QED BY <1>1, <1>4, <3>1 DEF SaidOK, TextOK
  <2>2. CASE ~(ChunkStyle /\ k = said)
    <3>1. Commit(SubSeq(heard, from, k), <<said, k>>) /\ from = (IF ChunkStyle THEN said + 1 ELSE utterance)
      BY <1>3, <2>2
    <3>2. k >= from
      BY <1>3, <1>4, <2>2
    <3>3. UNCHANGED <<heard, epoch>> /\ utterance' \in {utterance, k + 1} /\ said' = k
      BY <1>2, <1>3
    <3> HIDE DEF from
    <3> QED BY <1>1, <1>3, <1>4, <3>1, <3>2, <3>3, NewText
  <2> QED BY <2>1, <2>2
<1>8. RestOK'
  BY <1>1, <1>2, <1>5 DEF RestOK, FinalAcknowledges
<1>9. SentOK' /\ FirstOK' /\ FinishOK' /\ PendingOK'
  BY <1>1, <1>2 DEF SentOK, FirstOK, FinishOK, PendingOK
<1>10. LateOK'
  BY <1>3, <1>4 DEF LateOK
<1>11. AckOK'
  <2>1. acked' /\ ~FinishOnFinal => acked
    BY <1>2 DEF FinalAcknowledges
  <2>2. acked /\ ~FinishOnFinal => said = Len(heard)
    BY <1>1 DEF AckOK
  <2>3. said = Len(heard) => said' = Len(heard)
    BY <1>3, <1>4
  <2> QED BY <1>1, <1>2, <2>1, <2>2, <2>3 DEF AckOK
<1> QED BY <1>6, <1>7, <1>8, <1>9, <1>10, <1>11 DEF SessionInv

----------------------------------------------------------------------------
(* The steps that leave audio and text alone.                              *)

LEMMA QuietStep ==
  ASSUME SessionInv,
         UNCHANGED <<pushed, ring, pending, epoch, mergeLeft, seen, committed, speechEnd, heard, utterance, said, finishing>>,
         replay' \in {replay, <<>>}, receiver' = "replay" => receiver = "replay", up' => up /\ connected' = connected,
         epoch = 0 /\ finAt' # Never => Len(heard) = pushed \/ finAt # Never,
         RestOK', FinishOK', AckOK'
  PROVE  SessionInv'
<1>1. /\ RestOK /\ RingOK /\ SentOK /\ LateOK /\ FirstOK /\ SaidOK /\ TextOK /\ PendingOK
  BY DEF SessionInv
<1>2. RingOK' /\ PendingOK'
  BY <1>1, RingKept, PendingKept
<1>3. SentOK' /\ LateOK'
  <2>1. pending' \in {pending, <<>>} /\ pending \in Seq(Chunks) /\ pushed \in Nat
    BY <1>1 DEF PendingOK, RestOK
  <2> QED BY <1>1, <2>1, SentKept, LateKept
<1>4. FirstOK'
  BY <1>1, FirstKept
<1>5. SaidOK' /\ TextOK'
  BY <1>1, SaidKept, TextKept
<1> QED BY <1>2, <1>3, <1>4, <1>5 DEF SessionInv

LEMMA SendFinishStep == ASSUME SessionInv, SendFinish PROVE SessionInv'
<1>1. RestOK /\ SentOK /\ FirstOK /\ FinishOK /\ AckOK
  BY DEF SessionInv
<1>2. /\ UNCHANGED <<pushed, ring, pending, epoch, mergeLeft, seen, committed, speechEnd, heard, utterance, said, finishing,
                     replay, receiver, dials, connected, up, breaks, acked>>
      /\ feeder = "finish" /\ feeder' \in {"await", "end"} /\ closing' \in {closing, TRUE} /\ told' \in {told, TRUE}
      /\ finAt' = finAt \/ (up /\ finAt' = Len(heard))
  BY DEF SendFinish, End, audioVars, linkVars, receiverVars, textVars
<1>3. finAt = Never /\ finishing /\ pending = <<>>
  BY <1>1, <1>2 DEF FinishOK
<1>4. Len(heard) \in 0..Never
  <2>1. Len(heard) \in Nat /\ Len(replay) \in Nat /\ Len(pending) \in Nat /\ pushed \in 0..MaxChunk
    BY <1>1 DEF SentOK, RestOK, SessionInv, PendingOK
  <2>2. Len(heard) + Len(replay) + Len(pending) <= MaxChunk + pushed
    BY <1>1 DEF SentOK
  <2>3. Len(heard) <= MaxChunk + MaxChunk
    BY <2>1, <2>2, Constants
  <2> QED BY <2>1, <2>3, NeverIs, Constants
<1>5. epoch = 0 /\ finAt' # Never => Len(heard) = pushed
  <2>1. Len(pending) = 0
    BY <1>3
  <2>2. epoch = 0 /\ up => Len(heard) + Len(pending) = pushed
    BY <1>1 DEF FirstOK
  <2>3. Len(heard) \in Nat
    BY <1>1 DEF SentOK
  <2> QED BY <1>2, <1>3, <2>1, <2>2, <2>3
<1>6. RestOK'
  <2>1. finAt' \in 0..Never
    BY <1>1, <1>2, <1>4 DEF RestOK
  <2>2. closing' \in BOOLEAN /\ told' \in BOOLEAN
    BY <1>1, <1>2 DEF RestOK
  <2> QED BY <1>1, <1>2, <2>1, <2>2 DEF RestOK
<1>7. FinishOK'
  <2>1. Len(heard) <= Len(heard)
    BY <1>4
  <2> QED BY <1>2, <1>3, <2>1 DEF FinishOK
<1>8. AckOK'
  BY <1>1, <1>2, <1>3 DEF AckOK
<1>9. replay' \in {replay, <<>>} /\ (receiver' = "replay" => receiver = "replay") /\ (up' => up /\ connected' = connected)
  BY <1>2
<1> QED BY <1>2, <1>5, <1>6, <1>7, <1>8, <1>9, QuietStep

\* The provider has closed every utterance, so it has said all it heard.
LEMMA FinishedStep == ASSUME SessionInv, RecvFinished PROVE SessionInv'
<1>1. RestOK /\ SentOK /\ FinishOK /\ SaidOK
  BY DEF SessionInv
<1>2. /\ UNCHANGED <<pushed, ring, pending, epoch, mergeLeft, seen, committed, speechEnd, heard, utterance, said, finishing,
                     replay, receiver, dials, connected, up, breaks, finAt, feeder, closing, told>>
      /\ receiver = "recv" /\ acked' = TRUE /\ finAt # Never /\ utterance > Len(heard)
  BY DEF RecvFinished, Receiving, feederVars, audioVars, linkVars, receiverVars, textVars, providerVars
<1>3. said = Len(heard)
  <2>1. Len(heard) \in Nat /\ said \in 0..Len(heard) /\ utterance \in 1..said + 1
    BY <1>1 DEF SentOK, SaidOK
  <2> QED BY <1>2, <2>1
<1>4. RestOK' /\ FinishOK' /\ AckOK'
  BY <1>1, <1>2, <1>3 DEF RestOK, FinishOK, AckOK
<1> QED BY <1>2, <1>4, QuietStep

LEMMA FeederStep == ASSUME SessionInv, FinishWait \/ FinishTimeout \/ Close PROVE SessionInv'
<1>1. RestOK /\ FinishOK /\ AckOK
  BY DEF SessionInv
<1>2. /\ UNCHANGED <<pushed, ring, pending, epoch, mergeLeft, seen, committed, speechEnd, heard, utterance, said, finishing,
                     connected, breaks, finAt, acked>>
      /\ feeder' \in {"end", "closed"} /\ closing' = TRUE
      /\ told' \in {told, TRUE} /\ receiver' \in {receiver, "done"} /\ up' \in {up, FALSE}
      /\ replay' \in {replay, <<>>} /\ dials' \in {dials, 0}
      /\ finAt # Never => feeder' \notin {"feed", "finish"}
  BY DEF FinishWait, FinishTimeout, Close, End, audioVars, linkVars, receiverVars, textVars, providerVars
<1>3. RestOK'
  <2>1. told' \in BOOLEAN /\ up' \in BOOLEAN /\ closing' \in BOOLEAN
    BY <1>1, <1>2 DEF RestOK
  <2>2. dials' \in 0..MaxDial
    BY <1>1, <1>2, Constants DEF RestOK
  <2> QED BY <1>1, <1>2, <2>1, <2>2 DEF RestOK
<1>4. FinishOK' /\ AckOK'
  BY <1>1, <1>2 DEF FinishOK, AckOK
<1>5. (receiver' = "replay" => receiver = "replay") /\ (up' => up /\ connected' = connected)
  <2>1. receiver' = "replay" => receiver = "replay"
    BY <1>2
  <2>2. up' => up
    BY <1>2, Zenon
  <2> QED BY <1>2, <2>1, <2>2
<1> QED BY <1>2, <1>3, <1>4, <1>5, QuietStep

LEMMA LinkStep ==
  ASSUME SessionInv, KeepaliveFails \/ RecvError \/ Break \/ ConnectionLost \/ ReceiverStops \/ DialFails \/ GiveUp
  PROVE  SessionInv'
<1>1. RestOK /\ FinishOK /\ AckOK
  BY DEF SessionInv
<1>2. /\ UNCHANGED <<pushed, ring, pending, epoch, mergeLeft, seen, committed, speechEnd, heard, utterance, said, finishing,
                     finAt, feeder, closing, replay>>
      /\ up' \in {up, FALSE} /\ (connected' = connected \/ (~up /\ connected' = FALSE))
  BY DEF KeepaliveFails, RecvError, Break, ConnectionLost, ReceiverStops, DialFails, GiveUp,
         feederVars, audioVars, linkVars, receiverVars, textVars, providerVars
<1>3. /\ receiver' = receiver \/ receiver' = "done" \/ (receiver = "recv" /\ ~finishing /\ receiver' = "backoff")
      /\ acked' \in BOOLEAN /\ (acked' /\ ~FinishOnFinal => acked)
      /\ dials' \in 0..MaxDial /\ breaks' \in 0..MaxBreak /\ told' \in BOOLEAN
  <2>1. CASE KeepaliveFails
    BY <1>1, <2>1 DEF KeepaliveFails, RestOK, receiverVars
  <2>7. CASE RecvError
    BY <1>1, <2>7 DEF RecvError, RestOK, linkVars, receiverVars
  <2>2. CASE Break
    BY <1>1, <2>2, Constants DEF Break, RestOK, receiverVars
  <2>3. CASE ConnectionLost
    BY <1>1, <2>3, Constants DEF ConnectionLost, RestOK
  <2>4. CASE ReceiverStops
    BY <1>1, <2>4 DEF ReceiverStops, RestOK, linkVars
  <2>5. CASE DialFails
    BY <1>1, <2>5, Constants DEF DialFails, RestOK, linkVars
  <2>6. CASE GiveUp
    BY <1>1, <2>6, Constants DEF GiveUp, RestOK, linkVars
  <2> QED BY <2>1, <2>2, <2>3, <2>4, <2>5, <2>6, <2>7
<1>4. RestOK'
  <2>1. up' \in BOOLEAN /\ connected' \in BOOLEAN
    BY <1>1, <1>2 DEF RestOK
  <2>2. receiver' \in {"recv", "backoff", "replay", "done"}
    BY <1>1, <1>3 DEF RestOK
  <2> QED BY <1>1, <1>2, <1>3, <2>1, <2>2 DEF RestOK
<1>5. FinishOK' /\ AckOK'
  BY <1>1, <1>2, <1>3 DEF FinishOK, AckOK
<1>6. (receiver' = "replay" => receiver = "replay") /\ (up' => up /\ connected' = connected) /\ replay' \in {replay, <<>>}
  <2>1. (receiver' = "replay" => receiver = "replay") /\ replay' \in {replay, <<>>}
    BY <1>2, <1>3
  <2>2. up' => up
    BY <1>2, Zenon
  <2>3. up => connected' = connected
    BY <1>2, Zenon
  <2> QED BY <2>1, <2>2, <2>3, Zenon
<1> QED BY <1>2, <1>4, <1>5, <1>6, QuietStep

----------------------------------------------------------------------------
(* The reconnect.                                                          *)

LEMMA DialStep == ASSUME SessionInv, DialSucceeds PROVE SessionInv'
<1>1. /\ RestOK /\ RingOK /\ SentOK /\ LateOK /\ FirstOK /\ SaidOK /\ TextOK /\ PendingOK /\ FinishOK /\ AckOK
  BY DEF SessionInv
<1>2. /\ UNCHANGED <<pushed, feeder, finishing, closing, ring, breaks, committed, speechEnd, acked, told>>
      /\ receiver = "backoff" /\ dials < MaxDial /\ epoch' = epoch + 1 /\ connected' = TRUE /\ up' = TRUE
      /\ mergeLeft' = ReplayMerges /\ seen' = {}
      /\ heard' = <<>> /\ finAt' = Never /\ utterance' = 1 /\ said' = 0 /\ replay' = After(ring, ReplayStart)
      /\ receiver' \in {"recv", "replay"} /\ dials' \in {0, dials + 1} /\ pending' \in {pending, <<>>}
  BY DEF DialSucceeds, feederVars
<1>3. pushed \in Nat /\ pushed <= MaxChunk /\ MaxChunk \in Nat /\ epoch \in Nat /\ dials \in 0..MaxDial
  BY <1>1, Constants DEF RestOK
<1>4. ReplayStart \in Nat
  <2>1. LatestEnd \in Nat /\ speechEnd \in Nat
    BY <1>1, <1>3, LatestIs DEF RestOK
  <2>2. Anchor \in Nat
    BY <2>1 DEF Anchor
  <2> QED BY <2>2, Constants DEF ReplayStart, Minus
<1> DEFINE n == Len(ring)
<1>5. n \in Nat /\ n <= pushed /\ Base = pushed - n /\ Trimmed \in Nat
  BY <1>1, <1>3, Constants DEF RingOK, Base, Trimmed, Minus
<1>6. PICK e \in 0..n : /\ replay' \in Seq(Chunks) /\ Len(replay') = n - e
                        /\ \A i \in 1..n - e : replay'[i] = (Base + e) + i
  BY <1>1, <1>2, <1>3, <1>4, AfterIs
<1>7. Base' = Base /\ Trimmed' = Trimmed
  BY <1>2 DEF Base, Trimmed
<1>8. RingOK'
  BY <1>1, <1>2, RingKept
<1>9. Len(heard') = 0 /\ heard' \in Seq(1..pushed)
  BY <1>2
<1> HIDE DEF n
<1>10. replay' \in Seq(1..pushed) /\ Len(replay') <= pushed /\ \A i \in 1..Len(replay') : Base <= replay'[i]
  <2>1. \A i \in 1..n - e : replay'[i] \in 1..pushed /\ Base <= replay'[i]
    BY <1>3, <1>5, <1>6
  <2> QED BY <1>3, <1>5, <1>6, <2>1, SeqIn
<1>11. Len(pending') \in 0..pushed
  <2>1. CASE pending' = pending
    BY <1>1, <2>1 DEF PendingOK
  <2>2. CASE pending' = <<>>
    BY <1>3, <2>2
  <2> QED BY <1>2, <2>1, <2>2
<1>12. PendingOK'
  <2>1. CASE pending' = pending
    BY <1>1, <1>2, <2>1, PendingKept
  <2>2. CASE pending' = <<>>
    BY <1>2, <1>3, <2>2, NoPending
  <2> QED BY <1>2, <2>1, <2>2
<1>13. SentOK'
  BY <1>2, <1>3, <1>9, <1>10, <1>11 DEF SentOK
<1>14. LateOK'
  BY <1>7, <1>9, <1>10 DEF LateOK
<1>15. FirstOK' /\ FinishOK' /\ AckOK'
  BY <1>1, <1>2, <1>3 DEF FirstOK, FinishOK, AckOK
<1>16. SaidOK' /\ TextOK'
  <2>1. said' \in 0..Len(heard') /\ utterance' \in 1..said' + 1 /\ mergeLeft' \in 0..ReplayMerges /\ epoch' # 0
    BY <1>2, <1>3, <1>9, Constants
  <2>2. \A i \in 1..said' : heard'[i] \in ToSet(committed')
    BY <1>2
  <2> QED BY <1>1, <1>2, <2>1, <2>2 DEF SaidOK, TextOK
<1>17. RestOK'
  <2>1. dials' \in 0..MaxDial /\ epoch' \in Nat
    BY <1>2, <1>3, Constants
  <2>2. finAt' \in 0..Never
    BY <1>2, NeverIs
  <2>3. up' \in BOOLEAN /\ connected' \in BOOLEAN
    BY <1>2
  <2> QED BY <1>1, <1>2, <2>1, <2>2, <2>3 DEF RestOK
<1> QED BY <1>8, <1>12, <1>13, <1>14, <1>15, <1>16, <1>17 DEF SessionInv

\* The replay comes after the first connection.
LEMMA ReplayIsLate == ASSUME RestOK, FirstOK, receiver = "replay" PROVE epoch > 0
BY DEF RestOK, FirstOK

LEMMA ReplayStep == ASSUME SessionInv, ReplaySend PROVE SessionInv'
<1>1. /\ RestOK /\ RingOK /\ SentOK /\ LateOK /\ FirstOK /\ SaidOK /\ TextOK /\ PendingOK /\ FinishOK /\ AckOK
  BY DEF SessionInv
<1>2. /\ UNCHANGED <<pushed, feeder, finishing, closing, ring, pending, connected, up, breaks, dials, epoch,
                     mergeLeft, seen, committed, speechEnd, finAt, utterance, said, acked, told>>
      /\ receiver = "replay" /\ replay # <<>> /\ receiver' \in {"replay", "backoff"}
  BY DEF ReplaySend, feederVars, audioVars, linkVars, textVars
<1> DEFINE r == Len(replay)  n == IF Len(replay) < ReplayBatch THEN Len(replay) ELSE ReplayBatch
           b == SubSeq(replay, 1, n)  h == Len(heard)
<1>3. /\ heard' = heard \/ heard' = heard \o b
      /\ replay' = SubSeq(replay, n + 1, r) \/ replay' = <<>>
      /\ heard' = heard \o b => replay' = SubSeq(replay, n + 1, r) \/ heard' = heard
  BY DEF ReplaySend, Delivers, Disappears
<1>4. /\ replay \in Seq(1..pushed) /\ heard \in Seq(1..pushed) /\ pushed \in Nat /\ r \in Nat /\ h \in Nat
      /\ Len(pending) \in Nat /\ h + r + Len(pending) <= MaxChunk + pushed
  BY <1>1 DEF SentOK, RestOK, PendingOK
<1>5. epoch > 0
  BY <1>1, <1>2, ReplayIsLate
<1>6. n \in 0..r
  BY <1>4, Constants
<1> HIDE DEF n
<1>7. b \in Seq(1..pushed) /\ Len(b) = n /\ \A i \in 1..n : b[i] = replay[i]
  <2>1. \A i \in 1..n : replay[i] \in 1..pushed
    BY <1>4, <1>6, InSequence
  <2> QED BY <1>4, <1>6, <2>1
<1>8. replay' \in Seq(1..pushed) /\ Len(replay') <= r - n /\ \A i \in 1..Len(replay') : i + n \in 1..r /\ replay'[i] = replay[i + n]
  <2>1. CASE replay' = SubSeq(replay, n + 1, r)
    <3>1. \A i \in n + 1..r : replay[i] \in 1..pushed
      BY <1>4, <1>6, InSequence
    <3>2. replay' \in Seq(1..pushed) /\ Len(replay') = r - n /\ \A i \in 1..r - n : replay'[i] = replay[n + i]
      BY <1>4, <1>6, <2>1, <3>1
    <3> HIDE DEF r
    <3> QED BY <1>4, <1>6, <3>2
  <2>2. CASE replay' = <<>>
    <3>1. replay' \in Seq(1..pushed) /\ Len(replay') = 0
      BY <2>2
    <3> HIDE DEF r
    <3> QED BY <1>4, <1>6, <3>1
  <2> QED BY <1>3, <2>1, <2>2
<1>9. /\ heard' \in Seq(1..pushed) /\ h <= Len(heard') /\ Len(heard') <= h + n
      /\ \A i \in 1..h : heard'[i] = heard[i]
      /\ \A i \in 1..Len(heard') : i \in 1..h \/ (i - h \in 1..n /\ heard'[i] = b[i - h])
  <2>1. pushed <= pushed
    BY <1>4
  <2> HIDE DEF b
  <2> QED BY <1>3, <1>4, <1>7, <2>1, Grown
<1> HIDE DEF b, h, r
<1>10. RingOK' /\ PendingOK'
  BY <1>1, <1>2, RingKept, PendingKept
<1>11. SentOK'
  <2>1. Len(heard') \in Nat /\ Len(replay') \in Nat
    BY <1>8, <1>9
  <2>2. Len(heard') + Len(replay') + Len(pending) <= MaxChunk + pushed
    BY <1>4, <1>6, <1>8, <1>9, <2>1, Constants
  <2> QED BY <1>2, <1>8, <1>9, <2>2 DEF SentOK
<1>12. LateOK'
  <2>1. SUFFICES ASSUME utterance = 1
                 PROVE  /\ \A i \in 1..Len(heard') : Base <= heard'[i] \/ Base <= Trimmed
                        /\ \A i \in 1..Len(replay') : Base <= replay'[i] \/ Base <= Trimmed
    BY <1>2 DEF LateOK, Base, Trimmed
  <2>2. /\ \A i \in 1..h : Base <= heard[i] \/ Base <= Trimmed
        /\ \A i \in 1..r : Base <= replay[i] \/ Base <= Trimmed
    BY <1>1, <1>5, <2>1 DEF LateOK, h, r
  <2>3. ASSUME NEW i \in 1..Len(heard') PROVE Base <= heard'[i] \/ Base <= Trimmed
    <3>1. CASE i \in 1..h
      BY <1>9, <2>2, <3>1
    <3>2. CASE i - h \in 1..n /\ heard'[i] = b[i - h]
      <4>1. i - h \in 1..r /\ heard'[i] = replay[i - h]
        BY <1>4, <1>6, <1>7, <3>2
      <4> QED BY <2>2, <4>1
    <3> QED BY <1>9, <3>1, <3>2
  <2>4. ASSUME NEW i \in 1..Len(replay') PROVE Base <= replay'[i] \/ Base <= Trimmed
    BY <1>8, <2>2
  <2> QED BY <2>3, <2>4
<1>13. SaidOK' /\ TextOK'
  <2>1. heard' \in Seq(1..pushed') /\ Len(heard) <= Len(heard') /\ \A i \in 1..Len(heard) : heard'[i] = heard[i]
    BY <1>2, <1>9 DEF h
  <2> QED BY <1>1, <1>2, <1>4, <2>1, SaidGrows
<1>14. FinishOK'
  <2>1. finAt # Never => finAt <= Len(heard')
    <3>1. finAt # Never => finAt <= h
      BY <1>1 DEF FinishOK, h
    <3>2. finAt \in Nat /\ Len(heard') \in Nat
      BY <1>1, <1>9, NeverIs DEF RestOK
    <3> QED BY <1>4, <1>9, <3>1, <3>2
  <2> QED BY <1>1, <1>2, <2>1 DEF FinishOK
<1>15. FirstOK' /\ AckOK'
  BY <1>1, <1>2, <1>5 DEF FirstOK, AckOK
<1>16. RestOK'
  BY <1>1, <1>2 DEF RestOK
<1> QED BY <1>10, <1>11, <1>12, <1>13, <1>14, <1>15, <1>16 DEF SessionInv

LEMMA ReplayDoneStep == ASSUME SessionInv, ReplayDone PROVE SessionInv'
<1>1. /\ RestOK /\ RingOK /\ SentOK /\ LateOK /\ FirstOK /\ SaidOK /\ TextOK /\ PendingOK /\ FinishOK /\ AckOK
  BY DEF SessionInv
<1>2. /\ UNCHANGED <<pushed, feeder, finishing, closing, ring, connected, up, breaks, replay, epoch, mergeLeft, seen, committed,
                     speechEnd, heard, finAt, utterance, said, acked, told>>
      /\ receiver = "replay" /\ receiver' = "recv" /\ pending' = <<>> /\ dials' = 0
  BY DEF ReplayDone, feederVars, linkVars, textVars, providerVars
<1>3. epoch > 0
  BY <1>1, <1>2, ReplayIsLate
<1>4. pushed \in Nat /\ pending \in Seq(Chunks)
  BY <1>1 DEF RestOK, PendingOK
<1>5. RingOK' /\ PendingOK'
  BY <1>1, <1>2, <1>4, RingKept, NoPending
<1>6. SentOK' /\ LateOK'
  BY <1>1, <1>2, <1>4, SentKept, LateKept
<1>7. FirstOK' /\ FinishOK' /\ AckOK'
  BY <1>1, <1>2, <1>3 DEF FirstOK, FinishOK, AckOK
<1>8. SaidOK' /\ TextOK'
  BY <1>1, <1>2, SaidKept, TextKept
<1>9. RestOK'
  BY <1>1, <1>2, Constants DEF RestOK
<1> QED BY <1>5, <1>6, <1>7, <1>8, <1>9 DEF SessionInv

----------------------------------------------------------------------------
(* The invariant, and what it shows.                                       *)

LEMMA NextInv == ASSUME SessionInv, [Next]_vars PROVE SessionInv'
<1>1. CASE PushAudio
  BY <1>1, PushStep
<1>2. CASE Finish
  BY <1>2, FlushStep, SendFinishStep, FeederStep DEF Finish
<1>3. CASE Close
  BY <1>3, FeederStep
<1>4. CASE Receive
  BY <1>4, TextStep, RepeatStep, SpeechStep, FinalStep, FinishedStep, LinkStep DEF Receive
<1>5. CASE KeepaliveFails \/ Break \/ ConnectionLost \/ ReceiverStops
  BY <1>5, LinkStep
<1>6. CASE Reconnect
  BY <1>6, DialStep, LinkStep, ReplayStep, ReplayDoneStep DEF Reconnect
<1>7. CASE UNCHANGED vars
  <2>1. UNCHANGED <<pushed, feeder, finishing, closing, ring, pending, connected, up, breaks, receiver, replay, dials, epoch,
                    mergeLeft, seen, committed, speechEnd, heard, finAt, utterance, said, acked, told>>
    BY <1>7 DEF vars, feederVars, audioVars, linkVars, receiverVars, textVars, providerVars
  <2> QED BY <2>1 DEF SessionInv, RestOK, RingOK, PendingOK, SentOK, LateOK, FirstOK, FinishOK, SaidOK, TextOK, AckOK,
                      Base, Trimmed
<1> QED BY <1>1, <1>2, <1>3, <1>4, <1>5, <1>6, <1>7 DEF Next

LEMMA Invariance == Spec => []SessionInv
BY InitInv, NextInv, PTL DEF Spec

LEMMA TypesHold == ASSUME SessionInv PROVE TypeOK
<1>1. RestOK /\ RingOK /\ SentOK /\ SaidOK /\ TextOK /\ PendingOK
  BY DEF SessionInv
<1>2. replay \in Seq(Chunks) /\ heard \in Seq(Chunks)
  <2>1. 1..pushed \subseteq Chunks
    BY <1>1, Constants DEF RestOK, Chunks
  <2> QED BY <1>1, <2>1, SeqMonotonic DEF SentOK
<1>3. {ring, pending, replay, heard, committed} \subseteq Seq(Chunks) /\ Len(ring) <= Capacity
  BY <1>1, <1>2 DEF RingOK, PendingOK, TextOK
<1>4. speechEnd \in 0..MaxChunk /\ mergeLeft \in 0..ReplayMerges /\ seen \subseteq Nat \X Nat
  BY <1>1, Constants DEF RestOK, SaidOK
<1>5. said \in 0..Len(heard) /\ utterance \in 1..Len(heard) + 1
  BY <1>1 DEF SaidOK, SentOK
<1>6. {connected, finishing, closing, acked, told, up} \subseteq BOOLEAN
  BY <1>1 DEF RestOK
<1> QED BY <1>1, <1>3, <1>4, <1>5, <1>6 DEF TypeOK, RestOK

LEMMA RingHolds == ASSUME SessionInv PROVE RingKeepsOpenSpeech
<1>1. RestOK /\ RingOK
  BY DEF SessionInv
<1>2. SUFFICES ASSUME NEW c \in (speechEnd + 1)..pushed, c > Minus(pushed, Capacity) PROVE c \in ToSet(ring)
  BY DEF RingKeepsOpenSpeech
<1> DEFINE n == Len(ring)  j == c - Base
<1>3. /\ ring \in Seq(Chunks) /\ n \in Nat /\ pushed \in Nat /\ speechEnd \in Nat /\ Base = pushed - n /\ Base \in Nat
      /\ (Base <= speechEnd \/ Base <= Trimmed) /\ Trimmed \in Nat /\ Trimmed = Minus(pushed, Capacity)
      /\ \A i \in 1..n : ring[i] = Base + i
  BY <1>1, Constants DEF RestOK, RingOK, Base, Trimmed, Minus
<1>4. c \in Nat /\ c > speechEnd /\ c <= pushed /\ c > Trimmed
  BY <1>2, <1>3
<1>5. j \in 1..n /\ Base + j = c
  BY <1>3, <1>4
<1> HIDE DEF j
<1>6. ring[j] = c /\ DOMAIN ring = 1..n
  <2>1. ring[j] = Base + j
    BY <1>3, <1>5
  <2> QED BY <1>3, <1>5, <2>1
<1> QED BY <1>5, <1>6 DEF ToSet

LEMMA FirstHolds == ASSUME SessionInv PROVE FirstConnectionIsGapless
<1>1. FirstOK /\ SentOK
  BY DEF SessionInv
<1>2. DOMAIN heard = 1..Len(heard)
  BY <1>1 DEF SentOK
<1> QED BY <1>1, <1>2 DEF FirstConnectionIsGapless, FirstOK

LEMMA WordsHold == ASSUME SessionInv PROVE WordsOnceWithoutReconnect
<1>1. TextOK
  BY DEF SessionInv
<1>2. DOMAIN committed = 1..Len(committed)
  BY <1>1 DEF TextOK
<1> QED BY <1>1, <1>2 DEF WordsOnceWithoutReconnect, TextOK

LEMMA FinishHolds == ASSUME SessionInv, ~FinishOnFinal PROVE AckedFinishIsComplete
<1>1. AckOK /\ FinishOK /\ TextOK /\ RestOK /\ SentOK
  BY DEF SessionInv
<1>2. SUFFICES ASSUME acked, finAt # Never, NEW i \in 1..finAt PROVE heard[i] \in ToSet(committed)
  BY DEF AckedFinishIsComplete
<1>3. said = Len(heard) /\ finAt <= Len(heard) /\ finAt \in Nat /\ Len(heard) \in Nat
  BY <1>1, <1>2, NeverIs DEF AckOK, FinishOK, RestOK, SentOK
<1>4. i \in 1..said
  BY <1>2, <1>3
<1> QED BY <1>1, <1>4 DEF TextOK

(* Every variable of a recognizer session keeps its range, whatever the    *)
(* sizes of its batches, ring and replay: the ring never outgrows its      *)
(* capacity (audio_ring.py), what is confirmed was heard, the attempts of  *)
(* a reconnect stay in their budget (cloud_streaming.py).                  *)
THEOREM RecognizerTypes == Spec => []TypeOK
BY Invariance, TypesHold, PTL

(* While a connection lasts its provider hears every chunk once and in     *)
(* order, all of them before the finish message, and the ring keeps the    *)
(* audio after the last end of speech for a reconnect, unless it overflows *)
(* (push_audio, finish_session and the trimming at a FINAL).               *)
THEOREM AudioIsHeard == Spec => []AudioReachesProvider
<1>1. SessionInv => AudioReachesProvider
  BY FirstHolds, RingHolds DEF AudioReachesProvider
<1> QED BY <1>1, Invariance, PTL

(* Until the first reconnect each word is committed once and in order,     *)
(* whatever the provider repeats and however it cuts its pieces            *)
(* (_commit_confirmed and the merge by overlap).                           *)
THEOREM WordsAreCommittedOnce == Spec => []WordsOnceWithoutReconnect
BY Invariance, WordsHold, PTL

(* Where a finish is acknowledged by the provider's own message and not by *)
(* any FINAL, what it heard before the finish message is committed text    *)
(* when finish_session returns, over any number of reconnects.             *)
THEOREM TextIsKept == ASSUME ~FinishOnFinal PROVE Spec => []TextIsComplete
<1>1. SessionInv => TextIsComplete
  BY FinishHolds, WordsHold DEF TextIsComplete
<1> QED BY <1>1, Invariance, PTL
=============================================================================
