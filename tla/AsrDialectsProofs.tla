------------------------- MODULE AsrDialectsProofs -------------------------
(***************************************************************************)
(* Proofs about the adapters of the cloud recognizers, for any number of   *)
(* utterances and words.                                                   *)
(*                                                                         *)
(* What a list of deltas does is a recursion over the list: Applied is     *)
(* shown to follow its equation (AppliedIs) from the well-foundedness of   *)
(* <, so that what a promotion commits can be shown for segments of any    *)
(* number.  What a cumulative text adds is what is new of it (MergeAdds).  *)
(* The inductive invariant DialectInv then says where the committed text   *)
(* stands for each provider.                                               *)
(***************************************************************************)
EXTENDS AsrDialects, SequenceTheorems, WellFoundedInduction, TLAPS

(***************************************************************************)
(* Induction.                                                              *)

\* A set of numbers up to m that holds 0 and, with each number, the next one.
LEMMA Induction ==
  ASSUME NEW m \in Nat, NEW T, 0 \in T, \A n \in 0..(m - 1) : n \in T => n + 1 \in T
  PROVE  \A n \in 0..m : n \in T
<1> DEFINE D == {n \in 0..m : n \notin T}
<1> SUFFICES ASSUME D # {} PROVE FALSE
  OBVIOUS
<1>1. D \subseteq Nat
  OBVIOUS
<1>2. PICK d \in D : \A e \in D : ~(<<e, d>> \in OpToRel(<, Nat))
  BY <1>1, NatLessThanWellFounded, WFMin
<1>3. \A e \in D : ~(e < d)
  BY <1>1, <1>2 DEF OpToRel
<1>4. d \in 0..m /\ d \notin T
  OBVIOUS
<1>5. d - 1 \in 0..(m - 1) /\ (d - 1) + 1 = d /\ d - 1 < d
  BY <1>4
<1>6. d - 1 \in T
  BY <1>3, <1>5
<1> QED BY <1>4, <1>5, <1>6

\* A step function of a recursion over 1..m, and f as its values from b on.
IsStep(G, m, D)   == G \in [(1..m) \X D -> D]
Follows(f, G, m, D, b) == f \in [0..m -> D] /\ f[0] = b /\ \A i \in 1..m : f[i] = G[<<i, f[i - 1]>>]

\* A recursion over 1..m has a value at each step.
LEMMA Recursion ==
  ASSUME NEW m \in Nat, NEW D, NEW b \in D, NEW G, IsStep(G, m, D)
  PROVE  \E f : Follows(f, G, m, D, b)
<1> DEFINE Upto(n) == \E f \in [0..n -> D] : f[0] = b /\ \A i \in 1..n : f[i] = G[<<i, f[i - 1]>>]
           T == {n \in 0..m : Upto(n)}
<1>0. G \in [(1..m) \X D -> D]
  BY DEF IsStep
<1>1. 0 \in T
  <2> DEFINE f == [i \in 0..0 |-> b]
  <2>1. f \in [0..0 -> D] /\ f[0] = b /\ \A i \in 1..0 : FALSE
    OBVIOUS
  <2> HIDE DEF f
  <2>2. Upto(0)
    BY <2>1
  <2> QED BY <2>2
<1>2. ASSUME NEW n \in 0..(m - 1), n \in T PROVE n + 1 \in T
  <2>1. PICK f \in [0..n -> D] : f[0] = b /\ \A i \in 1..n : f[i] = G[<<i, f[i - 1]>>]
    BY <1>2
  <2> DEFINE g == [i \in 0..(n + 1) |-> IF i <= n THEN f[i] ELSE G[<<n + 1, f[n]>>]]
  <2>2. G[<<n + 1, f[n]>>] \in D
    <3>1. <<n + 1, f[n]>> \in (1..m) \X D
      OBVIOUS
    <3> QED BY <1>0, <3>1
  <2>3. g \in [0..(n + 1) -> D] /\ g[0] = b
    BY <2>1, <2>2
  <2>4. ASSUME NEW i \in 1..(n + 1) PROVE g[i] = G[<<i, g[i - 1]>>]
    <3>1. CASE i <= n
      BY <2>1, <3>1
    <3>2. CASE i = n + 1
      <4>1. g[i] = G[<<n + 1, f[n]>>] /\ g[i - 1] = f[n]
        BY <3>2
      <4> QED BY <3>2, <4>1
    <3> QED BY <3>1, <3>2
  <2> HIDE DEF g
  <2>5. Upto(n + 1)
    BY <2>3, <2>4
  <2> QED BY <2>5
<1> HIDE DEF T
<1>3. m \in T
  BY <1>1, <1>2, Induction
<1> QED BY <1>3 DEF T, Follows

----------------------------------------------------------------------------
(* Merging text: what TranscriptReconciler keeps and what it adds.         *)

LEMMA PrefixAt ==
  ASSUME NEW S, NEW s \in Seq(S), NEW t \in Seq(S)
  PROVE  IsPrefix(s, t) <=> Len(s) <= Len(t) /\ \A i \in 1..Len(s) : s[i] = t[i]
<1>1. CASE Len(s) <= Len(t)
  <2>1. SubSeq(s, 1, Len(s)) = s
    BY SubSeqFull
  <2>2. /\ SubSeq(t, 1, Len(s)) \in Seq(S) /\ Len(SubSeq(t, 1, Len(s))) = Len(s)
        /\ \A i \in 1..Len(s) : SubSeq(t, 1, Len(s))[i] = t[i]
    BY <1>1
  <2> DEFINE u == SubSeq(t, 1, Len(s))
  <2> HIDE DEF u
  <2>3. s = u <=> \A i \in 1..Len(s) : s[i] = u[i]
    BY <2>2, SeqEqual DEF u
  <2> QED BY <1>1, <2>1, <2>2, <2>3 DEF IsPrefix, u
<1> QED BY <1>1 DEF IsPrefix

LEMMA ReverseAt ==
  ASSUME NEW S, NEW s \in Seq(S)
  PROVE  Reverse(s) \in Seq(S) /\ Len(Reverse(s)) = Len(s) /\ \A i \in 1..Len(s) : Reverse(s)[i] = s[Len(s) - i + 1]
BY DEF Reverse

LEMMA SuffixAt ==
  ASSUME NEW S, NEW s \in Seq(S), NEW t \in Seq(S)
  PROVE  IsSuffix(s, t) <=> Len(s) <= Len(t) /\ \A i \in 1..Len(s) : s[i] = t[(Len(t) - Len(s)) + i]
<1> DEFINE m == Len(s)  n == Len(t)
<1>1. m \in Nat /\ n \in Nat
  OBVIOUS
<1>2. IsSuffix(s, t) <=> m <= n /\ \A i \in 1..m : Reverse(s)[i] = Reverse(t)[i]
  BY ReverseAt, PrefixAt DEF IsSuffix
<1>3. /\ \A i \in 1..m : Reverse(s)[i] = s[m - i + 1]
      /\ \A i \in 1..n : Reverse(t)[i] = t[n - i + 1]
  BY ReverseAt
<1>4. CASE m <= n
  <2> HIDE DEF m, n
  <2>1. ASSUME \A i \in 1..m : Reverse(s)[i] = Reverse(t)[i], NEW i \in 1..m
        PROVE  s[i] = t[(n - m) + i]
    <3>1. m - i + 1 \in 1..m /\ m - i + 1 \in 1..n
      BY <1>1, <1>4
    <3>2. m - (m - i + 1) + 1 = i /\ n - (m - i + 1) + 1 = (n - m) + i
      BY <1>1
    <3> QED BY <1>3, <2>1, <3>1, <3>2
  <2>2. ASSUME \A i \in 1..m : s[i] = t[(n - m) + i], NEW i \in 1..m
        PROVE  Reverse(s)[i] = Reverse(t)[i]
    <3>1. m - i + 1 \in 1..m /\ i \in 1..n /\ (n - m) + (m - i + 1) = n - i + 1
      BY <1>1, <1>4
    <3> QED BY <1>3, <2>2, <3>1
  <2> QED BY <1>2, <1>4, <2>1, <2>2 DEF m, n
<1> QED BY <1>2, <1>4

\* A set of numbers up to m has a greatest one.
LEMMA GreatestOf ==
  ASSUME NEW m \in Nat, NEW T \in SUBSET (0..m), 0 \in T
  PROVE  \E n \in T : \A k \in T : k <= n
<1> DEFINE D == {m - k : k \in T}
<1>1. D \subseteq Nat /\ D # {}
  OBVIOUS
<1>2. PICK d \in D : \A e \in D : ~(<<e, d>> \in OpToRel(<, Nat))
  BY <1>1, NatLessThanWellFounded, WFMin
<1>3. \A e \in D : ~(e < d)
  BY <1>1, <1>2 DEF OpToRel
<1>4. PICK n \in T : d = m - n
  OBVIOUS
<1>5. ASSUME NEW k \in T PROVE k <= n
  <2>1. ~(m - k < m - n)
    BY <1>3, <1>4
  <2> QED BY <2>1
<1> QED BY <1>5

LEMMA OverlapIs ==
  ASSUME NEW S, NEW left \in Seq(S), NEW right \in Seq(S)
  PROVE  /\ OverlapLength(left, right) \in 0..Len(right)
         /\ OverlapLength(left, right) <= Len(left)
         /\ IsSuffix(SubSeq(right, 1, OverlapLength(left, right)), left)
         /\ \A m \in (OverlapLength(left, right) + 1)..Len(right) :
              m > Len(left) \/ ~IsSuffix(SubSeq(right, 1, m), left)
<1> DEFINE Ok(n) == n <= Len(left) /\ IsSuffix(SubSeq(right, 1, n), left)
           T == {n \in 0..Len(right) : Ok(n)}
<1>1. Ok(0)
  <2>1. SubSeq(right, 1, 0) = <<>> /\ <<>> \in Seq(S)
    BY SubSeqEmpty
  <2>2. IsSuffix(<<>>, left)
    <3> DEFINE e == <<>>
    <3>1. e \in Seq(S) /\ Len(e) = 0 /\ Len(e) <= Len(left) /\ \A i \in 1..Len(e) : FALSE
      BY <2>1
    <3> HIDE DEF e
    <3>2. IsSuffix(e, left)
      BY <3>1, SuffixAt
    <3> QED BY <3>2 DEF e
  <2>3. 0 <= Len(left)
    OBVIOUS
  <2> QED BY <2>1, <2>2, <2>3
<1> HIDE DEF Ok
<1>2. PICK n \in T : \A k \in T : k <= n
  <2>1. Len(right) \in Nat /\ 0 \in T /\ T \in SUBSET (0..Len(right))
    BY <1>1
  <2> HIDE DEF T
  <2> QED BY <2>1, GreatestOf
<1>3. n \in 0..Len(right) /\ Ok(n) /\ \A m \in (n + 1)..Len(right) : ~Ok(m)
  BY <1>2
<1>4. \A k \in 0..Len(right) :
        (Ok(k) /\ \A m \in (k + 1)..Len(right) : ~Ok(m)) <=>
        (/\ k <= Len(left) /\ IsSuffix(SubSeq(right, 1, k), left)
         /\ \A m \in (k + 1)..Len(right) : m > Len(left) \/ ~IsSuffix(SubSeq(right, 1, m), left))
  BY DEF Ok
<1> QED BY <1>3, <1>4 DEF OverlapLength

LEMMA MergeTypes ==
  ASSUME NEW S, NEW c \in Seq(S), NEW t \in Seq(S)
  PROVE  MergeConfirmed(c, t) \in Seq(S) /\ Len(c) <= Len(MergeConfirmed(c, t))
<1> DEFINE n == OverlapLength(c, t)
<1>1. n \in 0..Len(t)
  BY OverlapIs
<1> HIDE DEF n
<1>2. SubSeq(t, n + 1, Len(t)) \in Seq(S)
  BY <1>1
<1>3. /\ c \o SubSeq(t, n + 1, Len(t)) \in Seq(S)
      /\ Len(c) <= Len(c \o SubSeq(t, n + 1, Len(t)))
  BY <1>2, ConcatProperties
<1>4. IsPrefix(c, t) => Len(c) <= Len(t)
  BY PrefixAt
<1> QED BY <1>3, <1>4 DEF MergeConfirmed, n

----------------------------------------------------------------------------
(* Applying deltas.                                                        *)

Id    == Utterances \X (0..Pieces)
Delta == [kind : {"text", "final", "finished"}, words : Seq(Word), id : Id \cup {NoId}, keep : BOOLEAN,
          tail : Seq(Word)]
State == {s \in [committed : Seq(Word), tail : Seq(Word), finalAt : Nat, seen : SUBSET Id, acked : BOOLEAN] :
            s.finalAt <= Len(s.committed)}

LEMMA CommitTypes ==
  ASSUME NEW b \in State, NEW d \in Delta
  PROVE  /\ Commit(b, d) \in State
         /\ Commit(b, d).tail = b.tail /\ Commit(b, d).finalAt = b.finalAt /\ Commit(b, d).acked = b.acked
<1>1. /\ b.committed \in Seq(Word) /\ b.tail \in Seq(Word) /\ b.finalAt \in Nat /\ b.finalAt <= Len(b.committed)
      /\ b.seen \in SUBSET Id /\ b.acked \in BOOLEAN
      /\ b \in [committed : Seq(Word), tail : Seq(Word), finalAt : Nat, seen : SUBSET Id, acked : BOOLEAN]
  BY DEF State
<1>2. d.words \in Seq(Word) /\ d.id \in Id \cup {NoId}
  BY DEF Delta
<1>3. CASE d.id = NoId
  <2> DEFINE c == MergeConfirmed(b.committed, d.words)
  <2>1. c \in Seq(Word) /\ Len(b.committed) <= Len(c)
    BY <1>1, <1>2, MergeTypes
  <2> HIDE DEF c
  <2>2. Commit(b, d) = [b EXCEPT !.committed = c]
    BY <1>3 DEF Commit, c
  <2>3. b.finalAt <= Len(c)
    BY <1>1, <2>1
  <2> QED BY <1>1, <2>1, <2>2, <2>3 DEF State
<1>4. CASE d.id # NoId /\ d.id \in b.seen
  <2>1. Commit(b, d) = b
    BY <1>4 DEF Commit
  <2> QED BY <2>1
<1>5. CASE d.id # NoId /\ d.id \notin b.seen
  <2> DEFINE c == b.committed \o d.words  i == b.seen \cup {d.id}
  <2>1. c \in Seq(Word) /\ Len(b.committed) <= Len(c)
    BY <1>1, <1>2, ConcatProperties
  <2>2. i \in SUBSET Id
    BY <1>1, <1>2, <1>5
  <2>3. Commit(b, d) = [b EXCEPT !.committed = c, !.seen = i]
    BY <1>5 DEF Commit
  <2> HIDE DEF c, i
  <2>4. b.finalAt <= Len(c)
    BY <1>1, <2>1
  <2> QED BY <1>1, <2>1, <2>2, <2>3, <2>4 DEF State
<1> QED BY <1>3, <1>4, <1>5

LEMMA ApplyTypes ==
  ASSUME NEW b \in State, NEW d \in Delta
  PROVE  Apply(b, d) \in State
<1> DEFINE c == Commit(b, d)
<1>1. c \in State
  BY CommitTypes
<1> HIDE DEF c
<1>2. /\ c.committed \in Seq(Word) /\ c.tail \in Seq(Word) /\ c.finalAt \in Nat /\ c.finalAt <= Len(c.committed)
      /\ c.acked \in BOOLEAN
      /\ c \in [committed : Seq(Word), tail : Seq(Word), finalAt : Nat, seen : SUBSET Id, acked : BOOLEAN]
  BY <1>1 DEF State
<1>3. d.kind \in {"text", "final", "finished"} /\ d.tail \in Seq(Word)
  BY DEF Delta
<1>4. CASE d.kind = "finished"
  <2>1. Apply(b, d) = [b EXCEPT !.acked = TRUE]
    BY <1>4 DEF Apply
  <2> QED BY <2>1 DEF State
<1>5. CASE d.kind = "text"
  <2> DEFINE t == IF d.keep THEN c.tail ELSE d.tail
  <2>1. Apply(b, d) = [c EXCEPT !.tail = t]
    BY <1>5 DEF Apply, c
  <2>2. t \in Seq(Word)
    BY <1>2, <1>3
  <2> HIDE DEF t
  <2> QED BY <1>2, <2>1, <2>2 DEF State
<1>6. CASE d.kind = "final"
  <2> DEFINE a == c.acked \/ (provider = "openai" /\ finishing)
  <2>1. Apply(b, d) = [c EXCEPT !.tail = <<>>, !.finalAt = Len(c.committed), !.acked = a]
    BY <1>6 DEF Apply, c
  <2>2. a \in BOOLEAN
    BY Zenon
  <2> HIDE DEF a
  <2> DEFINE l == Len(c.committed)  e == <<>>
  <2>3. e \in Seq(Word) /\ l \in Nat /\ l <= Len(c.committed)
    BY <1>2
  <2>4. Apply(b, d) = [c EXCEPT !.tail = e, !.finalAt = l, !.acked = a]
    BY <2>1
  <2> HIDE DEF l, e
  <2> QED BY <1>2, <2>2, <2>3, <2>4 DEF State
<1> QED BY <1>3, <1>4, <1>5, <1>6

Runs(f, b, deltas, n) ==
  /\ f = [i \in 0..n |-> f[i]] /\ f[0] = b
  /\ \A i \in 1..n : f[i] = Apply(f[i - 1], deltas[i])

\* A run of the recursion is what Applied computes.
LEMMA AppliedIs ==
  ASSUME NEW b, NEW deltas, NEW n \in Nat, Len(deltas) = n, NEW f, Runs(f, b, deltas, n)
  PROVE  Applied(b, deltas) = f[n]
<1> DEFINE Step(g) == [i \in 0..n |-> IF i = 0 THEN b ELSE Apply(g[i - 1], deltas[i])]
           h == CHOOSE g : g = Step(g)
<1>0. f = [i \in 0..n |-> f[i]] /\ f[0] = b /\ \A i \in 1..n : f[i] = Apply(f[i - 1], deltas[i])
  BY DEF Runs
<1>1. f = Step(f)
  <2>1. \A i \in 0..n : f[i] = IF i = 0 THEN b ELSE Apply(f[i - 1], deltas[i])
    BY SMTT(30), <1>0
  <2> QED BY <1>0, <2>1
<1>2. h = Step(h)
  BY <1>1
<1>3. Applied(b, deltas) = h[n]
  BY DEF Applied
<1> HIDE DEF h
<1> DEFINE T == {i \in 0..n : h[i] = f[i]}
<1>4. 0 \in T
  <2>1. Step(h)[0] = b
    OBVIOUS
  <2> QED BY <1>0, <1>2, <2>1
<1>5. ASSUME NEW i \in 0..(n - 1), i \in T PROVE i + 1 \in T
  <2>1. i + 1 \in 1..n /\ i + 1 \in 0..n /\ (i + 1) - 1 = i /\ i + 1 # 0
    OBVIOUS
  <2>2. h[i + 1] = Apply(h[(i + 1) - 1], deltas[i + 1])
    BY <1>2, <2>1
  <2>3. f[i + 1] = Apply(f[(i + 1) - 1], deltas[i + 1])
    BY <1>0, <2>1
  <2> QED BY <1>5, <2>1, <2>2, <2>3
<1> HIDE DEF T
<1>6. \A i \in 0..n : i \in T
  <2>1. \A i \in 0..(n - 1) : i \in T => i + 1 \in T
    BY <1>5
  <2> QED BY <1>4, <2>1, Induction
<1> QED BY <1>3, <1>6 DEF T

\* There is such a run, through states.
LEMMA AppliedRuns ==
  ASSUME NEW b \in State, NEW deltas \in Seq(Delta)
  PROVE  \E f \in [0..Len(deltas) -> State] :
           Runs(f, b, deltas, Len(deltas)) /\ Applied(b, deltas) = f[Len(deltas)]
<1> DEFINE n == Len(deltas)
           G == [p \in (1..n) \X State |-> Apply(p[2], deltas[p[1]])]
<1>1. n \in Nat /\ \A i \in 1..n : deltas[i] \in Delta
  OBVIOUS
<1>2. IsStep(G, n, State)
  <2>1. G \in [(1..n) \X State -> State]
    BY <1>1, ApplyTypes
  <2> QED BY <2>1 DEF IsStep
<1>3. \A i \in 1..n : \A s \in State : G[<<i, s>>] = Apply(s, deltas[i])
  OBVIOUS
<1> HIDE DEF n, G
<1>4. PICK f : Follows(f, G, n, State, b)
  BY <1>1, <1>2, Recursion
<1>a. f \in [0..n -> State] /\ f[0] = b /\ \A i \in 1..n : f[i] = G[<<i, f[i - 1]>>]
  BY <1>4 DEF Follows
<1>5. \A i \in 1..n : f[i] = Apply(f[i - 1], deltas[i])
  <2> TAKE i \in 1..n
  <2>1. f[i - 1] \in State
    BY <1>1, <1>a
  <2> QED BY <1>3, <1>a, <2>1
<1>6. Runs(f, b, deltas, n)
  BY <1>a, <1>5 DEF Runs
<1>7. Applied(b, deltas) = f[n]
  BY <1>1, <1>6, AppliedIs DEF n
<1> QED BY <1>a, <1>6, <1>7 DEF n

LEMMA AppliedTypes ==
  ASSUME NEW b \in State, NEW deltas \in Seq(Delta)
  PROVE  Applied(b, deltas) \in State
BY AppliedRuns

\* A list after a list.
LEMMA AppliedConcat ==
  ASSUME NEW b \in State, NEW s \in Seq(Delta), NEW t \in Seq(Delta)
  PROVE  Applied(b, s \o t) = Applied(Applied(b, s), t)
<1> DEFINE m == Len(s)  n == Len(t)
<1>1. m \in Nat /\ n \in Nat
  OBVIOUS
<1>2. PICK f \in [0..m -> State] : /\ f[0] = b /\ \A i \in 1..m : f[i] = Apply(f[i - 1], s[i])
                                   /\ Applied(b, s) = f[m]
  BY AppliedRuns DEF Runs
<1>3. f[m] \in State
  BY <1>1
<1>4. PICK g \in [0..n -> State] : /\ g[0] = f[m] /\ \A i \in 1..n : g[i] = Apply(g[i - 1], t[i])
                                   /\ Applied(f[m], t) = g[n]
  BY SMTT(30), <1>3, AppliedRuns DEF Runs
<1>5. /\ Len(s \o t) = m + n
      /\ \A i \in 1..(m + n) : (s \o t)[i] = IF i <= m THEN s[i] ELSE t[i - m]
  BY ConcatProperties
<1> DEFINE h == [i \in 0..(m + n) |-> IF i <= m THEN f[i] ELSE g[i - m]]  u == s \o t
<1> HIDE DEF m, n, u
<1>6. h[0] = b /\ h[m + n] = g[n] /\ h = [i \in 0..(m + n) |-> h[i]]
  <2>1. 0 <= m /\ 0 \in 0..(m + n) /\ m + n \in 0..(m + n) /\ (m + n) - m = n
        /\ (n = 0 => m + n <= m /\ m + n = m) /\ (n # 0 => ~(m + n <= m))
    BY <1>1
  <2>2. h[0] = f[0] /\ h[m + n] = IF m + n <= m THEN f[m + n] ELSE g[(m + n) - m]
    BY <2>1
  <2>3. h[m + n] = g[n]
    BY <1>2, <1>4, <2>1, <2>2
  <2>4. h = [i \in 0..(m + n) |-> h[i]]
    OBVIOUS
  <2> QED BY <1>2, <2>2, <2>3, <2>4
<1>7. ASSUME NEW i \in 1..(m + n) PROVE h[i] = Apply(h[i - 1], u[i])
  <2>1. CASE i <= m
    <3>1. i \in 1..m /\ i - 1 <= m /\ i \in 0..(m + n) /\ i - 1 \in 0..(m + n)
      BY <1>1, <2>1
    <3>2. u[i] = s[i] /\ h[i] = f[i] /\ h[i - 1] = f[i - 1]
      BY <1>5, <2>1, <3>1 DEF u
    <3> QED BY <1>2, <3>1, <3>2
  <2>2. CASE i > m
    <3>1. /\ i - m \in 1..n /\ ~(i <= m) /\ i \in 0..(m + n) /\ i - 1 \in 0..(m + n)
          /\ (i - 1) - m = (i - m) - 1 /\ (i - 1 <= m <=> i = m + 1)
      BY <1>1, <2>2
    <3>2. u[i] = t[i - m] /\ h[i] = g[i - m]
      BY <1>5, <3>1 DEF u
    <3>3. h[i - 1] = g[(i - m) - 1]
      <4>1. CASE i = m + 1
        <5>1. h[i - 1] = f[m] /\ (i - m) - 1 = 0
          BY <1>1, <3>1, <4>1
        <5> QED BY <1>4, <5>1
      <4>2. CASE i # m + 1
        BY <3>1, <4>2
      <4> QED BY <4>1, <4>2
    <3>4. g[i - m] = Apply(g[(i - m) - 1], t[i - m])
      BY <1>4, <3>1
    <3> QED BY <3>2, <3>3, <3>4
  <2> QED BY <1>1, <2>1, <2>2
<1> HIDE DEF h
<1>8. Applied(b, u) = h[m + n]
  <2>1. Len(u) = m + n /\ m + n \in Nat
    BY <1>1, <1>5 DEF u
  <2>2. Runs(h, b, u, m + n)
    BY <1>6, <1>7 DEF Runs
  <2> QED BY <2>1, <2>2, AppliedIs
<1> QED BY <1>2, <1>4, <1>6, <1>8 DEF u

LEMMA AppliedNone ==
  ASSUME NEW b
  PROVE  Applied(b, <<>>) = b
<1> DEFINE f == [i \in 0..0 |-> b]
<1>1. f = [i \in 0..0 |-> f[i]] /\ f[0] = b /\ \A i \in 1..0 : FALSE
  OBVIOUS
<1>2. Len(<<>>) = 0
  OBVIOUS
<1> HIDE DEF f
<1>3. Runs(f, b, <<>>, 0)
  BY <1>1 DEF Runs
<1> QED BY <1>1, <1>2, <1>3, AppliedIs

LEMMA AppliedOne ==
  ASSUME NEW b, NEW d
  PROVE  Applied(b, <<d>>) = Apply(b, d)
<1> DEFINE f == [i \in 0..1 |-> IF i = 0 THEN b ELSE Apply(b, d)]  s == <<d>>
<1>1. f = [i \in 0..1 |-> f[i]] /\ f[0] = b /\ f[1] = Apply(b, d) /\ 1 \in Nat
  OBVIOUS
<1>2. Len(s) = 1 /\ s[1] = d
  OBVIOUS
<1> HIDE DEF f, s
<1>3. \A i \in 1..1 : f[i] = Apply(f[i - 1], s[i])
  <2>1. \A i \in 1..1 : i = 1 /\ i - 1 = 0
    OBVIOUS
  <2> QED BY <1>1, <1>2, <2>1
<1>4. Applied(b, s) = f[1]
  <2>1. Runs(f, b, s, 1)
    BY <1>1, <1>3 DEF Runs
  <2> QED BY ZenonT(30), <1>1, <1>2, <2>1, AppliedIs
<1> QED BY <1>1, <1>4 DEF s

LEMMA AppliedTwo ==
  ASSUME NEW b \in State, NEW d \in Delta, NEW e \in Delta
  PROVE  Applied(b, <<d, e>>) = Apply(Apply(b, d), e)
<1> DEFINE s == <<d>>  t == <<e>>
<1>1. s \in Seq(Delta) /\ t \in Seq(Delta)
  OBVIOUS
<1>2. <<d, e>> = s \o t
  <2> DEFINE u == <<d, e>>  v == s \o t
  <2>1. u \in Seq(Delta) /\ Len(u) = 2 /\ u[1] = d /\ u[2] = e
    OBVIOUS
  <2>2. v \in Seq(Delta) /\ Len(v) = 2 /\ v[1] = d /\ v[2] = e
    OBVIOUS
  <2> HIDE DEF u, v, s, t
  <2>3. \A i \in 1..Len(u) : u[i] = v[i]
    <3>1. \A i \in 1..Len(u) : i = 1 \/ i = 2
      BY <2>1
    <3> QED BY <2>1, <2>2, <3>1
  <2>4. u = v
    BY <2>1, <2>2, <2>3, SeqEqual
  <2> QED BY <2>4 DEF u, v
<1>3. \A c : Applied(c, s) = Apply(c, d) /\ Applied(c, t) = Apply(c, e)
  BY AppliedOne
<1> HIDE DEF s, t
<1>4. Applied(b, s \o t) = Applied(Applied(b, s), t)
  BY <1>1, AppliedConcat
<1> QED BY <1>2, <1>3, <1>4

----------------------------------------------------------------------------
(* Text in the order it was spoken.                                        *)

\* The words of c stand in the order they were spoken.
InOrder(c) ==
  \A i, j \in DOMAIN c : i < j => c[i][1] < c[j][1] \/ (c[i][1] = c[j][1] /\ c[i][2] < c[j][2])

\* c ends with the first k words of utterance u; the ones before are of earlier utterances.
EndsAt(c, u, k) ==
  /\ k <= Len(c)
  /\ \A i \in 1..(Len(c) - k) : c[i][1] < u
  /\ \A i \in 1..k : c[(Len(c) - k) + i] = <<u, i>>

LEMMA PairIs == \A x, y : <<x, y>>[1] = x /\ <<x, y>>[2] = y
OBVIOUS

LEMMA WordsAre ==
  ASSUME NEW u \in Utterances, NEW j \in 0..Pieces, NEW k \in j..Pieces
  PROVE  /\ Words(u, j + 1, k) \in Seq(Word) /\ Len(Words(u, j + 1, k)) = k - j
         /\ \A i \in 1..(k - j) : Words(u, j + 1, k)[i] = <<u, j + i>>
<1>1. Pieces \in Nat /\ (k - (j + 1)) + 1 = k - j /\ k - j \in Nat
  BY DialectAssumption DEF DialectAssumption
<1>2. Words(u, j + 1, k) = [i \in 1..(k - j) |-> <<u, ((j + 1) + i) - 1>>]
  BY <1>1 DEF Words
<1>3. \A i \in 1..(k - j) : ((j + 1) + i) - 1 = j + i /\ j + i \in 1..Pieces
  BY <1>1
<1>4. \A i \in 1..(k - j) : <<u, j + i>> \in Word
  BY <1>3 DEF Word
<1> DEFINE w == Words(u, j + 1, k)  n == k - j
<1>5. /\ w = [i \in 1..n |-> w[i]] /\ n \in Nat
      /\ \A i \in 1..n : w[i] = <<u, j + i>> /\ w[i] \in Word
  BY <1>1, <1>2, <1>3, <1>4
<1> HIDE DEF w, n
<1>6. w \in Seq(Word) /\ Len(w) = n
  BY <1>5, IsASeq
<1> QED BY <1>5, <1>6 DEF w, n

LEMMA FirstWords ==
  ASSUME NEW u \in Utterances, NEW k \in 0..Pieces
  PROVE  /\ Words(u, 1, k) \in Seq(Word) /\ Len(Words(u, 1, k)) = k
         /\ \A i \in 1..k : Words(u, 1, k)[i] = <<u, i>>
<1> DEFINE z == 0
<1>1. z \in 0..Pieces /\ k \in z..Pieces /\ z + 1 = 1 /\ k - z = k /\ \A i \in 1..k : z + i = i
  BY DialectAssumption DEF DialectAssumption
<1> HIDE DEF z
<1>2. /\ Words(u, z + 1, k) \in Seq(Word) /\ Len(Words(u, z + 1, k)) = k - z
      /\ \A i \in 1..(k - z) : Words(u, z + 1, k)[i] = <<u, z + i>>
  BY <1>1, WordsAre
<1> QED BY <1>1, <1>2

\* Words that follow on what c ends with.
LEMMA AppendWords ==
  ASSUME NEW c \in Seq(Word), InOrder(c), NEW u \in Utterances, NEW j \in 0..Pieces, NEW k \in j..Pieces,
         EndsAt(c, u, j), NEW m, m = c \o Words(u, j + 1, k)
  PROVE  /\ m \in Seq(Word) /\ Len(m) = Len(c) + (k - j) /\ \A i \in 1..Len(c) : m[i] = c[i]
         /\ InOrder(m) /\ EndsAt(m, u, k)
<1> DEFINE w == Words(u, j + 1, k)  n == Len(c)
<1>1. w \in Seq(Word) /\ Len(w) = k - j /\ \A i \in 1..(k - j) : w[i] = <<u, j + i>>
  BY WordsAre
<1>2. n \in Nat /\ j \in Nat /\ k \in Nat /\ j <= k /\ u \in Nat /\ j <= n
  BY DialectAssumption DEF DialectAssumption, Utterances, EndsAt
<1>3. /\ m \in Seq(Word) /\ Len(m) = n + (k - j)
      /\ \A i \in 1..(n + (k - j)) : m[i] = IF i <= n THEN c[i] ELSE w[i - n]
  BY ZenonT(30), <1>1, ConcatProperties
<1> HIDE DEF w, n
<1>4. \A i \in 1..n : m[i] = c[i]
  BY <1>2, <1>3
<1>5. \A i \in (n + 1)..(n + (k - j)) : m[i] = <<u, j + (i - n)>>
  <2> TAKE i \in (n + 1)..(n + (k - j))
  <2>1. i - n \in 1..(k - j) /\ ~(i <= n) /\ i \in 1..(n + (k - j))
    BY <1>2
  <2> QED BY <1>1, <1>3, <2>1
<1>6. /\ \A i \in 1..(n - j) : c[i][1] < u
      /\ \A i \in 1..j : c[(n - j) + i] = <<u, i>>
  BY DEF EndsAt, n
<1>7. \A i \in (n - j + 1)..(n + (k - j)) : m[i] = <<u, i - (n - j)>>
  <2> TAKE i \in (n - j + 1)..(n + (k - j))
  <2>1. CASE i <= n
    <3>1. i - (n - j) \in 1..j /\ (n - j) + (i - (n - j)) = i /\ i \in 1..n
      BY <1>2, <2>1
    <3> QED BY <1>4, <1>6, <3>1
  <2>2. CASE i > n
    <3>1. i \in (n + 1)..(n + (k - j)) /\ j + (i - n) = i - (n - j)
      BY <1>2, <2>2
    <3> QED BY <1>5, <3>1
  <2>3. i <= n \/ i > n
    BY <1>2
  <2> QED BY <2>1, <2>2, <2>3
<1>8. \A i \in 1..(n - j) : m[i][1] < u
  <2> TAKE i \in 1..(n - j)
  <2>1. i \in 1..n
    BY <1>2
  <2> QED BY <1>4, <1>6, <2>1
<1>9. EndsAt(m, u, k)
  <2>1. k <= Len(m) /\ Len(m) - k = n - j
    BY <1>2, <1>3
  <2>2. ASSUME NEW i \in 1..k PROVE m[(n - j) + i] = <<u, i>>
    <3>1. (n - j) + i \in (n - j + 1)..(n + (k - j)) /\ ((n - j) + i) - (n - j) = i
      BY <1>2
    <3> QED BY <1>7, <3>1
  <2> QED BY <1>8, <2>1, <2>2 DEF EndsAt
<1>10. InOrder(m)
  <2> SUFFICES ASSUME NEW a \in 1..(n + (k - j)), NEW b \in 1..(n + (k - j)), a < b
               PROVE  m[a][1] < m[b][1] \/ (m[a][1] = m[b][1] /\ m[a][2] < m[b][2])
    <3>1. DOMAIN m = 1..(n + (k - j))
      BY <1>3
    <3> QED BY <3>1 DEF InOrder
  <2>1. CASE b <= n
    <3>1. a \in 1..n /\ b \in 1..n
      BY <1>2, <2>1
    <3>2. DOMAIN c = 1..n
      BY DEF n
    <3>3. c[a][1] < c[b][1] \/ (c[a][1] = c[b][1] /\ c[a][2] < c[b][2])
      BY <3>1, <3>2 DEF InOrder
    <3>4. m[a] = c[a] /\ m[b] = c[b]
      BY <1>4, <3>1
    <3> QED BY <3>3, <3>4
  <2>2. CASE b > n /\ a <= n - j
    <3>1. a \in 1..(n - j) /\ b \in (n - j + 1)..(n + (k - j))
      BY <1>2, <2>2
    <3>2. m[b] = <<u, b - (n - j)>>
      BY <1>7, <3>1
    <3>3. m[b][1] = u
      BY <3>2, PairIs
    <3> QED BY <1>8, <3>1, <3>3
  <2>3. CASE b > n /\ a > n - j
    <3>1. a \in (n - j + 1)..(n + (k - j)) /\ b \in (n - j + 1)..(n + (k - j))
      BY <1>2, <2>3
    <3>2. m[a] = <<u, a - (n - j)>>
      BY <1>7, <3>1
    <3>3. m[b] = <<u, b - (n - j)>>
      BY <1>7, <3>1
    <3>4. a - (n - j) < b - (n - j)
      BY <1>2
    <3> DEFINE x == a - (n - j)  y == b - (n - j)
    <3> HIDE DEF x, y
    <3>5. m[a] = <<u, x>> /\ m[b] = <<u, y>> /\ x < y
      BY <3>2, <3>3, <3>4 DEF x, y
    <3>6. <<u, x>>[1] = u /\ <<u, x>>[2] = x /\ <<u, y>>[1] = u /\ <<u, y>>[2] = y
      BY PairIs
    <3>7. m[a][1] = u /\ m[a][2] = x /\ m[b][1] = u /\ m[b][2] = y
      BY <3>5, <3>6, Zenon
    <3> QED BY <3>5, <3>6, <3>7
  <2>4. (b <= n \/ b > n) /\ (a <= n - j \/ a > n - j)
    BY <1>2
  <2> QED BY <2>1, <2>2, <2>3, <2>4
<1> QED BY <1>3, <1>4, <1>9, <1>10 DEF n

\* Of the beginnings of an utterance, c ends with what it holds and with no longer one.
LEMMA EndsWith ==
  ASSUME NEW c \in Seq(Word), NEW u \in Utterances, NEW j \in 0..Pieces, EndsAt(c, u, j)
  PROVE  /\ IsSuffix(Words(u, 1, j), c)
         /\ \A k \in (j + 1)..Pieces : ~IsSuffix(Words(u, 1, k), c)
<1>1. /\ j \in Nat /\ u \in Nat /\ Len(c) \in Nat /\ j <= Len(c) /\ Pieces \in Nat
      /\ \A i \in 1..(Len(c) - j) : c[i][1] < u
      /\ \A i \in 1..j : c[(Len(c) - j) + i] = <<u, i>>
  <2>1. Pieces \in Nat /\ u \in Nat /\ Len(c) \in Nat
    BY DialectAssumption DEF DialectAssumption, Utterances
  <2>2. j \in Nat
    BY <2>1
  <2> QED BY <2>1, <2>2 DEF EndsAt
<1>2. \A k \in 0..Pieces : /\ Words(u, 1, k) \in Seq(Word) /\ Len(Words(u, 1, k)) = k
                           /\ \A i \in 1..k : Words(u, 1, k)[i] = <<u, i>>
  BY <1>1, FirstWords
<1>3. IsSuffix(Words(u, 1, j), c)
  BY <1>1, <1>2, SuffixAt
<1>4. ASSUME NEW k \in (j + 1)..Pieces, IsSuffix(Words(u, 1, k), c) PROVE FALSE
  <2> DEFINE w == Words(u, 1, k)
  <2>1. w \in Seq(Word) /\ Len(w) = k /\ \A i \in 1..k : w[i] = <<u, i>>
    BY <1>1, <1>2
  <2> HIDE DEF w
  <2>2. k <= Len(c) /\ \A i \in 1..k : w[i] = c[(Len(c) - k) + i]
    <3>1. IsSuffix(w, c)
      BY <1>4 DEF w
    <3> QED BY <2>1, <3>1, SuffixAt
  <2>3. k - j \in 1..k /\ (Len(c) - k) + (k - j) = Len(c) - j /\ Len(c) - j \in 1..(Len(c) - j)
    BY <1>1, <2>2
  <2>4. c[Len(c) - j] = <<u, k - j>>
    BY <2>1, <2>2, <2>3
  <2> QED BY <1>1, <2>3, <2>4
<1> QED BY <1>3, <1>4

\* A cumulative text of an utterance adds what is new of it.
LEMMA MergeAdds ==
  ASSUME NEW c \in Seq(Word), NEW u \in Utterances, NEW j \in 0..Pieces, NEW k \in j..Pieces, EndsAt(c, u, j)
  PROVE  MergeConfirmed(c, Words(u, 1, k)) = c \o Words(u, j + 1, k)
<1> DEFINE t == Words(u, 1, k)  w == Words(u, j + 1, k)  n == Len(c)
<1>1. /\ j \in Nat /\ k \in Nat /\ j <= k /\ k <= Pieces /\ u \in Nat /\ n \in Nat /\ j <= n /\ Pieces \in Nat
      /\ \A i \in 1..(n - j) : c[i][1] < u
      /\ \A i \in 1..j : c[(n - j) + i] = <<u, i>>
  <2>1. Pieces \in Nat /\ u \in Nat /\ n \in Nat
    BY DialectAssumption DEF DialectAssumption, Utterances
  <2>2. j \in Nat /\ k \in Nat /\ j <= k /\ k <= Pieces
    BY <2>1
  <2> QED BY <2>1, <2>2 DEF EndsAt
<1>2. t \in Seq(Word) /\ Len(t) = k /\ \A i \in 1..k : t[i] = <<u, i>>
  <2>1. k \in 0..Pieces
    BY <1>1
  <2> QED BY <2>1, FirstWords
<1>3. w \in Seq(Word) /\ Len(w) = k - j /\ \A i \in 1..(k - j) : w[i] = <<u, j + i>>
  BY WordsAre
<1>4. IsSuffix(Words(u, 1, j), c) /\ \A l \in (j + 1)..Pieces : ~IsSuffix(Words(u, 1, l), c)
  BY EndsWith
<1>5. \A l \in 0..k : SubSeq(t, 1, l) = Words(u, 1, l)
  <2> TAKE l \in 0..k
  <2> DEFINE a == SubSeq(t, 1, l)  b == Words(u, 1, l)
  <2>1. a \in Seq(Word) /\ Len(a) = l /\ \A i \in 1..l : a[i] = t[i]
    BY <1>1, <1>2
  <2>2. b \in Seq(Word) /\ Len(b) = l /\ \A i \in 1..l : b[i] = <<u, i>>
    <3>1. l \in 0..Pieces
      BY <1>1
    <3> QED BY <3>1, FirstWords
  <2> HIDE DEF a, b, t
  <2>3. \A i \in 1..Len(a) : a[i] = b[i]
    <3>1. \A i \in 1..l : i \in 1..k
      BY <1>1
    <3> QED BY <1>2, <2>1, <2>2, <3>1
  <2>4. a = b
    BY <2>1, <2>2, <2>3, SeqEqual
  <2> QED BY <2>4 DEF a, b
<1> HIDE DEF t, w, n
<1>6. CASE k = j
  <2>1. w = <<>>
    BY <1>3, <1>6
  <2>2. c \o w = c
    BY <2>1, ConcatEmptySeq
  <2>3. IsSuffix(t, c)
    BY <1>4, <1>6 DEF t
  <2>4. MergeConfirmed(c, t) = c
    BY <2>3 DEF MergeConfirmed
  <2> QED BY <2>2, <2>4 DEF t, w
<1>7. CASE k # j
  <2>1. t # <<>> /\ ~IsSuffix(t, c)
    <3>1. k \in (j + 1)..Pieces
      BY <1>1, <1>7
    <3> QED BY <1>1, <1>2, <1>4, <3>1 DEF t
  <2>2. CASE IsPrefix(c, t)
    <3>1. n <= k /\ \A i \in 1..n : c[i] = t[i]
      BY <1>2, <2>2, PrefixAt DEF n
    <3>2. n = j
      <4> SUFFICES ASSUME n # j PROVE FALSE
        OBVIOUS
      <4>1. 1 \in 1..(n - j) /\ 1 \in 1..n /\ 1 \in 1..k
        BY <1>1, <3>1
      <4>2. c[1] = <<u, 1>>
        BY <1>2, <3>1, <4>1
      <4> QED BY <1>1, <4>1, <4>2
    <3> DEFINE v == c \o w
    <3>3. v \in Seq(Word) /\ Len(v) = k /\ \A i \in 1..k : v[i] = IF i <= n THEN c[i] ELSE w[i - n]
      <4>1. Len(c) = n /\ n + (k - j) = k
        BY <1>1, <3>2 DEF n
      <4>2. v \in Seq(Word) /\ Len(v) = n + (k - j)
            /\ \A i \in 1..(n + (k - j)) : v[i] = IF i <= n THEN c[i] ELSE w[i - n]
        <5>1. /\ c \o w \in Seq(Word) /\ Len(c \o w) = Len(c) + Len(w)
              /\ \A i \in 1..(Len(c) + Len(w)) : (c \o w)[i] = IF i <= Len(c) THEN c[i] ELSE w[i - Len(c)]
          BY <1>3, ConcatProperties
        <5> QED BY <1>3, <4>1, <5>1
      <4> QED BY <4>1, <4>2
    <3> HIDE DEF v
    <3>4. \A i \in 1..k : v[i] = t[i]
      <4> TAKE i \in 1..k
      <4>1. CASE i <= n
        <5>1. i \in 1..n
          BY <1>1, <4>1
        <5> QED BY <3>1, <3>3, <4>1, <5>1
      <4>2. CASE i > n
        <5>1. i - n \in 1..(k - j) /\ j + (i - n) = i /\ ~(i <= n)
          BY <1>1, <3>2, <4>2
        <5> QED BY <1>2, <1>3, <3>3, <5>1
      <4> QED BY <1>1, <4>1, <4>2
    <3>5. v = t
      BY <1>2, <3>3, <3>4, SeqEqual
    <3>6. MergeConfirmed(c, t) = t
      BY <2>1, <2>2 DEF MergeConfirmed
    <3> QED BY <3>5, <3>6 DEF t, v, w
  <2>3. CASE ~IsPrefix(c, t)
    <3> DEFINE o == OverlapLength(c, t)
    <3>1. MergeConfirmed(c, t) = c \o SubSeq(t, o + 1, Len(t))
      BY <2>1, <2>3 DEF MergeConfirmed
    <3>2. /\ o \in 0..k /\ o <= n /\ IsSuffix(SubSeq(t, 1, o), c)
          /\ \A l \in (o + 1)..k : l > n \/ ~IsSuffix(SubSeq(t, 1, l), c)
      BY <1>2, OverlapIs DEF n
    <3> HIDE DEF o
    <3>3. o = j
      <4>1. ~(o > j)
        <5>1. o > j => o \in (j + 1)..Pieces
          BY <1>1, <3>2
        <5> QED BY <1>4, <1>5, <3>2, <5>1
      <4>2. ~(o < j)
        <5>1. o < j => j \in (o + 1)..k /\ j \in 0..k /\ ~(j > n)
          BY <1>1, <3>2
        <5> QED BY <1>4, <1>5, <3>2, <5>1
      <4> QED BY <1>1, <3>2, <4>1, <4>2
    <3> DEFINE v == SubSeq(t, j + 1, k)
    <3>4. v \in Seq(Word) /\ Len(v) = k - j /\ \A i \in 1..(k - j) : v[i] = t[j + i]
      BY <1>1, <1>2
    <3>5. \A i \in 1..(k - j) : j + i \in 1..k
      BY <1>1
    <3> HIDE DEF v
    <3>6. \A i \in 1..Len(v) : v[i] = w[i]
      BY <1>2, <1>3, <3>4, <3>5
    <3>7. v = w
      BY <1>3, <3>4, <3>6, SeqEqual
    <3> QED BY <1>2, <3>1, <3>3, <3>7 DEF t, v, w
  <2> QED BY <2>2, <2>3
<1> QED BY <1>6, <1>7

----------------------------------------------------------------------------
(* The inductive invariant.                                                *)

\* The first k words of every utterance before u are in c, and what follows is of u.
Filled(c, u)      == \A v \in Utterances, k \in 1..Pieces : v < u => <<v, k>> \in ToSet(c)
Standing(c, u, k) == InOrder(c) /\ EndsAt(c, u, k) /\ Filled(c, u)

\* Of the utterance under way, what is committed before it ends.
Held == IF provider \in {"qwen", "deepgram"} THEN spoken ELSE 0

\* The committed text is the finished utterances, then what is held of the one under way.
WordsOK == provider # "openai" => Standing(committed, speaking, Held)

\* The ids that were seen are those of what is committed; turns close in order.
SeenOK ==
  /\ provider = "deepgram" => \A id \in seen : id[1] < speaking \/ (id[1] = speaking /\ id[2] <= spoken)
  /\ provider \in {"gladia", "assemblyai"} => \A u \in Utterances : <<u, 0>> \in seen <=> u < speaking
  /\ provider = "assemblyai" => lastTurn + 1 = speaking

\* Where the provider owes nothing, nothing is open.
Closed == tail = <<>> /\ finalAt = Len(committed)
ClosedOK ==
  /\ provider = "qwen" /\ spoken = 0 => finalAt = Len(committed)
  /\ provider \in {"gladia", "assemblyai"} =>
       finalAt = Len(committed) /\ (spoken = 0 => tail = <<>>)
  /\ provider = "deepgram" /\ ~open => Closed
  /\ provider # "openai" /\ acked => Closed

Rising(segs) == \A i, j \in DOMAIN segs : i < j => segs[i].id < segs[j].id

\* The buffered segments are what the provider did with its items, in their order.
Tracks(segs, it) ==
  /\ Rising(segs)
  /\ \A i \in DOMAIN segs :
       /\ segs[i].sent = it[segs[i].id].sent
       /\ it[segs[i].id].state = IF segs[i].completed THEN "done" ELSE "open"
  /\ \A u \in Utterances : it[u].state = "open" => \E i \in DOMAIN segs : segs[i].id = u
ItemsOK(it, sp) ==
  /\ \A u \in Utterances : it[u].state = "done" => it[u].sent = Pieces
  /\ \A u \in Utterances : it[u].state = "none" <=> provider # "openai" \/ u >= sp
  /\ \A u \in Utterances : it[u].state = "none" => it[u].sent = 0
SegmentsOK == Tracks(segments, item) /\ ItemsOK(item, speaking)

\* One segment that is open is forwarded; where none is, none has begun.
Forwards(segs, act) ==
  /\ act # NoItem => \E i \in DOMAIN segs : segs[i].id = act /\ ~segs[i].completed
  /\ act = NoItem => \A i \in DOMAIN segs : segs[i].sent = 0 /\ ~segs[i].completed
ActiveOK == Forwards(segments, active)

\* Segments whose texts begin in their order: the oldest is forwarded, and what
\* is committed is of segments before it, then what it has sent.
Below(c, u) == \A i \in DOMAIN c : c[i][1] < u
Begun(it) ==
  \A u \in Utterances : it[u].sent > 0 => \A v \in 1..(u - 1) : it[v].sent > 0 \/ it[v].state \in {"done", "failed"}
Forwarded(segs, it, act, c, sp) ==
  /\ InOrder(c)
  /\ act # NoItem => segs[1].id = act /\ EndsAt(c, act, it[act].sent)
  /\ act = NoItem => Below(c, sp) /\ \A j \in DOMAIN segs : Below(c, segs[j].id)
ForwardOK ==
  FirstComeFirst /\ provider = "openai" => Begun(item) /\ Forwarded(segments, item, active, committed, speaking)

TextOK     == WordsOK /\ SeenOK /\ ClosedOK
TrackOK    == SegmentsOK /\ ActiveOK
DialectInv == TypeOK /\ TextOK /\ TrackOK /\ ForwardOK

LEMMA StandingGrows ==
  ASSUME NEW c \in Seq(Word), NEW u \in Utterances, NEW j \in 0..Pieces, NEW k \in j..Pieces,
         Standing(c, u, j), NEW m, m = c \o Words(u, j + 1, k)
  PROVE  m \in Seq(Word) /\ Len(m) = Len(c) + (k - j) /\ Standing(m, u, k)
<1>1. InOrder(c) /\ EndsAt(c, u, j) /\ Filled(c, u)
  BY DEF Standing
<1>2. /\ m \in Seq(Word) /\ Len(m) = Len(c) + (k - j) /\ \A i \in 1..Len(c) : m[i] = c[i]
      /\ InOrder(m) /\ EndsAt(m, u, k)
  BY ZenonT(30), <1>1, AppendWords
<1>3. Filled(m, u)
  <2>1. \A e \in ToSet(c) : e \in ToSet(m)
    <3> TAKE e \in ToSet(c)
    <3>1. PICK i \in 1..Len(c) : c[i] = e
      BY DEF ToSet
    <3>2. Len(c) \in Nat /\ k - j \in Nat /\ i \in 1..Len(m) /\ DOMAIN m = 1..Len(m)
      BY <1>2, DialectAssumption DEF DialectAssumption
    <3>3. m[i] = e
      BY <1>2, <3>1
    <3> QED BY <3>2, <3>3 DEF ToSet
  <2> QED BY <1>1, <2>1 DEF Filled
<1> QED BY <1>2, <1>3 DEF Standing

\* An utterance that is complete is one of the earlier ones.
LEMMA StandingNext ==
  ASSUME NEW c \in Seq(Word), NEW u \in Nat, Standing(c, u, Pieces)
  PROVE  Standing(c, u + 1, 0)
<1>1. InOrder(c) /\ EndsAt(c, u, Pieces) /\ Filled(c, u)
  BY DEF Standing
<1> DEFINE n == Len(c)
<1>2. n \in Nat /\ Pieces \in Nat /\ Pieces <= n /\ DOMAIN c = 1..n
  BY <1>1, DialectAssumption DEF DialectAssumption, EndsAt
<1>3. /\ \A i \in 1..(n - Pieces) : c[i][1] < u
      /\ \A i \in 1..Pieces : c[(n - Pieces) + i] = <<u, i>>
  BY <1>1 DEF EndsAt
<1>4. \A i \in 1..n : c[i] \in Word /\ c[i][1] \in Nat
  BY DEF Word, Utterances
<1> HIDE DEF n
<1>5. \A i \in 1..n : c[i][1] < u + 1
  <2> TAKE i \in 1..n
  <2>1. CASE i <= n - Pieces
    <3>1. c[i][1] < u
      BY <1>2, <1>3, <2>1
    <3> QED BY <1>4, <3>1
  <2>2. CASE i > n - Pieces
    <3>1. i - (n - Pieces) \in 1..Pieces /\ (n - Pieces) + (i - (n - Pieces)) = i
      BY <1>2, <2>2
    <3>2. c[i] = <<u, i - (n - Pieces)>>
      BY <1>3, <3>1
    <3> QED BY <3>2, PairIs
  <2> QED BY <1>2, <2>1, <2>2
<1>6. EndsAt(c, u + 1, 0)
  <2>1. 0 <= n /\ n - 0 = n
    BY <1>2
  <2> QED BY <1>5, <2>1 DEF EndsAt, n
<1>7. Filled(c, u + 1)
  <2> SUFFICES ASSUME NEW v \in Utterances, NEW k \in 1..Pieces, v < u + 1 PROVE <<v, k>> \in ToSet(c)
    BY DEF Filled
  <2>1. CASE v < u
    BY <1>1, <2>1 DEF Filled
  <2>2. CASE v = u
    <3>1. c[(n - Pieces) + k] = <<v, k>>
      BY <1>3, <2>2
    <3>2. (n - Pieces) + k \in 1..n
      BY <1>2
    <3> QED BY <1>2, <3>1, <3>2 DEF ToSet
  <2>3. v \in Nat
    BY DEF Utterances
  <2> QED BY <2>1, <2>2, <2>3
<1> QED BY <1>1, <1>6, <1>7 DEF Standing

----------------------------------------------------------------------------
(* What one delta does, by its kind.                                       *)

LEMMA NoIdIsNone == \A u \in Utterances : \A k : <<u, k>> # NoId
BY DEF NoId, Utterances

LEMMA TextDelta ==
  ASSUME NEW w \in Seq(Word)
  PROVE  Text(w) \in Delta /\ Partial(w) \in Delta /\ Final(w, NoId) \in Delta
<1>1. <<>> \in Seq(Word) /\ TRUE \in BOOLEAN /\ FALSE \in BOOLEAN
  OBVIOUS
<1> QED BY <1>1 DEF Text, Partial, Final, Delta

LEMMA IdDelta ==
  ASSUME NEW w \in Seq(Word), NEW id \in Id
  PROVE  Piece(w, id) \in Delta /\ Final(w, id) \in Delta
<1>1. <<>> \in Seq(Word) /\ TRUE \in BOOLEAN /\ FALSE \in BOOLEAN
  OBVIOUS
<1> QED BY <1>1 DEF Piece, Final, Delta

LEMMA EndDelta == Close \in Delta /\ Finished \in Delta
<1>1. <<>> \in Seq(Word) /\ TRUE \in BOOLEAN /\ FALSE \in BOOLEAN
  OBVIOUS
<1> QED BY <1>1, TextDelta DEF Close, Finished, Delta

\* The state after a step of s.
Moves(s, a, c, t, f, i, k) ==
  a.committed = c /\ a.tail = t /\ a.finalAt = f /\ a.seen = i /\ a.acked = k

LEMMA StateFields ==
  ASSUME NEW s \in State
  PROVE  /\ s.committed \in Seq(Word) /\ s.tail \in Seq(Word) /\ s.finalAt \in Nat /\ s.finalAt <= Len(s.committed)
         /\ s.seen \subseteq Id /\ s.acked \in BOOLEAN
         /\ s = [committed |-> s.committed, tail |-> s.tail, finalAt |-> s.finalAt, seen |-> s.seen,
                 acked |-> s.acked]
BY DEF State

LEMMA ApplyText ==
  ASSUME NEW s \in State, NEW w \in Seq(Word)
  PROVE  Moves(s, Apply(s, Text(w)), MergeConfirmed(s.committed, w), s.tail, s.finalAt, s.seen, s.acked)
<1> DEFINE m == MergeConfirmed(s.committed, w)  d == Text(w)
<1>1. d.kind = "text" /\ d.keep /\ d.id = NoId /\ d.words = w
  BY DEF Text
<1>2. Commit(s, d) = [s EXCEPT !.committed = m]
  BY <1>1 DEF Commit
<1> HIDE DEF d, m
<1>3. Apply(s, d) = [Commit(s, d) EXCEPT !.tail = @]
  BY <1>1 DEF Apply
<1> QED BY <1>2, <1>3, StateFields DEF Moves, d, m

LEMMA ApplyPartial ==
  ASSUME NEW s \in State, NEW w \in Seq(Word)
  PROVE  Moves(s, Apply(s, Partial(w)), s.committed, w, s.finalAt, s.seen, s.acked)
<1> DEFINE d == Partial(w)
<1>1. d.kind = "text" /\ d.keep = FALSE /\ d.id = NoId /\ d.words = <<>> /\ d.tail = w
  BY DEF Partial
<1> HIDE DEF d
<1>2. MergeConfirmed(s.committed, d.words) = s.committed
  BY <1>1 DEF MergeConfirmed
<1>3. Commit(s, d) = [s EXCEPT !.committed = s.committed]
  BY <1>1, <1>2 DEF Commit
<1>4. Apply(s, d) = [Commit(s, d) EXCEPT !.tail = w]
  BY <1>1 DEF Apply
<1> QED BY <1>3, <1>4, StateFields DEF Moves, d

LEMMA ApplyPiece ==
  ASSUME NEW s \in State, NEW w \in Seq(Word), NEW id \in Id, id # NoId, id \notin s.seen
  PROVE  Moves(s, Apply(s, Piece(w, id)), s.committed \o w, <<>>, s.finalAt, s.seen \cup {id}, s.acked)
<1> DEFINE d == Piece(w, id)  m == s.committed \o w  i == s.seen \cup {id}
<1>1. d.kind = "text" /\ d.keep = FALSE /\ d.id = id /\ d.words = w /\ d.tail = <<>>
  BY DEF Piece
<1>2. Commit(s, d) = [s EXCEPT !.committed = m, !.seen = i]
  BY <1>1 DEF Commit
<1> HIDE DEF d, m, i
<1>4. Apply(s, d) = [Commit(s, d) EXCEPT !.tail = <<>>]
  BY <1>1 DEF Apply
<1> QED BY <1>2, <1>4, StateFields DEF Moves, d, m, i

\* A FINAL acknowledges the end only with openai.
Acks == provider = "openai" /\ finishing

\* The text of a FINAL: merged without an id, appended once with one.
LEMMA ApplyFinal ==
  ASSUME NEW s \in State, NEW w \in Seq(Word), NEW id \in Id \cup {NoId}, NEW c \in Seq(Word), NEW i \in SUBSET Id,
         \/ id = NoId /\ c = MergeConfirmed(s.committed, w) /\ i = s.seen
         \/ id # NoId /\ id \in s.seen /\ c = s.committed /\ i = s.seen
         \/ id # NoId /\ id \notin s.seen /\ c = s.committed \o w /\ i = s.seen \cup {id}
  PROVE  Moves(s, Apply(s, Final(w, id)), c, <<>>, Len(c), i, s.acked \/ Acks)
<1> DEFINE d == Final(w, id)
<1>1. d.kind = "final" /\ d.id = id /\ d.words = w
  BY DEF Final
<1> HIDE DEF d
<1>2. Commit(s, d) = [s EXCEPT !.committed = c, !.seen = i]
  <2>1. CASE id = NoId /\ c = MergeConfirmed(s.committed, w) /\ i = s.seen
    BY <1>1, <2>1, StateFields DEF Commit
  <2>2. CASE id # NoId /\ id \in s.seen /\ c = s.committed /\ i = s.seen
    BY <1>1, <2>2, StateFields DEF Commit
  <2>3. CASE id # NoId /\ id \notin s.seen /\ c = s.committed \o w /\ i = s.seen \cup {id}
    BY <1>1, <2>3, StateFields DEF Commit
  <2> QED BY <2>1, <2>2, <2>3
<1> DEFINE b == Commit(s, d)
<1>3. b.committed = c /\ b.seen = i /\ b.acked = s.acked /\ b = [b EXCEPT !.committed = c]
      /\ DOMAIN b = {"committed", "tail", "finalAt", "seen", "acked"}
  BY <1>2, StateFields
<1>4. Apply(s, d) = [b EXCEPT !.tail = <<>>, !.finalAt = Len(b.committed), !.acked = @ \/ (provider = "openai" /\ finishing)]
  BY <1>1 DEF Apply
<1> HIDE DEF b
<1>5. Apply(s, d).acked = (b.acked \/ Acks)
  BY <1>3, <1>4, Zenon DEF Acks
<1> QED BY <1>3, <1>4, <1>5 DEF Moves, d

LEMMA ApplyFinished ==
  ASSUME NEW s \in State
  PROVE  Moves(s, Apply(s, Finished), s.committed, s.tail, s.finalAt, s.seen, TRUE)
<1>1. Finished.kind = "finished"
  BY DEF Finished
<1>2. Apply(s, Finished) = [s EXCEPT !.acked = TRUE]
  BY <1>1 DEF Apply
<1> QED BY <1>2, StateFields DEF Moves

----------------------------------------------------------------------------
(* Receiving deltas.                                                       *)

TextTypes ==
  /\ committed \in Seq(Word) /\ tail \in Seq(Word) /\ finalAt \in 0..Len(committed)
  /\ seen \subseteq Id /\ acked \in BOOLEAN
SpeechTypes ==
  /\ provider \in Providers
  /\ speaking \in 1..(MaxUtterance + 1) /\ spoken \in 0..Pieces
  /\ {finishing, open} \subseteq BOOLEAN /\ lastTurn \in 0..MaxUtterance
SegmentTypes ==
  /\ active \in 0..MaxUtterance
  /\ item \in [Utterances -> [state : {"none", "open", "done", "failed"}, sent : 0..Pieces]]
  /\ segments \in Seq([id : Utterances, sent : 0..Pieces, completed : BOOLEAN])

LEMMA TypesAre == TypeOK <=> TextTypes /\ SpeechTypes /\ SegmentTypes
BY DEF TypeOK, TextTypes, SpeechTypes, SegmentTypes, Id

LEMMA NowIs ==
  ASSUME TextTypes
  PROVE  /\ Now \in State /\ Now.committed = committed /\ Now.tail = tail /\ Now.finalAt = finalAt
         /\ Now.seen = seen /\ Now.acked = acked
<1>1. finalAt \in Nat /\ finalAt <= Len(committed) /\ Len(committed) \in Nat
  BY DEF TextTypes
<1> QED BY <1>1 DEF TextTypes, Now, State

Becomes(s) ==
  /\ committed' = s.committed /\ tail' = s.tail /\ finalAt' = s.finalAt /\ seen' = s.seen /\ acked' = s.acked

LEMMA BecomesTypes ==
  ASSUME NEW s \in State, Becomes(s)
  PROVE  TextTypes'
<1>1. s.finalAt \in 0..Len(s.committed)
  BY StateFields
<1> QED BY <1>1, StateFields DEF Becomes, TextTypes

LEMMA ReceiveTypes ==
  ASSUME TextTypes, NEW deltas \in Seq(Delta), Receive(deltas)
  PROVE  TextTypes' /\ Becomes(Applied(Now, deltas))
<1>1. Applied(Now, deltas) \in State
  BY NowIs, AppliedTypes
<1>2. Becomes(Applied(Now, deltas))
  BY DEF Receive, Becomes
<1> QED BY <1>1, <1>2, BecomesTypes

LEMMA ReceiveNone ==
  ASSUME TextTypes, Receive(<<>>)
  PROVE  TextTypes' /\ committed' = committed /\ tail' = tail /\ finalAt' = finalAt /\ seen' = seen /\ acked' = acked
<1>1. Becomes(Now)
  BY AppliedNone DEF Receive, Becomes
<1> QED BY <1>1, NowIs, BecomesTypes DEF Becomes

Takes(c, t, f, i, k) ==
  committed' = c /\ tail' = t /\ finalAt' = f /\ seen' = i /\ acked' = k

LEMMA ReceiveOne ==
  ASSUME TextTypes, NEW d \in Delta, Receive(<<d>>), NEW c, NEW t, NEW f, NEW i, NEW k,
         Moves(Now, Apply(Now, d), c, t, f, i, k)
  PROVE  TextTypes' /\ Takes(c, t, f, i, k)
<1>1. Apply(Now, d) \in State
  BY NowIs, ApplyTypes
<1>2. Becomes(Apply(Now, d))
  BY AppliedOne DEF Receive, Becomes
<1> QED BY <1>1, <1>2, BecomesTypes DEF Becomes, Moves, Takes

LEMMA ReceiveTwo ==
  ASSUME TextTypes, NEW d \in Delta, NEW e \in Delta, Receive(<<d, e>>), NEW c, NEW t, NEW f, NEW i, NEW k,
         Moves(Apply(Now, d), Apply(Apply(Now, d), e), c, t, f, i, k)
  PROVE  TextTypes' /\ Takes(c, t, f, i, k)
<1>1. Apply(Now, d) \in State
  BY NowIs, ApplyTypes
<1>2. Apply(Apply(Now, d), e) \in State
  BY <1>1, ApplyTypes
<1>3. Becomes(Apply(Apply(Now, d), e))
  <2>1. Applied(Now, <<d, e>>) = Apply(Apply(Now, d), e)
    BY NowIs, AppliedTwo
  <2> QED BY <2>1 DEF Receive, Becomes
<1> QED BY <1>2, <1>3, BecomesTypes DEF Becomes, Moves, Takes

\* The utterance under way is one of them while there is speech to come, and its words are words.
LEMMA UnderWay ==
  ASSUME TypeOK, speaking <= MaxUtterance
  PROVE  /\ speaking \in Utterances /\ speaking \in Nat
         /\ \A k \in 0..Pieces : Words(speaking, 1, k) \in Seq(Word)
         /\ \A j \in 0..Pieces : \A k \in j..Pieces : Words(speaking, j + 1, k) \in Seq(Word)
<1>1. speaking \in Utterances /\ speaking \in Nat
  BY DialectAssumption DEF DialectAssumption, TypeOK, Utterances
<1> QED BY <1>1, FirstWords, WordsAre

----------------------------------------------------------------------------
(* cloud_qwen.                                                             *)

LEMMA QwenTextStep ==
  ASSUME TypeOK, TextOK, QwenText
  PROVE  TextTypes' /\ TextOK'
<1>1. /\ provider = "qwen" /\ provider' = "qwen" /\ ~acked /\ speaking <= MaxUtterance /\ speaking' = speaking
      /\ provider # "openai" /\ TextTypes
  BY TypesAre DEF QwenText, Speaking, Listening
<1>2. PICK k \in spoken..Pieces, n \in 0..1 :
        /\ k + n \in 1..Pieces /\ spoken' = k
        /\ Receive(<<Text(Words(speaking, 1, k)), Partial(Words(speaking, k + 1, k + n))>>)
  BY DEF QwenText
<1>3. /\ speaking \in Utterances /\ spoken \in 0..Pieces /\ k \in 0..Pieces /\ k + n \in k..Pieces /\ spoken \in Nat
      /\ committed \in Seq(Word) /\ Len(committed) \in Nat
  BY SMTT(30), <1>1, <1>2, UnderWay, DialectAssumption DEF DialectAssumption, TypeOK
<1> DEFINE w == Words(speaking, 1, k)  t == Words(speaking, k + 1, k + n)
           c == MergeConfirmed(committed, w)
<1>4. w \in Seq(Word) /\ t \in Seq(Word)
  BY <1>1, <1>3, UnderWay
<1>5. Standing(committed, speaking, spoken)
  BY <1>1 DEF TextOK, WordsOK, Held
<1>6. c = committed \o Words(speaking, spoken + 1, k)
  BY <1>3, <1>5, MergeAdds DEF Standing
<1>7. Len(c) = Len(committed) + (k - spoken) /\ Standing(c, speaking, k)
  BY <1>2, <1>3, <1>5, <1>6, StandingGrows
<1> HIDE DEF w, t, c
<1>8. TextTypes' /\ Takes(c, t, finalAt, seen, acked)
  <2> DEFINE d == Text(w)  e == Partial(t)  s == Apply(Now, d)
  <2>1. d \in Delta /\ e \in Delta
    BY <1>4, TextDelta
  <2>2. Now \in State /\ Moves(Now, s, c, tail, finalAt, seen, acked)
    BY <1>1, <1>4, NowIs, ApplyText DEF c
  <2>3. s \in State
    BY <2>1, <2>2, ApplyTypes
  <2>4. Moves(s, Apply(s, e), s.committed, t, s.finalAt, s.seen, s.acked)
    BY <1>4, <2>3, ApplyPartial
  <2>5. Moves(s, Apply(s, e), c, t, finalAt, seen, acked)
    BY <2>2, <2>4 DEF Moves
  <2>6. Receive(<<d, e>>)
    BY <1>2 DEF w, t
  <2> HIDE DEF d, e
  <2> QED BY <1>1, <2>1, <2>5, <2>6, ReceiveTwo
<1>9. WordsOK'
  BY <1>1, <1>2, <1>7, <1>8 DEF WordsOK, Held, Takes
<1>10. SeenOK'
  BY <1>1 DEF SeenOK
<1>11. ClosedOK'
  <2>1. k = 0 => spoken = 0 /\ Len(c) = Len(committed)
    BY <1>2, <1>3, <1>7
  <2>2. k = 0 => finalAt = Len(c)
    BY <1>1, <2>1 DEF TextOK, ClosedOK
  <2> QED BY <1>1, <1>2, <1>8, <2>2 DEF ClosedOK, Takes
<1> QED BY <1>8, <1>9, <1>10, <1>11 DEF TextOK

LEMMA QwenCompletedStep ==
  ASSUME TypeOK, TextOK, QwenCompleted
  PROVE  TextTypes' /\ TextOK'
<1>1. /\ provider = "qwen" /\ provider' = "qwen" /\ ~acked /\ speaking <= MaxUtterance
      /\ speaking' = speaking + 1 /\ spoken' = 0 /\ provider # "openai" /\ TextTypes
      /\ Receive(<<Final(Words(speaking, 1, Pieces), NoId)>>)
  BY TypesAre DEF QwenCompleted, Speaking, Listening, NextUtterance
<1>2. /\ speaking \in Utterances /\ speaking \in Nat /\ spoken \in 0..Pieces /\ Pieces \in 0..Pieces
      /\ Pieces \in spoken..Pieces /\ committed \in Seq(Word) /\ seen \in SUBSET Id
  BY <1>1, UnderWay, DialectAssumption DEF DialectAssumption, TypeOK, Id
<1> DEFINE w == Words(speaking, 1, Pieces)  c == MergeConfirmed(committed, w)
<1>3. w \in Seq(Word)
  BY <1>1, <1>2, UnderWay
<1>4. Standing(committed, speaking, spoken)
  BY <1>1 DEF TextOK, WordsOK, Held
<1>5. c = committed \o Words(speaking, spoken + 1, Pieces)
  BY <1>2, <1>4, MergeAdds DEF Standing
<1>6. c \in Seq(Word) /\ Standing(c, speaking, Pieces)
  BY ZenonT(30), <1>2, <1>4, <1>5, StandingGrows
<1>7. Standing(c, speaking + 1, 0)
  BY <1>2, <1>6, StandingNext
<1> HIDE DEF w, c
<1>8. TextTypes' /\ Takes(c, <<>>, Len(c), seen, acked \/ Acks)
  <2> DEFINE d == Final(w, NoId)
  <2>1. d \in Delta
    BY <1>3, TextDelta
  <2>2. Moves(Now, Apply(Now, d), c, <<>>, Len(c), seen, Now.acked \/ Acks)
    <3>1. Now \in State /\ c = MergeConfirmed(Now.committed, w) /\ seen = Now.seen /\ NoId \in Id \cup {NoId}
      BY <1>1, NowIs DEF c
    <3> QED BY <1>2, <1>3, <1>6, <3>1, ApplyFinal
  <2>3. Receive(<<d>>)
    BY <1>1 DEF w
  <2> HIDE DEF d
  <2> QED BY <1>1, <2>1, <2>2, <2>3, NowIs, ReceiveOne
<1>9. ~acked'
  BY <1>1, <1>8 DEF Takes, Acks
<1>10. WordsOK'
  BY <1>1, <1>7, <1>8 DEF WordsOK, Held, Takes
<1>11. SeenOK'
  BY <1>1 DEF SeenOK
<1>12. ClosedOK'
  BY <1>1, <1>8, <1>9 DEF ClosedOK, Takes
<1> QED BY <1>8, <1>10, <1>11, <1>12 DEF TextOK

----------------------------------------------------------------------------
(* deepgram.                                                               *)

\* An utterance all of whose words are committed is one of them.
LEMMA SpokenIsUnderWay ==
  ASSUME TypeOK, EndsAt(committed, speaking, spoken), spoken # 0
  PROVE  speaking \in Utterances /\ speaking <= MaxUtterance
<1>1. /\ spoken \in Nat /\ Len(committed) \in Nat /\ committed \in Seq(Word)
      /\ speaking \in Nat /\ MaxUtterance \in Nat
  BY DialectAssumption DEF DialectAssumption, TypeOK
<1>2. /\ spoken <= Len(committed)
      /\ \A i \in 1..spoken : committed[(Len(committed) - spoken) + i] = <<speaking, i>>
  BY DEF EndsAt
<1> DEFINE n == (Len(committed) - spoken) + 1
<1>3. 1 \in 1..spoken /\ n \in 1..Len(committed)
  BY <1>1, <1>2
<1>4. committed[n] = <<speaking, 1>>
  BY <1>2, <1>3
<1> HIDE DEF n
<1>5. committed[n] \in Word
  BY <1>1, <1>3
<1>6. speaking \in Utterances
  BY <1>4, <1>5 DEF Word
<1> QED BY <1>1, <1>6 DEF Utterances

LEMMA DeepgramInterimStep ==
  ASSUME TypeOK, TextOK, DeepgramInterim
  PROVE  TextTypes' /\ TextOK'
<1>1. /\ provider = "deepgram" /\ provider' = "deepgram" /\ ~acked /\ speaking <= MaxUtterance
      /\ speaking' = speaking /\ spoken' = spoken /\ open' = TRUE /\ TextTypes /\ spoken < Pieces
      /\ Receive(<<Partial(Words(speaking, spoken + 1, spoken + 1))>>)
  BY TypesAre DEF DeepgramInterim, Speaking, Listening, speechVars
<1>2. spoken \in 0..Pieces /\ spoken + 1 \in spoken..Pieces
  BY <1>1, DialectAssumption DEF DialectAssumption, TypeOK
<1> DEFINE w == Words(speaking, spoken + 1, spoken + 1)
<1>3. w \in Seq(Word)
  BY <1>1, <1>2, UnderWay
<1> HIDE DEF w
<1>4. TextTypes' /\ Takes(committed, w, finalAt, seen, acked)
  <2> DEFINE d == Partial(w)
  <2>1. d \in Delta
    BY <1>3, TextDelta
  <2>2. Moves(Now, Apply(Now, d), Now.committed, w, Now.finalAt, Now.seen, Now.acked)
    BY <1>1, <1>3, NowIs, ApplyPartial
  <2>3. Receive(<<d>>)
    BY <1>1 DEF w
  <2> HIDE DEF d
  <2> QED BY <1>1, <2>1, <2>2, <2>3, NowIs, ReceiveOne
<1>5. WordsOK'
  BY <1>1, <1>4 DEF TextOK, WordsOK, Held, Takes
<1>6. SeenOK'
  BY <1>1, <1>4 DEF TextOK, SeenOK, Takes
<1>7. ClosedOK'
  BY <1>1, <1>4 DEF ClosedOK, Takes
<1> QED BY <1>4, <1>5, <1>6, <1>7 DEF TextOK

\* The next piece of the utterance has an id that was not seen.
LEMMA PieceIsNew ==
  ASSUME TypeOK, TextOK, provider = "deepgram", spoken < Pieces, speaking <= MaxUtterance
  PROVE  /\ <<speaking, spoken + 1>> \in Id /\ <<speaking, spoken + 1>> \notin seen
         /\ <<speaking, spoken + 1>> # NoId /\ spoken + 1 \in spoken..Pieces /\ spoken + 1 \in 0..Pieces
<1>1. spoken \in Nat /\ Pieces \in Nat /\ speaking \in Utterances /\ speaking \in Nat
  BY UnderWay, DialectAssumption DEF DialectAssumption, TypeOK
<1>2. \A id \in seen : id[1] < speaking \/ (id[1] = speaking /\ id[2] <= spoken)
  BY DEF TextOK, SeenOK
<1> DEFINE p == <<speaking, spoken + 1>>
<1>3. p[1] = speaking /\ p[2] = spoken + 1
  OBVIOUS
<1>4. ~(p[1] < speaking) /\ ~(p[2] <= spoken)
  BY <1>1, <1>3
<1> HIDE DEF p
<1>5. p \notin seen
  BY <1>2, <1>4
<1> QED BY <1>1, <1>5, NoIdIsNone DEF p, Id

\* What was seen, and the new piece, are of what is committed.
LEMMA SeenWith ==
  ASSUME TypeOK, TextOK, provider = "deepgram", speaking <= MaxUtterance
  PROVE  /\ \A id \in seen \cup {<<speaking, spoken + 1>>} :
                id[1] < speaking \/ (id[1] = speaking /\ id[2] <= spoken + 1)
         /\ \A id \in seen \cup {<<speaking, spoken + 1>>} : id[1] < speaking + 1
<1>a. Pieces \in Nat /\ seen \subseteq Utterances \X (0..Pieces)
  BY DialectAssumption DEF DialectAssumption, TypeOK
<1>b. ASSUME NEW id \in seen PROVE id[1] \in Nat /\ id[2] \in Nat
  <2>1. id[1] \in Utterances /\ id[2] \in 0..Pieces
    BY <1>a
  <2> QED BY <1>a, <2>1 DEF Utterances
<1>1. /\ spoken \in Nat /\ speaking \in Nat
      /\ \A id \in seen : id[1] \in Nat /\ id[2] \in Nat
  BY <1>a, <1>b, UnderWay DEF TypeOK
<1>2. \A id \in seen : id[1] < speaking \/ (id[1] = speaking /\ id[2] <= spoken)
  BY DEF TextOK, SeenOK
<1> DEFINE p == <<speaking, spoken + 1>>
<1>3. p[1] = speaking /\ p[2] = spoken + 1
  OBVIOUS
<1> HIDE DEF p
<1>4. ASSUME NEW id \in seen
      PROVE  (id[1] < speaking \/ (id[1] = speaking /\ id[2] <= spoken + 1)) /\ id[1] < speaking + 1
  BY <1>1, <1>2
<1>5. p[2] <= spoken + 1 /\ p[1] < speaking + 1
  BY <1>1, <1>3
<1> QED BY <1>3, <1>4, <1>5 DEF p

LEMMA DeepgramPieceStep ==
  ASSUME TypeOK, TextOK, DeepgramPiece
  PROVE  TextTypes' /\ TextOK'
<1> DEFINE w == Words(speaking, spoken + 1, spoken + 1)  c == committed \o w  id == <<speaking, spoken + 1>>
<1>1. /\ provider = "deepgram" /\ provider' = "deepgram" /\ ~acked /\ speaking <= MaxUtterance
      /\ speaking' = speaking /\ spoken' = spoken + 1 /\ open' = TRUE /\ TextTypes /\ spoken < Pieces
      /\ Receive(<<Piece(w, id)>>)
  BY TypesAre DEF DeepgramPiece, Speaking, Listening
<1>2. /\ spoken \in 0..Pieces /\ speaking \in Utterances /\ committed \in Seq(Word)
      /\ id \in Id /\ id \notin seen /\ id # NoId /\ spoken + 1 \in spoken..Pieces
  BY <1>1, UnderWay, PieceIsNew DEF TypeOK
<1>3. w \in Seq(Word)
  BY <1>1, <1>2, UnderWay
<1>4. Standing(committed, speaking, spoken)
  BY <1>1 DEF TextOK, WordsOK, Held
<1>5. Standing(c, speaking, spoken + 1)
  BY <1>2, <1>4, StandingGrows
<1>6. \A p \in seen \cup {id} : p[1] < speaking \/ (p[1] = speaking /\ p[2] <= spoken + 1)
  BY <1>1, SeenWith
<1> DEFINE i == seen \cup {id}
<1> HIDE DEF w, c, id
<1>7. TextTypes' /\ Takes(c, <<>>, finalAt, i, acked)
  <2> DEFINE d == Piece(w, id)
  <2>1. d \in Delta
    BY <1>2, <1>3, IdDelta
  <2>2. Moves(Now, Apply(Now, d), Now.committed \o w, <<>>, Now.finalAt, Now.seen \cup {id}, Now.acked)
    BY <1>1, <1>2, <1>3, NowIs, ApplyPiece
  <2>3. Receive(<<d>>)
    BY <1>1
  <2> HIDE DEF d, i
  <2>4. Moves(Now, Apply(Now, d), c, <<>>, finalAt, i, acked)
    BY <1>1, <2>2, NowIs DEF c, i
  <2> QED BY <1>1, <2>1, <2>3, <2>4, ReceiveOne
<1>8. WordsOK'
  BY <1>1, <1>5, <1>7 DEF WordsOK, Held, Takes
<1>9. SeenOK'
  BY <1>1, <1>6, <1>7 DEF SeenOK, Takes
<1>10. ClosedOK'
  BY <1>1, <1>7 DEF ClosedOK, Takes
<1> QED BY <1>7, <1>8, <1>9, <1>10 DEF TextOK

LEMMA DeepgramSpeechFinalStep ==
  ASSUME TypeOK, TextOK, DeepgramSpeechFinal
  PROVE  TextTypes' /\ TextOK'
<1> DEFINE w == Words(speaking, spoken + 1, Pieces)  c == committed \o w  id == <<speaking, spoken + 1>>
<1>1. /\ provider = "deepgram" /\ provider' = "deepgram" /\ ~acked /\ speaking <= MaxUtterance
      /\ speaking' = speaking + 1 /\ spoken' = 0 /\ open' = FALSE /\ TextTypes /\ spoken + 1 = Pieces
      /\ Receive(<<Final(w, id)>>)
  BY TypesAre DEF DeepgramSpeechFinal, Speaking, Listening, NextUtterance
<1>2. spoken \in Nat /\ spoken < Pieces /\ seen \subseteq Id
  BY <1>1, DialectAssumption DEF DialectAssumption, TypeOK, Id
<1>3. /\ spoken \in 0..Pieces /\ speaking \in Utterances /\ speaking \in Nat /\ committed \in Seq(Word)
      /\ id \in Id /\ id \notin seen /\ id # NoId /\ Pieces \in spoken..Pieces /\ Pieces \in 0..Pieces
  BY <1>1, <1>2, UnderWay, PieceIsNew DEF TypeOK
<1>4. w \in Seq(Word)
  BY <1>1, <1>3, UnderWay
<1>5. Standing(committed, speaking, spoken)
  BY <1>1 DEF TextOK, WordsOK, Held
<1>6. c \in Seq(Word) /\ Standing(c, speaking, Pieces)
  BY <1>3, <1>5, StandingGrows
<1>7. Standing(c, speaking + 1, 0)
  BY <1>3, <1>6, StandingNext
<1>8. \A p \in seen \cup {id} : p[1] < speaking + 1
  BY <1>1, SeenWith
<1> DEFINE i == seen \cup {id}
<1> HIDE DEF w, c, id
<1>9. TextTypes' /\ Takes(c, <<>>, Len(c), i, acked \/ Acks)
  <2> DEFINE d == Final(w, id)
  <2>1. d \in Delta
    BY <1>3, <1>4, IdDelta
  <2>a. i \in SUBSET Id
    BY <1>2, <1>3
  <2> HIDE DEF i
  <2>2. Moves(Now, Apply(Now, d), c, <<>>, Len(c), i, Now.acked \/ Acks)
    <3>1. Now \in State /\ c = Now.committed \o w /\ i = Now.seen \cup {id} /\ id \in Id \cup {NoId} /\ id \notin Now.seen
      BY <1>1, <1>3, NowIs DEF c, i
    <3> QED BY <1>3, <1>4, <1>6, <2>a, <3>1, ApplyFinal
  <2>3. Receive(<<d>>)
    BY <1>1
  <2> HIDE DEF d
  <2> QED BY <1>1, <2>1, <2>2, <2>3, NowIs, ReceiveOne
<1>10. ~acked'
  BY <1>1, <1>9 DEF Takes, Acks
<1>11. WordsOK'
  BY <1>1, <1>7, <1>9 DEF WordsOK, Held, Takes
<1>12. SeenOK'
  BY <1>1, <1>8, <1>9 DEF SeenOK, Takes
<1>13. ClosedOK'
  BY <1>1, <1>9 DEF ClosedOK, Closed, Takes
<1> QED BY <1>9, <1>11, <1>12, <1>13 DEF TextOK

\* A FINAL without text closes what there is.
LEMMA ApplyClose ==
  ASSUME NEW s \in State
  PROVE  Moves(s, Apply(s, Close), s.committed, <<>>, Len(s.committed), s.seen, s.acked \/ Acks)
<1> DEFINE e == <<>>  c == s.committed  i == s.seen
<1>1. e \in Seq(Word) /\ c = MergeConfirmed(s.committed, e) /\ i = s.seen /\ NoId \in Id \cup {NoId}
      /\ c \in Seq(Word) /\ i \in SUBSET Id
  BY StateFields DEF MergeConfirmed
<1>2. Close = Final(e, NoId)
  BY DEF Close
<1> HIDE DEF e, c, i
<1>3. Moves(s, Apply(s, Final(e, NoId)), c, <<>>, Len(c), i, s.acked \/ Acks)
  BY <1>1, ApplyFinal
<1> QED BY <1>2, <1>3 DEF c, i

LEMMA DeepgramEndStep ==
  ASSUME TypeOK, TextOK, DeepgramEnd
  PROVE  TextTypes' /\ TextOK' /\ speaking' \in 1..(MaxUtterance + 1) /\ spoken' \in 0..Pieces
<1>1. /\ provider = "deepgram" /\ provider' = "deepgram" /\ ~acked /\ open' = FALSE /\ TextTypes
      /\ Receive(IF open THEN <<Close>> ELSE <<>>)
      /\ spoken = 0 \/ spoken = Pieces
      /\ IF spoken = Pieces THEN speaking' = speaking + 1 /\ spoken' = 0 ELSE speaking' = speaking /\ spoken' = spoken
  BY TypesAre DEF DeepgramEnd, Listening, NextUtterance, Quiet
<1>2. /\ Pieces \in Nat /\ Pieces # 0 /\ speaking \in Nat /\ committed \in Seq(Word)
      /\ speaking \in 1..(MaxUtterance + 1) /\ MaxUtterance \in Nat /\ spoken \in 0..Pieces
      /\ \A id \in seen : id[1] \in Nat
  BY DialectAssumption DEF DialectAssumption, TypeOK, Utterances
<1>3. Standing(committed, speaking, spoken)
  BY <1>1 DEF TextOK, WordsOK, Held
<1>4. TextTypes' /\ Takes(committed, <<>>, Len(committed), seen, acked)
  <2>1. CASE open
    <3>1. Receive(<<Close>>)
      BY <1>1, <2>1
    <3>2. Moves(Now, Apply(Now, Close), committed, <<>>, Len(committed), seen, Now.acked \/ Acks)
      BY <1>1, NowIs, ApplyClose
    <3>3. TextTypes' /\ Takes(committed, <<>>, Len(committed), seen, Now.acked \/ Acks)
      BY <1>1, <3>1, <3>2, EndDelta, ReceiveOne
    <3>4. (Now.acked \/ Acks) <=> acked
      BY <1>1, NowIs DEF Acks
    <3>5. acked' \in BOOLEAN /\ acked \in BOOLEAN
      BY <3>3, TypesAre DEF TextTypes
    <3> QED BY <3>3, <3>4, <3>5 DEF Takes
  <2>2. CASE ~open
    <3>1. Receive(<<>>)
      BY <1>1, <2>2
    <3>2. tail = <<>> /\ finalAt = Len(committed)
      BY <1>1, <2>2 DEF TextOK, ClosedOK, Closed
    <3> QED BY <1>1, <3>1, <3>2, ReceiveNone DEF Takes
  <2> QED BY <2>1, <2>2
<1>5. ClosedOK'
  BY <1>1, <1>4 DEF ClosedOK, Closed, Takes
<1>6. CASE spoken = Pieces
  <2>1. speaking <= MaxUtterance /\ Standing(committed, speaking + 1, 0)
    BY <1>2, <1>3, <1>6, StandingNext, SpokenIsUnderWay DEF Standing
  <2>2. WordsOK'
    BY <1>1, <1>4, <1>6, <2>1 DEF WordsOK, Held, Takes
  <2>3. \A id \in seen : id[1] < speaking + 1
    BY <1>1, <1>2 DEF TextOK, SeenOK
  <2>4. SeenOK'
    BY <1>1, <1>4, <1>6, <2>3 DEF SeenOK, Takes
  <2> QED BY <1>1, <1>2, <1>4, <1>5, <1>6, <2>1, <2>2, <2>4 DEF TextOK
<1>7. CASE spoken # Pieces
  <2>1. WordsOK'
    BY <1>1, <1>3, <1>4, <1>7 DEF WordsOK, Held, Takes
  <2>2. SeenOK'
    BY <1>1, <1>4, <1>7 DEF TextOK, SeenOK, Takes
  <2> QED BY <1>1, <1>2, <1>4, <1>5, <1>7, <2>1, <2>2 DEF TextOK
<1> QED BY <1>6, <1>7

\* What acknowledges the end changes nothing else.
LEMMA AcknowledgedStep ==
  ASSUME TextOK, Closed, provider # "openai", provider' = provider, speaking' = speaking, spoken' = spoken,
         lastTurn' = lastTurn, Takes(committed, tail, finalAt, seen, TRUE)
  PROVE  TextOK'
<1>1. WordsOK'
  BY DEF TextOK, WordsOK, Held, Takes
<1>2. SeenOK'
  BY DEF TextOK, SeenOK, Takes
<1>3. ClosedOK'
  BY DEF TextOK, ClosedOK, Closed, Takes
<1> QED BY <1>1, <1>2, <1>3 DEF TextOK

LEMMA DeepgramMetadataStep ==
  ASSUME TypeOK, TextOK, DeepgramMetadata
  PROVE  TextTypes' /\ TextOK'
<1>1. /\ provider = "deepgram" /\ provider' = "deepgram" /\ ~acked /\ open' = FALSE /\ TextTypes
      /\ Receive(IF open THEN <<Close, Finished>> ELSE <<Finished>>)
      /\ speaking' = speaking /\ spoken' = spoken /\ lastTurn' = lastTurn
  BY TypesAre DEF DeepgramMetadata, Listening, speechVars
<1>2. TextTypes' /\ Takes(committed, <<>>, Len(committed), seen, TRUE)
  <2>1. CASE open
    <3> DEFINE s == Apply(Now, Close)
    <3>1. Receive(<<Close, Finished>>)
      BY <1>1, <2>1
    <3>2. Moves(Now, s, committed, <<>>, Len(committed), seen, Now.acked \/ Acks) /\ s \in State
      BY <1>1, NowIs, ApplyClose, EndDelta, ApplyTypes
    <3> HIDE DEF s
    <3>3. Moves(s, Apply(s, Finished), s.committed, s.tail, s.finalAt, s.seen, TRUE)
      BY <3>2, ApplyFinished
    <3>4. Moves(s, Apply(s, Finished), committed, <<>>, Len(committed), seen, TRUE)
      BY <3>2, <3>3 DEF Moves
    <3> QED BY <1>1, <3>1, <3>4, EndDelta, ReceiveTwo DEF s
  <2>2. CASE ~open
    <3>1. Receive(<<Finished>>)
      BY <1>1, <2>2
    <3>2. tail = <<>> /\ finalAt = Len(committed)
      BY <1>1, <2>2 DEF TextOK, ClosedOK, Closed
    <3>3. Moves(Now, Apply(Now, Finished), committed, tail, finalAt, seen, TRUE)
      BY <1>1, NowIs, ApplyFinished
    <3> QED BY <1>1, <3>1, <3>2, <3>3, EndDelta, ReceiveOne
  <2> QED BY <2>1, <2>2
<1>3. WordsOK'
  BY <1>1, <1>2 DEF TextOK, WordsOK, Held, Takes
<1>4. SeenOK'
  BY <1>1, <1>2 DEF TextOK, SeenOK, Takes
<1>5. ClosedOK'
  BY <1>1, <1>2 DEF ClosedOK, Closed, Takes
<1> QED BY <1>2, <1>3, <1>4, <1>5 DEF TextOK

----------------------------------------------------------------------------
(* assemblyai and gladia: a final carries the id of its utterance.         *)

\* What is heard of the utterance under way leaves the committed text alone.
LEMMA PartialStep ==
  ASSUME TypeOK, TextOK, provider \in {"assemblyai", "gladia"}, speaking <= MaxUtterance, provider' = provider,
         ~acked, NEW k \in 1..Pieces, Receive(<<Partial(Words(speaking, 1, k))>>), spoken' = k,
         speaking' = speaking, lastTurn' = lastTurn
  PROVE  TextTypes' /\ TextOK'
<1> DEFINE w == Words(speaking, 1, k)
<1>1. w \in Seq(Word) /\ k # 0 /\ TextTypes
  <2>1. k \in 0..Pieces /\ k # 0
    BY DialectAssumption DEF DialectAssumption
  <2> QED BY <2>1, UnderWay, TypesAre
<1> HIDE DEF w
<1>2. TextTypes' /\ Takes(committed, w, finalAt, seen, acked)
  <2> DEFINE d == Partial(w)
  <2>1. d \in Delta
    BY <1>1, TextDelta
  <2>2. Moves(Now, Apply(Now, d), Now.committed, w, Now.finalAt, Now.seen, Now.acked)
    BY <1>1, NowIs, ApplyPartial
  <2>3. Receive(<<d>>)
    BY DEF w
  <2> HIDE DEF d
  <2> QED BY <1>1, <2>1, <2>2, <2>3, NowIs, ReceiveOne
<1>3. WordsOK'
  BY <1>2 DEF TextOK, WordsOK, Held, Takes
<1>4. SeenOK'
  BY <1>2 DEF TextOK, SeenOK, Takes
<1>5. ClosedOK'
  BY <1>1, <1>2 DEF TextOK, ClosedOK, Takes
<1> QED BY <1>2, <1>3, <1>4, <1>5 DEF TextOK

LEMMA AssemblyTurnStep ==
  ASSUME TypeOK, TextOK, AssemblyTurn
  PROVE  TextTypes' /\ TextOK'
<1>1. PICK k \in 1..Pieces : Receive(<<Partial(Words(speaking, 1, k))>>) /\ spoken' = k
  BY DEF AssemblyTurn
<1>2. /\ provider \in {"assemblyai", "gladia"} /\ speaking <= MaxUtterance /\ provider' = provider /\ ~acked
      /\ speaking' = speaking /\ lastTurn' = lastTurn
  BY DEF AssemblyTurn, Speaking, Listening, adapterVars
<1> QED BY <1>1, <1>2, PartialStep

LEMMA GladiaPartialStep ==
  ASSUME TypeOK, TextOK, GladiaPartial
  PROVE  TextTypes' /\ TextOK'
<1>1. PICK k \in 1..Pieces : Receive(<<Partial(Words(speaking, 1, k))>>) /\ spoken' = k
  BY DEF GladiaPartial
<1>2. /\ provider \in {"assemblyai", "gladia"} /\ speaking <= MaxUtterance /\ provider' = provider /\ ~acked
      /\ speaking' = speaking /\ lastTurn' = lastTurn
  BY DEF GladiaPartial, Speaking, Listening, adapterVars
<1> QED BY <1>1, <1>2, PartialStep

\* The final of the utterance under way commits all of it.
LEMMA TurnFinalStep ==
  ASSUME TypeOK, TextOK, provider \in {"assemblyai", "gladia"}, speaking <= MaxUtterance, provider' = provider,
         ~acked, Receive(<<Final(Words(speaking, 1, Pieces), <<speaking, 0>>)>>), spoken' = 0,
         speaking' = speaking + 1, provider = "assemblyai" => lastTurn' = speaking
  PROVE  TextTypes' /\ TextOK'
<1> DEFINE w == Words(speaking, 1, Pieces)  c == committed \o w  id == <<speaking, 0>>  i == seen \cup {id}
           z == 0
<1>1. /\ TextTypes /\ speaking \in Utterances /\ speaking \in Nat /\ committed \in Seq(Word) /\ seen \subseteq Id
      /\ Pieces \in 0..Pieces /\ Pieces \in z..Pieces /\ z \in 0..Pieces /\ z + 1 = 1
      /\ provider # "openai" /\ provider \notin {"qwen", "deepgram"}
  BY UnderWay, TypesAre, DialectAssumption DEF DialectAssumption, TextTypes
<1>2. w \in Seq(Word)
  BY <1>1, UnderWay
<1>3. id \in Id /\ id # NoId
  BY <1>1, NoIdIsNone DEF Id
<1>4. \A u \in Utterances : <<u, 0>> \in seen <=> u < speaking
  BY DEF TextOK, SeenOK
<1>5. id \notin seen
  BY <1>1, <1>4
<1> HIDE DEF z
<1>6. Standing(committed, speaking, z)
  BY <1>1 DEF TextOK, WordsOK, Held, z
<1>7. c \in Seq(Word) /\ Standing(c, speaking, Pieces)
  <2>1. c = committed \o Words(speaking, z + 1, Pieces)
    BY <1>1
  <2> HIDE DEF c
  <2> QED BY <1>1, <1>6, <2>1, StandingGrows
<1>8. Standing(c, speaking + 1, 0)
  BY <1>1, <1>7, StandingNext
<1>9. \A u \in Utterances : <<u, 0>> \in i <=> u < speaking + 1
  <2> TAKE u \in Utterances
  <2>1. u \in Nat
    BY DEF Utterances
  <2>2. <<u, 0>> \in i <=> <<u, 0>> \in seen \/ u = speaking
    BY PairIs
  <2> QED BY <1>1, <1>4, <2>1, <2>2
<1>10. i \in SUBSET Id
  BY <1>1, <1>3
<1> HIDE DEF w, c, id, i
<1>11. TextTypes' /\ Takes(c, <<>>, Len(c), i, acked \/ Acks)
  <2> DEFINE d == Final(w, id)
  <2>1. d \in Delta
    BY <1>2, <1>3, IdDelta
  <2>2. Moves(Now, Apply(Now, d), c, <<>>, Len(c), i, Now.acked \/ Acks)
    <3>1. Now \in State /\ c = Now.committed \o w /\ i = Now.seen \cup {id} /\ id \in Id \cup {NoId} /\ id \notin Now.seen
      BY <1>1, <1>3, <1>5, NowIs DEF c, i
    <3> QED BY <1>2, <1>3, <1>7, <1>10, <3>1, ApplyFinal
  <2>3. Receive(<<d>>)
    BY DEF w, id
  <2> HIDE DEF d
  <2> QED BY <1>1, <2>1, <2>2, <2>3, NowIs, ReceiveOne
<1>12. ~acked'
  BY <1>1, <1>11 DEF Takes, Acks
<1>13. WordsOK'
  BY <1>1, <1>8, <1>11 DEF WordsOK, Held, Takes
<1>14. SeenOK'
  BY <1>1, <1>9, <1>11 DEF SeenOK, Takes
<1>15. ClosedOK'
  BY <1>1, <1>11, <1>12 DEF ClosedOK, Closed, Takes
<1> QED BY <1>11, <1>13, <1>14, <1>15 DEF TextOK

LEMMA AssemblyTurnEndsStep ==
  ASSUME TypeOK, TextOK, AssemblyTurnEnds
  PROVE  TextTypes' /\ TextOK'
<1>1. /\ provider \in {"assemblyai", "gladia"} /\ speaking <= MaxUtterance /\ provider' = provider /\ ~acked
      /\ speaking' = speaking + 1 /\ spoken' = 0 /\ lastTurn' = speaking
      /\ Receive(<<Final(Words(speaking, 1, Pieces), <<speaking, 0>>)>>)
  BY DEF AssemblyTurnEnds, Speaking, Listening, NextUtterance
<1> QED BY <1>1, TurnFinalStep

\* Every turn before the one under way is at most the last one that ended.
LEMMA AssemblyStaleTurnStep ==
  ASSUME TypeOK, TextOK, AssemblyStaleTurn
  PROVE  TextTypes' /\ TextOK'
<1>1. /\ provider = "assemblyai" /\ provider' = "assemblyai" /\ ~acked /\ lastTurn' = lastTurn
      /\ speaking' = speaking /\ spoken' = spoken /\ TextTypes
  BY TypesAre DEF AssemblyStaleTurn, Listening, speechVars, adapterVars
<1>2. PICK turn \in 1..(speaking - 1) :
        Receive(IF turn <= lastTurn THEN <<>> ELSE <<Partial(Words(turn, 1, Pieces))>>)
  BY DEF AssemblyStaleTurn
<1>3. turn <= lastTurn
  <2>1. lastTurn + 1 = speaking /\ lastTurn \in Nat /\ speaking \in Nat
    BY <1>1, DialectAssumption DEF DialectAssumption, TypeOK, TextOK, SeenOK
  <2> QED BY <2>1
<1>4. Receive(<<>>)
  BY <1>2, <1>3
<1>5. TextTypes' /\ Takes(committed, tail, finalAt, seen, acked)
  BY <1>1, <1>4, ReceiveNone DEF Takes
<1>6. WordsOK'
  BY <1>1, <1>5 DEF TextOK, WordsOK, Held, Takes
<1>7. SeenOK'
  BY <1>1, <1>5 DEF TextOK, SeenOK, Takes
<1>8. ClosedOK'
  BY <1>1, <1>5 DEF TextOK, ClosedOK, Closed, Takes
<1> QED BY <1>5, <1>6, <1>7, <1>8 DEF TextOK

LEMMA GladiaFinalStep ==
  ASSUME TypeOK, TextOK, GladiaFinal
  PROVE  /\ TextTypes' /\ TextOK' /\ speaking' \in 1..(MaxUtterance + 1) /\ spoken' \in 0..Pieces
<1>1. provider = "gladia" /\ provider' = provider /\ ~acked /\ TextTypes /\ lastTurn' = lastTurn
  BY TypesAre DEF GladiaFinal, Listening, adapterVars
<1>2. PICK u \in 1..speaking :
        /\ u <= MaxUtterance /\ (u < speaking => Quiet)
        /\ Receive(<<Final(Words(u, 1, Pieces), <<u, 0>>)>>)
        /\ IF u = speaking THEN NextUtterance ELSE UNCHANGED <<speaking, spoken>>
  BY DEF GladiaFinal
<1>3. /\ speaking \in Nat /\ MaxUtterance \in Nat /\ Pieces \in Nat /\ u \in Nat /\ u \in Utterances
      /\ speaking \in 1..(MaxUtterance + 1) /\ spoken \in 0..Pieces /\ committed \in Seq(Word) /\ seen \in SUBSET Id
  <2>1. speaking \in Nat /\ MaxUtterance \in Nat /\ Pieces \in Nat /\ speaking \in 1..(MaxUtterance + 1)
        /\ spoken \in 0..Pieces /\ committed \in Seq(Word) /\ seen \in SUBSET Id
    BY DialectAssumption DEF DialectAssumption, TypeOK, Id
  <2> QED BY <1>2, <2>1 DEF Utterances
<1>4. CASE u = speaking
  <2>1. /\ speaking <= MaxUtterance /\ speaking' = speaking + 1 /\ spoken' = 0
        /\ Receive(<<Final(Words(speaking, 1, Pieces), <<speaking, 0>>)>>)
    BY <1>2, <1>4 DEF NextUtterance
  <2>2. TextTypes' /\ TextOK'
    BY <1>1, <2>1, TurnFinalStep
  <2> QED BY <1>3, <2>1, <2>2
<1>5. CASE u # speaking
  <2> DEFINE w == Words(u, 1, Pieces)  id == <<u, 0>>
  <2>1. u < speaking /\ spoken = 0 /\ speaking' = speaking /\ spoken' = spoken
    BY <1>2, <1>3, <1>5 DEF Quiet
  <2>2. w \in Seq(Word)
    <3>1. Pieces \in 0..Pieces
      BY <1>3
    <3> QED BY <1>3, <3>1, FirstWords
  <2>3. id \in Id /\ id # NoId /\ id \in seen
    <3>1. 0 \in 0..Pieces
      BY <1>3
    <3> QED BY <1>1, <1>3, <2>1, <3>1, NoIdIsNone DEF Id, TextOK, SeenOK
  <2> HIDE DEF w, id
  <2>4. TextTypes' /\ Takes(committed, <<>>, Len(committed), seen, acked \/ Acks)
    <3> DEFINE d == Final(w, id)
    <3>1. d \in Delta
      BY <2>2, <2>3, IdDelta
    <3>2. Moves(Now, Apply(Now, d), committed, <<>>, Len(committed), seen, Now.acked \/ Acks)
      <4>1. Now \in State /\ committed = Now.committed /\ seen = Now.seen /\ id \in Id \cup {NoId} /\ id \in Now.seen
        BY <1>1, <2>3, NowIs
      <4> QED BY <1>3, <2>2, <2>3, <4>1, ApplyFinal
    <3>3. Receive(<<d>>)
      BY <1>2 DEF w, id
    <3> HIDE DEF d
    <3> QED BY <1>1, <3>1, <3>2, <3>3, NowIs, ReceiveOne
  <2>5. ~acked'
    BY <1>1, <2>4 DEF Takes, Acks
  <2>6. WordsOK'
    BY <1>1, <2>1, <2>4 DEF TextOK, WordsOK, Held, Takes
  <2>7. SeenOK'
    BY <1>1, <2>1, <2>4 DEF TextOK, SeenOK, Takes
  <2>8. ClosedOK'
    BY <1>1, <2>1, <2>4, <2>5 DEF ClosedOK, Closed, Takes
  <2> QED BY <1>3, <2>1, <2>4, <2>6, <2>7, <2>8 DEF TextOK
<1> QED BY <1>4, <1>5

LEMMA ProviderFinishedStep ==
  ASSUME TypeOK, TextOK, ProviderFinished
  PROVE  TextTypes' /\ TextOK'
<1>1. /\ provider \in {"qwen", "assemblyai", "gladia"} /\ provider # "openai" /\ provider' = provider
      /\ Quiet /\ Receive(<<Finished>>) /\ speaking' = speaking /\ spoken' = spoken /\ lastTurn' = lastTurn
      /\ TextTypes
  BY TypesAre DEF ProviderFinished, speechVars, adapterVars
<1>2. Closed
  BY <1>1 DEF TextOK, ClosedOK, Closed, Quiet
<1>3. Moves(Now, Apply(Now, Finished), committed, tail, finalAt, seen, TRUE)
  BY <1>1, NowIs, ApplyFinished
<1>4. TextTypes' /\ Takes(committed, tail, finalAt, seen, TRUE)
  BY <1>1, <1>3, EndDelta, ReceiveOne
<1> QED BY <1>1, <1>2, <1>4, AcknowledgedStep

----------------------------------------------------------------------------
(* A step of a recognizer that has no segments.                            *)

\* It leaves the segments alone.
Segmentless ==
  /\ provider # "openai" /\ provider' = provider /\ TrackOK
  /\ segments' = segments /\ active' = active /\ item' = item

LEMMA SegmentlessStep ==
  ASSUME Segmentless
  PROVE  TrackOK' /\ ForwardOK'
<1>1. SegmentsOK'
  BY DEF Segmentless, TrackOK, SegmentsOK, ItemsOK
<1>2. ActiveOK'
  BY DEF Segmentless, TrackOK, ActiveOK
<1> QED BY <1>1, <1>2 DEF Segmentless, TrackOK, ForwardOK

RecognizerStep ==
  \/ ProviderFinished \/ QwenText \/ QwenCompleted
  \/ DeepgramInterim \/ DeepgramPiece \/ DeepgramSpeechFinal \/ DeepgramEnd \/ DeepgramMetadata
  \/ AssemblyTurn \/ AssemblyTurnEnds \/ AssemblyStaleTurn
  \/ GladiaPartial \/ GladiaFinal

LEMMA RecognizerTexts ==
  ASSUME TypeOK, TextOK, RecognizerStep
  PROVE  TextTypes' /\ TextOK'
BY ProviderFinishedStep, QwenTextStep, QwenCompletedStep, DeepgramInterimStep, DeepgramPieceStep,
   DeepgramSpeechFinalStep, DeepgramEndStep, DeepgramMetadataStep, AssemblyTurnStep, AssemblyTurnEndsStep,
   AssemblyStaleTurnStep, GladiaPartialStep, GladiaFinalStep DEF RecognizerStep

LEMMA RecognizerSpeech ==
  ASSUME TypeOK, TextOK, RecognizerStep
  PROVE  /\ SpeechTypes' /\ provider # "openai" /\ provider' = provider
         /\ segments' = segments /\ active' = active /\ item' = item
<1>1. /\ provider \in Providers /\ speaking \in 1..(MaxUtterance + 1) /\ spoken \in 0..Pieces
      /\ finishing \in BOOLEAN /\ open \in BOOLEAN /\ lastTurn \in 0..MaxUtterance
      /\ MaxUtterance \in Nat /\ Pieces \in Nat
  BY DialectAssumption DEF DialectAssumption, TypeOK
<1>2. speaking <= MaxUtterance => speaking + 1 \in 1..(MaxUtterance + 1) /\ speaking \in 0..MaxUtterance
  BY <1>1
<1>3. CASE ProviderFinished
  BY <1>1, <1>3 DEF ProviderFinished, speechVars, adapterVars, SpeechTypes
<1>4. CASE QwenText
  BY <1>1, <1>4 DEF QwenText, Speaking, Listening, adapterVars, SpeechTypes
<1>5. CASE QwenCompleted
  BY <1>1, <1>2, <1>5 DEF QwenCompleted, Speaking, Listening, NextUtterance, adapterVars, SpeechTypes
<1>6. CASE DeepgramInterim
  BY <1>1, <1>6 DEF DeepgramInterim, Speaking, Listening, speechVars, SpeechTypes
<1>7. CASE DeepgramPiece
  <2>1. spoken < Pieces => spoken + 1 \in 0..Pieces
    BY <1>1
  <2> QED BY <1>1, <1>7, <2>1 DEF DeepgramPiece, Speaking, Listening, SpeechTypes
<1>8. CASE DeepgramSpeechFinal
  <2>1. /\ provider = "deepgram" /\ speaking <= MaxUtterance /\ provider' = provider /\ speaking' = speaking + 1
        /\ spoken' = 0 /\ finishing' = finishing /\ open' = FALSE /\ lastTurn' = lastTurn
        /\ segments' = segments /\ active' = active /\ item' = item
    BY <1>8 DEF DeepgramSpeechFinal, Speaking, Listening, NextUtterance
  <2>2. speaking' \in 1..(MaxUtterance + 1) /\ spoken' \in 0..Pieces
    BY <1>1, <1>2, <2>1
  <2>3. finishing' \in BOOLEAN /\ open' \in BOOLEAN /\ lastTurn' \in 0..MaxUtterance /\ provider' \in Providers
    BY <1>1, <2>1
  <2> QED BY <2>1, <2>2, <2>3 DEF SpeechTypes
<1>9. CASE DeepgramEnd
  BY <1>1, <1>9, DeepgramEndStep DEF DeepgramEnd, Listening, SpeechTypes
<1>10. CASE DeepgramMetadata
  BY <1>1, <1>10 DEF DeepgramMetadata, Listening, speechVars, SpeechTypes
<1>11. CASE AssemblyTurn
  <2>1. \A k \in 1..Pieces : k \in 0..Pieces
    BY <1>1
  <2> QED BY <1>1, <1>11, <2>1 DEF AssemblyTurn, Speaking, Listening, adapterVars, SpeechTypes
<1>12. CASE AssemblyTurnEnds
  BY <1>1, <1>2, <1>12 DEF AssemblyTurnEnds, Speaking, Listening, NextUtterance, SpeechTypes
<1>13. CASE AssemblyStaleTurn
  BY <1>1, <1>13 DEF AssemblyStaleTurn, Listening, speechVars, adapterVars, SpeechTypes
<1>14. CASE GladiaPartial
  <2>1. \A k \in 1..Pieces : k \in 0..Pieces
    BY <1>1
  <2> QED BY <1>1, <1>14, <2>1 DEF GladiaPartial, Speaking, Listening, adapterVars, SpeechTypes
<1>15. CASE GladiaFinal
  BY <1>1, <1>15, GladiaFinalStep DEF GladiaFinal, Listening, adapterVars, SpeechTypes
<1> QED BY <1>3, <1>4, <1>5, <1>6, <1>7, <1>8, <1>9, <1>10, <1>11, <1>12, <1>13, <1>14, <1>15 DEF RecognizerStep

LEMMA RecognizerInv ==
  ASSUME DialectInv, RecognizerStep
  PROVE  DialectInv'
<1>1. TypeOK /\ TextOK /\ TrackOK /\ SegmentTypes
  BY TypesAre DEF DialectInv
<1>2. /\ SpeechTypes' /\ provider # "openai" /\ provider' = provider
      /\ segments' = segments /\ active' = active /\ item' = item
  BY <1>1, RecognizerSpeech
<1>3. TextTypes' /\ TextOK'
  BY <1>1, RecognizerTexts
<1>4. TrackOK' /\ ForwardOK'
  BY <1>1, <1>2, SegmentlessStep DEF Segmentless
<1>5. SegmentTypes'
  BY <1>1, <1>2 DEF SegmentTypes
<1>6. TypeOK'
  BY <1>2, <1>3, <1>5, TypesAre, PTL
<1> QED BY <1>3, <1>4, <1>6 DEF DialectInv

----------------------------------------------------------------------------
(* openai_realtime: the sequence of segments.                              *)

Segment == [id : Utterances, sent : 0..Pieces, completed : BOOLEAN]

LEMMA RisingIds ==
  ASSUME NEW segs \in Seq(Segment), Rising(segs)
  PROVE  \A i, j \in 1..Len(segs) : segs[i].id = segs[j].id => i = j
<1> SUFFICES ASSUME NEW i \in 1..Len(segs), NEW j \in 1..Len(segs), i # j PROVE segs[i].id # segs[j].id
  OBVIOUS
<1>1. segs[i].id \in Nat /\ segs[j].id \in Nat
  <2>1. segs[i] \in Segment /\ segs[j] \in Segment
    OBVIOUS
  <2> QED BY <2>1 DEF Segment, Utterances
<1>2. i < j \/ j < i
  OBVIOUS
<1>3. segs[i].id < segs[j].id \/ segs[j].id < segs[i].id
  BY <1>2 DEF Rising
<1> QED BY <1>1, <1>3

LEMMA PositionIs ==
  ASSUME NEW segs \in Seq(Segment), NEW id
  PROVE  /\ Position(segs, id) \in 0..Len(segs)
         /\ Position(segs, id) = 0 <=> \A j \in 1..Len(segs) : segs[j].id # id
         /\ Position(segs, id) # 0 => segs[Position(segs, id)].id = id
<1> DEFINE P(i) == IF i = 0 THEN \A j \in DOMAIN segs : segs[j].id # id ELSE segs[i].id = id
<1>1. \E i \in 0..Len(segs) : P(i)
  <2>1. CASE \A j \in DOMAIN segs : segs[j].id # id
    <3>1. P(0) /\ 0 \in 0..Len(segs)
      BY <2>1
    <3> QED BY <3>1
  <2>2. CASE \E j \in DOMAIN segs : segs[j].id = id
    <3>1. PICK j \in 1..Len(segs) : segs[j].id = id
      BY <2>2
    <3>2. P(j) /\ j \in 0..Len(segs)
      BY <3>1
    <3> QED BY <3>2
  <2> QED BY <2>1, <2>2
<1>2. Position(segs, id) \in 0..Len(segs) /\ P(Position(segs, id))
  BY <1>1 DEF Position
<1>3. DOMAIN segs = 1..Len(segs)
  OBVIOUS
<1> QED BY <1>2, <1>3

LEMMA RestOf ==
  ASSUME NEW S, NEW s \in Seq(S), NEW n \in 0..Len(s), NEW r, r = SubSeq(s, n + 1, Len(s))
  PROVE  r \in Seq(S) /\ Len(r) = Len(s) - n /\ \A i \in 1..(Len(s) - n) : r[i] = s[n + i]
<1>1. SubSeq(s, n + 1, Len(s)) \in Seq(S) /\ Len(SubSeq(s, n + 1, Len(s))) = Len(s) - n
  OBVIOUS
<1>2. \A i \in 1..(Len(s) - n) : SubSeq(s, n + 1, Len(s))[i] = s[n + i]
  OBVIOUS
<1> QED BY <1>1, <1>2

\* Without one of its segments a sequence keeps the others in their order.
LEMMA WithoutIs ==
  ASSUME NEW segs \in Seq(Segment), NEW id, NEW p \in 1..Len(segs), Position(segs, id) = p,
         NEW r, r = Without(segs, id)
  PROVE  /\ r \in Seq(Segment) /\ Len(r) = Len(segs) - 1
         /\ \A i \in 1..(Len(segs) - 1) : r[i] = IF i < p THEN segs[i] ELSE segs[i + 1]
<1> DEFINE n == Len(segs)  a == SubSeq(segs, 1, p - 1)  b == SubSeq(segs, p + 1, n)
<1>1. r = a \o b
  <2>1. p # 0 /\ p \in Nat /\ n \in Nat /\ p <= n
    OBVIOUS
  <2> QED BY <2>1 DEF Without, RemoveAt
<1>2. a \in Seq(Segment) /\ Len(a) = p - 1 /\ \A i \in 1..(p - 1) : a[i] = segs[i]
  OBVIOUS
<1>3. b \in Seq(Segment) /\ Len(b) = n - p /\ \A i \in 1..(n - p) : b[i] = segs[p + i]
  <2>1. p \in 0..n
    OBVIOUS
  <2> QED BY <2>1, RestOf
<1> HIDE DEF a, b
<1>4. /\ r \in Seq(Segment) /\ Len(r) = Len(a) + Len(b)
      /\ \A i \in 1..(Len(a) + Len(b)) : r[i] = IF i <= Len(a) THEN a[i] ELSE b[i - Len(a)]
  <2>1. a \in Seq(Segment) /\ b \in Seq(Segment)
    BY <1>2, <1>3
  <2> QED BY <1>1, <2>1, ConcatProperties
<1>5. Len(a) + Len(b) = n - 1 /\ n \in Nat /\ p \in Nat
  BY <1>2, <1>3
<1> HIDE DEF n
<1>6. ASSUME NEW i \in 1..(n - 1) PROVE r[i] = IF i < p THEN segs[i] ELSE segs[i + 1]
  <2>1. CASE i < p
    <3>1. i <= p - 1 /\ i \in 1..(p - 1)
      BY <1>5, <2>1
    <3> QED BY <1>2, <1>4, <1>5, <2>1, <3>1
  <2>2. CASE ~(i < p)
    <3>1. ~(i <= p - 1) /\ i - (p - 1) \in 1..(n - p) /\ p + (i - (p - 1)) = i + 1
      BY <1>5, <2>2
    <3> QED BY <1>2, <1>3, <1>4, <1>5, <2>2, <3>1
  <2> QED BY <2>1, <2>2
<1> QED BY <1>4, <1>5, <1>6 DEF n

\* Where the completed segments at the head end.
LEMMA CompletedIs ==
  ASSUME NEW segs \in Seq(Segment)
  PROVE  /\ Completed(segs) \in 0..Len(segs)
         /\ \A i \in 1..Completed(segs) : segs[i].completed
         /\ Completed(segs) < Len(segs) => ~segs[Completed(segs) + 1].completed
<1> DEFINE n == Len(segs)
           P(i) == ~segs[i].completed /\ \A j \in 1..(i - 1) : segs[j].completed
<1>1. n \in Nat /\ DOMAIN segs = 1..n
  OBVIOUS
<1>2. CASE \E i \in DOMAIN segs : ~segs[i].completed
  <2> DEFINE T == {i \in 1..n : ~segs[i].completed}  c == CHOOSE i \in DOMAIN segs : P(i)
  <2>1. T # {} /\ T \subseteq Nat
    BY <1>1, <1>2
  <2>2. PICK d \in T : \A e \in T : ~(<<e, d>> \in OpToRel(<, Nat))
    BY <2>1, NatLessThanWellFounded, WFMin
  <2>3. \A e \in T : ~(e < d)
    BY <2>1, <2>2 DEF OpToRel
  <2>4. d \in DOMAIN segs /\ ~segs[d].completed
    BY <1>1
  <2>5. \A j \in 1..(d - 1) : segs[j].completed
    <3> SUFFICES ASSUME NEW j \in 1..(d - 1), ~segs[j].completed PROVE FALSE
      OBVIOUS
    <3>1. j \in 1..n /\ j < d
      BY <1>1
    <3>2. j \in T
      BY <3>1
    <3> QED BY <2>3, <3>1, <3>2
  <2>6. P(d)
    BY <2>4, <2>5
  <2>7. c \in DOMAIN segs /\ P(c)
    BY <2>4, <2>6
  <2>8. Completed(segs) = c - 1
    BY <1>2 DEF Completed
  <2> HIDE DEF c
  <2>9. c \in 1..n /\ (c - 1) + 1 = c
    BY <1>1, <2>7
  <2> QED BY <2>7, <2>8, <2>9
<1>3. CASE ~(\E i \in DOMAIN segs : ~segs[i].completed)
  <2>1. Completed(segs) = n
    BY <1>3 DEF Completed
  <2> QED BY <1>1, <1>3, <2>1
<1> QED BY <1>2, <1>3

\* What is left when these are dropped.
DropsCompleted(segs, n, q) ==
  /\ n \in 0..Len(segs) /\ q \in Seq(Segment) /\ Len(q) = Len(segs) - n
  /\ \A i \in 1..(Len(segs) - n) : q[i] = segs[n + i]
  /\ \A i \in 1..n : segs[i].completed
  /\ q # <<>> => ~q[1].completed

LEMMA PromotedIs ==
  ASSUME NEW segs \in Seq(Segment), NEW n, n = Completed(segs), NEW q, q = Promoted(segs)
  PROVE  DropsCompleted(segs, n, q)
<1> DEFINE l == Len(segs)
<1>1. l \in Nat /\ n \in 0..l /\ (\A i \in 1..n : segs[i].completed) /\ (n < l => ~segs[n + 1].completed)
  BY CompletedIs
<1>2. q = SubSeq(segs, n + 1, l)
  BY DEF Promoted
<1>3. q \in Seq(Segment) /\ Len(q) = l - n /\ \A i \in 1..(l - n) : q[i] = segs[n + i]
  BY <1>1, <1>2, RestOf
<1>4. q # <<>> => ~q[1].completed
  <2>1. q # <<>> => l - n # 0
    BY <1>3
  <2>2. l - n # 0 => n < l /\ 1 \in 1..(l - n)
    BY <1>1
  <2> QED BY <1>1, <1>3, <2>1, <2>2
<1> QED BY <1>1, <1>3, <1>4 DEF DropsCompleted

\* A sequence that keeps some of the segments, in their order.
LEMMA RisingParts ==
  ASSUME NEW segs \in Seq(Segment), Rising(segs), NEW id
  PROVE  /\ Position(segs, id) # 0 => Rising(Without(segs, id))
         /\ Rising(Promoted(segs))
<1>1. ASSUME Position(segs, id) # 0 PROVE Rising(Without(segs, id))
  <2> DEFINE p == Position(segs, id)  r == Without(segs, id)  n == Len(segs)
  <2>1. p \in 1..n /\ n \in Nat
    BY <1>1, PositionIs
  <2>2. r \in Seq(Segment) /\ Len(r) = n - 1 /\ \A i \in 1..(n - 1) : r[i] = IF i < p THEN segs[i] ELSE segs[i + 1]
    BY <2>1, WithoutIs
  <2> HIDE DEF p, r
  <2>3. ASSUME NEW i \in 1..(n - 1), NEW j \in 1..(n - 1), i < j PROVE r[i].id < r[j].id
    <3> DEFINE a == IF i < p THEN i ELSE i + 1  b == IF j < p THEN j ELSE j + 1
    <3>1. r[i] = segs[a] /\ r[j] = segs[b]
      BY <2>2
    <3>2. a \in 1..n /\ b \in 1..n /\ a < b
      BY <2>1, <2>3
    <3>3. segs[a].id < segs[b].id
      BY <3>2 DEF Rising
    <3> QED BY <3>1, <3>3
  <2>4. DOMAIN r = 1..(n - 1)
    BY <2>2
  <2> QED BY <2>3, <2>4 DEF Rising, r
<1>2. Rising(Promoted(segs))
  <2> DEFINE n == Completed(segs)  q == Promoted(segs)  l == Len(segs)
  <2>a. l \in Nat
    OBVIOUS
  <2>1. l \in Nat /\ n \in 0..l /\ q \in Seq(Segment) /\ Len(q) = l - n /\ \A i \in 1..(l - n) : q[i] = segs[n + i]
    BY <2>a, PromotedIs DEF DropsCompleted
  <2> HIDE DEF n, q
  <2>2. ASSUME NEW i \in 1..(l - n), NEW j \in 1..(l - n), i < j PROVE q[i].id < q[j].id
    <3>1. n + i \in 1..l /\ n + j \in 1..l /\ n + i < n + j
      BY <2>1, <2>2
    <3>2. segs[n + i].id < segs[n + j].id
      BY <3>1 DEF Rising
    <3> QED BY <2>1, <3>2
  <2>3. DOMAIN q = 1..(l - n)
    BY <2>1
  <2> QED BY <2>2, <2>3 DEF Rising, q
<1> QED BY <1>1, <1>2

\* The deltas of a promotion.
LEMMA PromotedDeltasAre ==
  ASSUME NEW segs \in Seq(Segment)
  PROVE  PromotedDeltas(segs) \in Seq(Delta)
<1> DEFINE n == Completed(segs)  q == Promoted(segs)
           f == [i \in 1..n |-> Final(Words(segs[i].id, 1, segs[i].sent), NoId)]
           h == Head(q)
           g == IF q # <<>> /\ h.sent > 0 THEN <<Text(Words(h.id, 1, h.sent))>> ELSE <<>>
<1>1. n \in 0..Len(segs) /\ q \in Seq(Segment)
  BY PromotedIs DEF DropsCompleted
<1>2. \A s \in Segment : /\ Words(s.id, 1, s.sent) \in Seq(Word)
                         /\ Final(Words(s.id, 1, s.sent), NoId) \in Delta /\ Text(Words(s.id, 1, s.sent)) \in Delta
  <2> TAKE s \in Segment
  <2>1. s.id \in Utterances /\ s.sent \in 0..Pieces
    BY DEF Segment
  <2> QED BY <2>1, FirstWords, TextDelta
<1>3. f \in Seq(Delta)
  <2>1. n \in Nat /\ \A i \in 1..n : segs[i] \in Segment
    BY <1>1
  <2>2. \A i \in 1..n : f[i] \in Delta
    BY <1>2, <2>1
  <2> HIDE DEF f
  <2>3. f = [i \in 1..n |-> f[i]]
    BY DEF f
  <2> QED BY <2>1, <2>2, <2>3, IsASeq
<1>4. g \in Seq(Delta)
  <2>1. q # <<>> => h \in Segment
    BY <1>1
  <2> HIDE DEF h
  <2>2. q # <<>> => Text(Words(h.id, 1, h.sent)) \in Delta
    BY <1>2, <2>1
  <2> DEFINE t == Text(Words(h.id, 1, h.sent))
  <2> HIDE DEF t
  <2>3. q # <<>> => <<t>> \in Seq(Delta)
    BY <2>2 DEF t
  <2>4. g = IF q # <<>> /\ h.sent > 0 THEN <<t>> ELSE <<>>
    BY DEF t, h
  <2> QED BY <2>3, <2>4
<1>5. PromotedDeltas(segs) = f \o g
  BY DEF PromotedDeltas
<1> HIDE DEF f, g
<1> QED BY <1>3, <1>4, <1>5, ConcatProperties

----------------------------------------------------------------------------
(* openai_realtime: what its handlers do to the segments.                  *)

Item == [state : {"none", "open", "done", "failed"}, sent : 0..Pieces]
Matches(new, e) == e.sent = new.sent /\ e.state = IF new.completed THEN "done" ELSE "open"

\* The segment of an item that is open is one of the sequence.
LEMMA OpenHasPosition ==
  ASSUME NEW segs \in Seq(Segment), NEW it, Tracks(segs, it), NEW id \in Utterances, it[id].state = "open"
  PROVE  Position(segs, id) \in 1..Len(segs) /\ segs[Position(segs, id)].id = id
<1>1. PICK i \in 1..Len(segs) : segs[i].id = id
  BY DEF Tracks
<1>2. Position(segs, id) # 0
  BY <1>1, PositionIs
<1> QED BY <1>2, PositionIs

\* Another state of one item, and of its segment.
Replaced(segs, it, id, p, new, e, now, then) ==
  /\ now \in Seq(Segment) /\ Len(now) = Len(segs) /\ now[p] = new
  /\ \A i \in 1..Len(segs) : now[i].id = segs[i].id /\ (i # p => now[i] = segs[i])
  /\ then \in [Utterances -> Item] /\ then[id] = e /\ \A u \in Utterances : u # id => then[u] = it[u]
  /\ Tracks(now, then)

LEMMA TracksReplaced ==
  ASSUME NEW segs \in Seq(Segment), NEW it \in [Utterances -> Item], Tracks(segs, it), NEW id \in Utterances,
         NEW p \in 1..Len(segs), segs[p].id = id, NEW new \in Segment, new.id = id, NEW e \in Item, Matches(new, e),
         NEW now, now = [segs EXCEPT ![p] = new], NEW then, then = [it EXCEPT ![id] = e]
  PROVE  Replaced(segs, it, id, p, new, e, now, then)
<1> DEFINE n == Len(segs)
<1>1. n \in Nat /\ DOMAIN segs = 1..n
  OBVIOUS
<1>2. now \in Seq(Segment) /\ Len(now) = n /\ now[p] = new /\ \A i \in 1..n : i # p => now[i] = segs[i]
  OBVIOUS
<1>3. then \in [Utterances -> Item] /\ then[id] = e /\ \A u \in Utterances : u # id => then[u] = it[u]
  OBVIOUS
<1>4. \A i \in 1..n : now[i].id = segs[i].id
  BY <1>2
<1>5. \A i, j \in 1..n : segs[i].id = segs[j].id => i = j
  BY RisingIds DEF Tracks
<1>6. \A i \in 1..n : segs[i] \in Segment /\ segs[i].id \in Utterances
  <2>1. \A i \in 1..n : segs[i] \in Segment
    OBVIOUS
  <2> QED BY <2>1 DEF Segment
<1> HIDE DEF n
<1>7. Rising(now)
  <2>1. Rising(segs) /\ DOMAIN now = 1..n
    BY <1>2 DEF Tracks
  <2> QED BY <1>1, <1>4, <2>1 DEF Rising
<1>8. ASSUME NEW i \in 1..n
      PROVE  now[i].sent = then[now[i].id].sent /\ then[now[i].id].state = IF now[i].completed THEN "done" ELSE "open"
  <2>1. CASE i = p
    BY <1>2, <1>3, <2>1 DEF Matches
  <2>2. CASE i # p
    <3>1. now[i] = segs[i] /\ segs[i].id # id /\ segs[i].id \in Utterances
      BY <1>2, <1>5, <1>6, <2>2
    <3>2. then[segs[i].id] = it[segs[i].id]
      BY <1>3, <3>1
    <3> QED BY <1>1, <3>1, <3>2 DEF Tracks
  <2> QED BY <2>1, <2>2
<1>9. ASSUME NEW u \in Utterances, then[u].state = "open" PROVE \E i \in 1..n : now[i].id = u
  <2>1. CASE u = id
    BY <1>4, <2>1 DEF n
  <2>2. CASE u # id
    <3>1. it[u].state = "open"
      BY <1>3, <1>9, <2>2
    <3>2. PICK i \in 1..n : segs[i].id = u
      BY <1>1, <3>1 DEF Tracks
    <3> QED BY <1>4, <3>2
  <2> QED BY <2>1, <2>2
<1>10. Tracks(now, then)
  <2>1. DOMAIN now = 1..n
    BY <1>2
  <2> QED BY <1>7, <1>8, <1>9, <2>1 DEF Tracks
<1> QED BY <1>2, <1>3, <1>4, <1>10 DEF n, Replaced

\* Without the segment of an item that is no longer open.
LEMMA TracksWithout ==
  ASSUME NEW segs \in Seq(Segment), NEW it, Tracks(segs, it), NEW id \in Utterances,
         NEW p \in 1..Len(segs), Position(segs, id) = p, NEW then, then[id].state # "open",
         \A u \in Utterances : u # id => then[u] = it[u], NEW r, r = Without(segs, id)
  PROVE  /\ r \in Seq(Segment) /\ Len(r) = Len(segs) - 1
         /\ \A i \in 1..(Len(segs) - 1) : r[i] = IF i < p THEN segs[i] ELSE segs[i + 1]
         /\ Tracks(r, then)
<1> DEFINE n == Len(segs)
<1>1. n \in Nat /\ DOMAIN segs = 1..n /\ p \in Nat /\ p <= n /\ p # 0
  OBVIOUS
<1>2. r \in Seq(Segment) /\ Len(r) = n - 1 /\ \A i \in 1..(n - 1) : r[i] = IF i < p THEN segs[i] ELSE segs[i + 1]
  BY WithoutIs
<1>3. segs[p].id = id
  BY <1>1, PositionIs
<1>4. \A i, j \in 1..n : segs[i].id = segs[j].id => i = j
  BY RisingIds DEF Tracks
<1>5. Rising(r)
  BY <1>1, RisingParts DEF Tracks
<1>6. \A i \in 1..n : segs[i] \in Segment /\ segs[i].id \in Utterances
  <2>1. \A i \in 1..n : segs[i] \in Segment
    OBVIOUS
  <2> QED BY <2>1 DEF Segment
<1> HIDE DEF n
<1>7. ASSUME NEW i \in 1..(n - 1)
      PROVE  r[i].sent = then[r[i].id].sent /\ then[r[i].id].state = IF r[i].completed THEN "done" ELSE "open"
  <2> DEFINE a == IF i < p THEN i ELSE i + 1
  <2>1. a \in 1..n /\ a # p /\ r[i] = segs[a]
    BY <1>1, <1>2
  <2> HIDE DEF a
  <2>2. segs[a].id # id /\ segs[a].id \in Utterances
    BY <1>1, <1>3, <1>4, <1>6, <2>1 DEF n
  <2>3. then[segs[a].id] = it[segs[a].id]
    BY <2>2
  <2>4. segs[a].sent = it[segs[a].id].sent /\ it[segs[a].id].state = IF segs[a].completed THEN "done" ELSE "open"
    BY <1>1, <2>1 DEF Tracks
  <2> QED BY <2>1, <2>3, <2>4
<1>8. ASSUME NEW u \in Utterances, then[u].state = "open" PROVE \E i \in 1..(n - 1) : r[i].id = u
  <2>1. u # id /\ it[u].state = "open"
    BY <1>8
  <2>2. PICK j \in 1..n : segs[j].id = u
    BY <1>1, <2>1 DEF Tracks
  <2>3. j # p
    BY <1>3, <2>1, <2>2
  <2>4. CASE j < p
    <3>1. j \in 1..(n - 1)
      BY <1>1, <2>4
    <3> QED BY <1>2, <2>2, <2>4, <3>1
  <2>5. CASE j > p
    <3>1. j - 1 \in 1..(n - 1) /\ ~(j - 1 < p) /\ (j - 1) + 1 = j
      BY <1>1, <2>5
    <3> QED BY <1>2, <2>2, <3>1
  <2> QED BY <1>1, <2>3, <2>4, <2>5
<1>9. Tracks(r, then)
  <2>1. DOMAIN r = 1..(n - 1)
    BY <1>2
  <2> QED BY <1>5, <1>7, <1>8, <2>1 DEF Tracks
<1> QED BY <1>2, <1>9 DEF n

\* A promotion drops completed segments only, and makes the first one that is open the active one.
LEMMA TracksPromoted ==
  ASSUME NEW segs \in Seq(Segment), NEW it, Tracks(segs, it), NEW q, q = Promoted(segs)
  PROVE  q \in Seq(Segment) /\ Tracks(q, it) /\ ActiveOf(q) \in 0..MaxUtterance /\ Forwards(q, ActiveOf(q))
<1> DEFINE n == Completed(segs)  l == Len(segs)
<1>0. l \in Nat /\ DOMAIN segs = 1..l
  OBVIOUS
<1>1. /\ n \in 0..l /\ q \in Seq(Segment) /\ Len(q) = l - n
      /\ \A i \in 1..(l - n) : q[i] = segs[n + i]
      /\ \A i \in 1..n : segs[i].completed
      /\ q # <<>> => ~q[1].completed
  <2>1. DropsCompleted(segs, n, q)
    BY PromotedIs
  <2> HIDE DEF n
  <2> QED BY <2>1 DEF DropsCompleted
<1>2. Rising(q)
  BY RisingParts DEF Tracks
<1> HIDE DEF n, l
<1>3. DOMAIN q = 1..(l - n)
  BY <1>1
<1>4. \A i \in 1..(l - n) : n + i \in 1..l
  BY <1>0, <1>1
<1>5. ASSUME NEW i \in 1..(l - n)
      PROVE  q[i].sent = it[q[i].id].sent /\ it[q[i].id].state = IF q[i].completed THEN "done" ELSE "open"
  <2>1. q[i] = segs[n + i] /\ n + i \in DOMAIN segs
    BY <1>0, <1>1, <1>4
  <2> QED BY <2>1 DEF Tracks
<1>6. ASSUME NEW u \in Utterances, it[u].state = "open" PROVE \E i \in 1..(l - n) : q[i].id = u
  <2>1. PICK j \in 1..l : segs[j].id = u
    BY <1>0, <1>6 DEF Tracks
  <2>2. ~segs[j].completed
    <3>1. it[u].state = IF segs[j].completed THEN "done" ELSE "open"
      BY <1>0, <2>1 DEF Tracks
    <3> QED BY <1>6, <3>1
  <2>3. ~(j \in 1..n)
    BY <1>1, <2>2
  <2>4. j - n \in 1..(l - n) /\ n + (j - n) = j
    BY <1>0, <1>1, <2>3
  <2> QED BY <1>1, <2>1, <2>4
<1>7. Tracks(q, it)
  BY <1>2, <1>3, <1>5, <1>6 DEF Tracks
<1>8. ActiveOf(q) \in 0..MaxUtterance /\ Forwards(q, ActiveOf(q))
  <2>1. CASE q = <<>>
    <3>1. ActiveOf(q) = NoItem /\ DOMAIN q = {}
      BY <2>1 DEF ActiveOf
    <3> QED BY <3>1, DialectAssumption DEF Forwards, NoItem, DialectAssumption
  <2>2. CASE q # <<>>
    <3>1. ActiveOf(q) = q[1].id /\ 1 \in DOMAIN q /\ q[1] \in Segment
      BY <1>1, <2>2 DEF ActiveOf
    <3>2. q[1].id \in Utterances /\ q[1].id # NoItem /\ q[1].id \in 0..MaxUtterance
      BY <3>1, DialectAssumption DEF Segment, Utterances, NoItem, DialectAssumption
    <3> QED BY <1>1, <2>2, <3>1, <3>2 DEF Forwards
  <2> QED BY <2>1, <2>2
<1> QED BY <1>1, <1>7, <1>8

----------------------------------------------------------------------------
(* openai_realtime: what a promotion commits.                              *)

LEMMA BelowIsEnd ==
  ASSUME NEW c \in Seq(Word), NEW u, Below(c, u)
  PROVE  EndsAt(c, u, 0)
<1>1. Len(c) \in Nat /\ Len(c) - 0 = Len(c) /\ 0 <= Len(c) /\ DOMAIN c = 1..Len(c)
  OBVIOUS
<1> QED BY <1>1 DEF Below, EndsAt

\* What ends with words of u is below every later utterance.
LEMMA EndIsBelow ==
  ASSUME NEW c \in Seq(Word), NEW u \in Nat, NEW k \in Nat, EndsAt(c, u, k), NEW v \in Nat, u < v
  PROVE  Below(c, v)
<1> DEFINE n == Len(c)
<1>1. n \in Nat /\ k <= n /\ DOMAIN c = 1..n
  BY DEF EndsAt
<1>2. /\ \A i \in 1..(n - k) : c[i][1] < u
      /\ \A i \in 1..k : c[(n - k) + i] = <<u, i>>
  BY DEF EndsAt
<1>3. \A i \in 1..n : c[i] \in Word /\ c[i][1] \in Nat
  BY DEF Word, Utterances
<1> HIDE DEF n
<1>4. ASSUME NEW i \in 1..n PROVE c[i][1] < v
  <2>1. CASE i <= n - k
    <3>1. c[i][1] < u
      BY <1>1, <1>2, <2>1
    <3> QED BY <1>3, <3>1
  <2>2. CASE i > n - k
    <3>1. i - (n - k) \in 1..k /\ (n - k) + (i - (n - k)) = i
      BY <1>1, <2>2
    <3>2. c[i] = <<u, i - (n - k)>>
      BY <1>2, <3>1
    <3> QED BY <3>2, PairIs
  <2> QED BY <1>1, <2>1, <2>2
<1> QED BY <1>1, <1>4 DEF Below

\* A FINAL without an id, and a text, of the words of a segment.
LEMMA SegmentText ==
  ASSUME NEW s \in State, InOrder(s.committed), NEW u \in Utterances, NEW j \in 0..Pieces, NEW k \in j..Pieces,
         EndsAt(s.committed, u, j), NEW d, d \in {Final(Words(u, 1, k), NoId), Text(Words(u, 1, k))},
         NEW a, a = Apply(s, d)
  PROVE  d \in Delta /\ a \in State /\ InOrder(a.committed) /\ EndsAt(a.committed, u, k)
<1> DEFINE w == Words(u, 1, k)  c == MergeConfirmed(s.committed, w)
<1>1. k \in 0..Pieces /\ s.committed \in Seq(Word)
  BY StateFields, DialectAssumption DEF DialectAssumption
<1>2. w \in Seq(Word)
  BY <1>1, FirstWords
<1>3. c = s.committed \o Words(u, j + 1, k)
  BY <1>1, MergeAdds
<1> DEFINE m == s.committed \o Words(u, j + 1, k)
<1>4. m \in Seq(Word) /\ InOrder(m) /\ EndsAt(m, u, k)
  BY <1>1, AppendWords
<1> HIDE DEF w, c, m
<1>5. d \in Delta
  BY <1>2, TextDelta DEF w
<1>6. a \in State
  BY <1>5, ApplyTypes
<1>7. a.committed = c
  <2>1. CASE d = Text(w)
    BY <1>2, <2>1, ApplyText DEF Moves, c
  <2>2. CASE d = Final(w, NoId)
    <3> DEFINE i == s.seen
    <3>1. NoId \in Id \cup {NoId} /\ c \in Seq(Word) /\ i \in SUBSET Id /\ i = s.seen /\ c = MergeConfirmed(s.committed, w)
      BY <1>3, <1>4, StateFields DEF c, m
    <3> HIDE DEF i
    <3>2. Moves(s, Apply(s, Final(w, NoId)), c, <<>>, Len(c), i, s.acked \/ Acks)
      BY <1>2, <3>1, ApplyFinal
    <3> QED BY <2>2, <3>2 DEF Moves
  <2> QED BY <2>1, <2>2 DEF w
<1> QED BY <1>3, <1>4, <1>5, <1>6, <1>7 DEF m

\* The committed text is of utterances before those of the segments, and before sp.
Before(c, segs, n, sp) == InOrder(c) /\ Below(c, sp) /\ \A j \in (n + 1)..Len(segs) : Below(c, segs[j].id)

\* After a promotion it ends with what the new active segment has sent, or is before what is to come.
Promotes(c, q, sp) ==
  /\ InOrder(c)
  /\ q # <<>> => EndsAt(c, q[1].id, q[1].sent)
  /\ q = <<>> => Below(c, sp)

LEMMA PromotionCommits ==
  ASSUME NEW s \in State, NEW segs \in Seq(Segment), Rising(segs), NEW sp \in Nat,
         Before(s.committed, segs, 0, sp), \A j \in 1..Len(segs) : segs[j].id < sp
  PROVE  Promotes(Applied(s, PromotedDeltas(segs)).committed, Promoted(segs), sp)
<1> DEFINE n == Completed(segs)  q == Promoted(segs)  l == Len(segs)
           F == [i \in 1..n |-> Final(Words(segs[i].id, 1, segs[i].sent), NoId)]
           h == Head(q)
           g == IF q # <<>> /\ h.sent > 0 THEN <<Text(Words(h.id, 1, h.sent))>> ELSE <<>>
<1>1. DropsCompleted(segs, n, q)
  BY PromotedIs
<1>2. l \in Nat /\ n \in Nat /\ n <= l /\ q \in Seq(Segment)
  BY <1>1 DEF DropsCompleted
<1>3. \A i \in 1..l : segs[i] \in Segment /\ segs[i].id \in Utterances /\ segs[i].id \in Nat /\ segs[i].sent \in 0..Pieces
  <2>1. \A i \in 1..l : segs[i] \in Segment
    OBVIOUS
  <2> QED BY <2>1 DEF Segment, Utterances
<1>4. \A i \in 1..n : i \in 1..l
  BY <1>2
<1>5. \A i \in 1..n : F[i] = Final(Words(segs[i].id, 1, segs[i].sent), NoId) /\ F[i] \in Delta
  <2> TAKE i \in 1..n
  <2>1. Words(segs[i].id, 1, segs[i].sent) \in Seq(Word)
    BY <1>3, <1>4, FirstWords
  <2> QED BY <2>1, TextDelta
<1>6. F \in Seq(Delta) /\ Len(F) = n
  <2>1. F = [i \in 1..n |-> F[i]]
    OBVIOUS
  <2> HIDE DEF F, n
  <2> QED BY <1>2, <1>5, <2>1, IsASeq
<1>7. PromotedDeltas(segs) = F \o g
  BY DEF PromotedDeltas
<1> HIDE DEF F, n
<1>8. PICK f \in [0..n -> State] : /\ f[0] = s /\ \A i \in 1..n : f[i] = Apply(f[i - 1], F[i])
                                   /\ Applied(s, F) = f[n]
  BY <1>6, AppliedRuns DEF Runs
<1> DEFINE T == {i \in 0..n : Before(f[i].committed, segs, i, sp)}
<1>9. 0 \in T
  BY <1>2, <1>8
<1>10. ASSUME NEW i \in 0..(n - 1), i \in T PROVE i + 1 \in T
  <2> DEFINE k == i + 1  u == segs[k].id  c == f[i].committed  m == f[k].committed
  <2>1. /\ i \in 0..n /\ k \in 0..n /\ k \in 1..n /\ k \in 1..l /\ k - 1 = i /\ k \in (i + 1)..l /\ k \in Nat
    BY <1>2
  <2>2. u \in Utterances /\ u \in Nat /\ segs[k].sent \in 0..Pieces /\ u < sp
    BY <1>3, <2>1
  <2>3. f[i] \in State /\ InOrder(c) /\ Below(c, u) /\ \A j \in (i + 1)..l : Below(c, segs[j].id)
    BY <1>8, <1>10, <2>1 DEF Before
  <2>4. f[k] = Apply(f[i], F[k]) /\ F[k] = Final(Words(u, 1, segs[k].sent), NoId)
    BY <1>5, <1>8, <2>1
  <2> HIDE DEF k, u
  <2>5. f[k] \in State /\ InOrder(m) /\ EndsAt(m, u, segs[k].sent) /\ m \in Seq(Word)
    <3> DEFINE z == 0
    <3>1. c \in Seq(Word) /\ EndsAt(c, u, z) /\ z \in 0..Pieces /\ segs[k].sent \in z..Pieces
      BY <2>2, <2>3, StateFields, BelowIsEnd, DialectAssumption DEF DialectAssumption
    <3> HIDE DEF z
    <3>2. f[k] \in State /\ InOrder(m) /\ EndsAt(m, u, segs[k].sent)
      BY <2>2, <2>3, <2>4, <3>1, SegmentText
    <3> QED BY <3>2, StateFields
  <2>6. segs[k].sent \in Nat
    BY <2>2, DialectAssumption DEF DialectAssumption
  <2>7. Below(m, sp)
    BY <2>2, <2>5, <2>6, EndIsBelow
  <2>8. ASSUME NEW j \in (k + 1)..l PROVE Below(m, segs[j].id)
    <3>1. j \in 1..l /\ k < j
      BY <1>2, <2>1
    <3>2. u < segs[j].id
      BY <2>1, <3>1 DEF Rising, u
    <3> QED BY <1>3, <2>2, <2>5, <2>6, <3>1, <3>2, EndIsBelow
  <2>9. Before(m, segs, k, sp)
    BY <2>5, <2>7, <2>8 DEF Before
  <2> QED BY <2>1, <2>9 DEF k
<1> HIDE DEF T
<1>11. n \in T
  <2>1. \A i \in 0..(n - 1) : i \in T => i + 1 \in T
    BY <1>10
  <2>2. \A i \in 0..n : i \in T
    BY <1>2, <1>9, <2>1, Induction
  <2> QED BY <1>2, <2>2
<1> DEFINE b == f[n]
<1>12. b \in State /\ Before(b.committed, segs, n, sp) /\ Applied(s, F) = b
  BY <1>2, <1>8, <1>11 DEF T
<1> HIDE DEF b, g, h, q
<1>13. CASE q = <<>>
  <2>1. g = <<>>
    BY <1>13 DEF g
  <2>2. F \o g = F
    BY <1>6, <2>1, ConcatEmptySeq
  <2> QED BY <1>7, <1>12, <1>13, <2>2 DEF Promotes, Before, q
<1>14. CASE q # <<>>
  <2>1. h = q[1] /\ q[1] = segs[n + 1] /\ n + 1 \in 1..l
    <3>1. Len(q) = l - n /\ \A i \in 1..(l - n) : q[i] = segs[n + i]
      BY <1>1 DEF DropsCompleted
    <3>2. Len(q) # 0 /\ h = q[1]
      BY <1>2, <1>14 DEF h
    <3>3. 1 \in 1..(l - n) /\ n + 1 \in 1..l
      BY <1>2, <3>1, <3>2
    <3> QED BY <3>1, <3>2, <3>3
  <2>2. h.id \in Utterances /\ h.sent \in 0..Pieces /\ h.sent \in Nat
    BY <1>3, <2>1, DialectAssumption DEF DialectAssumption
  <2>3. b.committed \in Seq(Word) /\ InOrder(b.committed) /\ Below(b.committed, h.id)
    BY <1>2, <1>12, <2>1, StateFields DEF Before
  <2> DEFINE z == 0
  <2>4. EndsAt(b.committed, h.id, z) /\ z \in 0..Pieces /\ h.sent \in z..Pieces
    BY <2>2, <2>3, BelowIsEnd, DialectAssumption DEF DialectAssumption
  <2>5. CASE h.sent > 0
    <3> DEFINE d == Text(Words(h.id, 1, h.sent))  a == Apply(b, d)
    <3>1. g = <<d>>
      BY <1>14, <2>5 DEF g
    <3> HIDE DEF d, z
    <3>2. d \in Delta /\ InOrder(a.committed) /\ EndsAt(a.committed, h.id, h.sent)
      BY <1>12, <2>2, <2>3, <2>4, SegmentText DEF d
    <3>3. Applied(s, F \o g) = a
      <4>1. g \in Seq(Delta)
        BY <3>1, <3>2
      <4>2. Applied(s, F \o g) = Applied(Applied(s, F), g)
        BY <1>6, <4>1, AppliedConcat
      <4> QED BY <1>12, <3>1, <4>2, AppliedOne
    <3> HIDE DEF a
    <3> QED BY <1>7, <1>14, <2>1, <3>2, <3>3 DEF Promotes, q
  <2>6. CASE ~(h.sent > 0)
    <3>1. g = <<>>
      BY <2>6 DEF g
    <3>2. F \o g = F
      BY <1>6, <3>1, ConcatEmptySeq
    <3>3. h.sent = z
      BY <2>2, <2>6
    <3> HIDE DEF z
    <3>4. EndsAt(b.committed, q[1].id, q[1].sent)
      BY <2>1, <2>4, <3>3
    <3> QED BY <1>7, <1>12, <1>14, <2>3, <3>2, <3>4 DEF Promotes, q
  <2> QED BY <2>5, <2>6
<1> QED BY <1>13, <1>14

----------------------------------------------------------------------------
(* openai_realtime: the server commits a segment.                          *)

\* A segment is one of the committed items: it comes before the next one.
LEMMA SegmentsAreSpoken ==
  ASSUME TypeOK, SegmentsOK, provider = "openai"
  PROVE  /\ segments \in Seq(Segment) /\ item \in [Utterances -> Item]
         /\ \A i \in 1..Len(segments) : segments[i].id < speaking /\ segments[i].id \in Utterances
         /\ \A u \in Utterances : item[u].state # "none" => u < speaking
<1>1. segments \in Seq(Segment) /\ item \in [Utterances -> Item] /\ speaking \in Nat
  BY DialectAssumption DEF DialectAssumption, TypeOK, Segment, Item
<1>2. ASSUME NEW u \in Utterances, item[u].state # "none" PROVE u < speaking
  <2>1. ~(u >= speaking) /\ u \in Nat
    BY <1>2 DEF SegmentsOK, ItemsOK, Utterances
  <2> QED BY <1>1, <2>1
<1>3. ASSUME NEW i \in 1..Len(segments) PROVE segments[i].id < speaking /\ segments[i].id \in Utterances
  <2>1. segments[i] \in Segment
    BY <1>1
  <2>2. segments[i].id \in Utterances
    BY <2>1 DEF Segment
  <2>3. item[segments[i].id].state = IF segments[i].completed THEN "done" ELSE "open"
    BY <1>1 DEF SegmentsOK, Tracks
  <2>4. item[segments[i].id].state # "none"
    BY <2>3
  <2> QED BY <1>2, <2>2, <2>4
<1> QED BY <1>1, <1>2, <1>3

LEMMA BelowMore ==
  ASSUME NEW c \in Seq(Word), NEW u \in Nat, NEW v \in Nat, u <= v, Below(c, u)
  PROVE  Below(c, v)
<1>1. \A i \in DOMAIN c : c[i] \in Word /\ c[i][1] \in Nat
  BY DEF Word, Utterances
<1> QED BY <1>1 DEF Below

\* With openai_realtime the texts of the others say nothing.
LEMMA OtherTexts ==
  ASSUME provider = "openai", provider' = provider
  PROVE  TextOK'
<1>1. WordsOK'
  BY DEF WordsOK
<1>2. SeenOK'
  BY DEF SeenOK
<1>3. ClosedOK'
  BY DEF ClosedOK
<1> QED BY <1>1, <1>2, <1>3 DEF TextOK

LEMMA OpenAiCommittedInv ==
  ASSUME DialectInv, OpenAiCommitted
  PROVE  DialectInv'
<1>1. /\ TypeOK /\ TextTypes /\ SpeechTypes /\ SegmentTypes /\ SegmentsOK /\ ActiveOK /\ ForwardOK
      /\ provider = "openai" /\ provider' = provider /\ speaking <= MaxUtterance
      /\ item' = [item EXCEPT ![speaking].state = "open"]
      /\ segments' = Updated(speaking, 0, FALSE)
      /\ speaking' = speaking + 1 /\ spoken' = spoken /\ finishing' = finishing /\ acked' = acked
      /\ committed' = committed /\ tail' = tail /\ finalAt' = finalAt /\ seen' = seen
      /\ open' = open /\ lastTurn' = lastTurn /\ active' = active
  BY TypesAre DEF DialectInv, TrackOK, OpenAiCommitted, Listening, textVars
<1>2. /\ segments \in Seq(Segment) /\ item \in [Utterances -> Item]
      /\ \A i \in 1..Len(segments) : segments[i].id < speaking /\ segments[i].id \in Utterances
      /\ speaking \in Utterances /\ speaking \in Nat /\ committed \in Seq(Word) /\ Pieces \in Nat
      /\ MaxUtterance \in Nat
  BY <1>1, SegmentsAreSpoken, UnderWay, DialectAssumption DEF DialectAssumption, TextTypes
<1>3. item[speaking].state = "none" /\ item[speaking].sent = 0
  BY <1>1, <1>2 DEF SegmentsOK, ItemsOK
<1> DEFINE n == Len(segments)  new == [id |-> speaking, sent |-> 0, completed |-> FALSE]
           now == Append(segments, new)  then == [item EXCEPT ![speaking].state = "open"]
<1>4. segments' = now /\ item' = then
  <2>1. Position(segments, speaking) = 0
    BY <1>2, PositionIs
  <2> QED BY <1>1, <2>1 DEF Updated
<1>5. new \in Segment /\ new.id = speaking /\ new.sent = 0 /\ ~new.completed
  BY <1>2 DEF Segment
<1>6. /\ then \in [Utterances -> Item] /\ then[speaking].state = "open" /\ then[speaking].sent = 0
      /\ \A u \in Utterances : u # speaking => then[u] = item[u]
  <2> DEFINE e == [item[speaking] EXCEPT !.state = "open"]
  <2>1. item[speaking] \in Item
    BY <1>2
  <2>2. e \in Item /\ e.state = "open" /\ e.sent = item[speaking].sent
    BY <2>1 DEF Item
  <2>3. then = [item EXCEPT ![speaking] = e]
    OBVIOUS
  <2> HIDE DEF e, then
  <2> QED BY <1>2, <1>3, <2>2, <2>3
<1> HIDE DEF new
<1>7. now \in Seq(Segment) /\ Len(now) = n + 1 /\ now[n + 1] = new /\ \A i \in 1..n : now[i] = segments[i]
  BY <1>2, <1>5
<1>8. n \in Nat /\ DOMAIN segments = 1..n /\ DOMAIN now = 1..(n + 1)
  BY <1>2, <1>7
<1> HIDE DEF n, now, then
<1>a. \A i \in 1..(n + 1) : i \in 1..n \/ i = n + 1
  BY <1>8
<1>9. Tracks(now, then)
  <2>1. Rising(now)
    <3> SUFFICES ASSUME NEW i \in 1..(n + 1), NEW j \in 1..(n + 1), i < j PROVE now[i].id < now[j].id
      BY <1>8 DEF Rising
    <3>1. i \in 1..n
      BY <1>8
    <3>2. CASE j \in 1..n
      BY <1>1, <1>7, <1>8, <3>1, <3>2 DEF SegmentsOK, Tracks, Rising
    <3>3. CASE j = n + 1
      BY <1>2, <1>5, <1>7, <3>1, <3>3 DEF n
    <3> QED BY <1>a, <3>2, <3>3
  <2>2. ASSUME NEW i \in 1..(n + 1)
        PROVE  now[i].sent = then[now[i].id].sent /\ then[now[i].id].state = IF now[i].completed THEN "done" ELSE "open"
    <3>1. CASE i \in 1..n
      <4>1. now[i] = segments[i] /\ segments[i].id # speaking /\ segments[i].id \in Utterances
        BY <1>2, <1>7, <3>1 DEF n
      <4>2. then[segments[i].id] = item[segments[i].id]
        BY <1>6, <4>1
      <4> QED BY <1>1, <1>8, <3>1, <4>1, <4>2 DEF SegmentsOK, Tracks
    <3>2. CASE i = n + 1
      BY <1>5, <1>6, <1>7, <3>2
    <3> QED BY <1>a, <3>1, <3>2
  <2>3. ASSUME NEW u \in Utterances, then[u].state = "open" PROVE \E i \in 1..(n + 1) : now[i].id = u
    <3>1. CASE u = speaking
      BY <1>5, <1>7, <1>8, <3>1
    <3>2. CASE u # speaking
      <4>1. item[u].state = "open"
        BY <1>6, <2>3, <3>2
      <4>2. PICK i \in 1..n : segments[i].id = u
        BY <1>1, <1>8, <4>1 DEF SegmentsOK, Tracks
      <4>3. i \in 1..(n + 1)
        BY <1>8
      <4> QED BY <1>7, <4>2, <4>3
    <3> QED BY <3>1, <3>2
  <2> QED BY <1>8, <2>1, <2>2, <2>3 DEF Tracks
<1>10. ItemsOK(then, speaking + 1)
  <2> SUFFICES ASSUME NEW u \in Utterances
               PROVE  /\ then[u].state = "done" => then[u].sent = Pieces
                      /\ then[u].state = "none" <=> u >= speaking + 1
                      /\ then[u].state = "none" => then[u].sent = 0
    BY <1>1 DEF ItemsOK
  <2>1. u \in Nat
    BY DEF Utterances
  <2>2. CASE u = speaking
    BY <1>2, <1>6, <2>2
  <2>3. CASE u # speaking
    <3>1. then[u] = item[u]
      BY <1>6, <2>3
    <3>2. /\ item[u].state = "done" => item[u].sent = Pieces
          /\ item[u].state = "none" <=> u >= speaking
          /\ item[u].state = "none" => item[u].sent = 0
      BY <1>1 DEF SegmentsOK, ItemsOK
    <3>3. u >= speaking <=> u >= speaking + 1
      BY <1>2, <2>1, <2>3
    <3> QED BY <3>1, <3>2, <3>3
  <2> QED BY <2>2, <2>3
<1>11. Forwards(now, active)
  <2>1. active # NoItem => \E i \in 1..n : segments[i].id = active /\ ~segments[i].completed
    BY <1>1, <1>8 DEF ActiveOK, Forwards
  <2>2. active = NoItem => \A i \in 1..n : segments[i].sent = 0 /\ ~segments[i].completed
    BY <1>1, <1>8 DEF ActiveOK, Forwards
  <2>3. \A i \in 1..n : i \in 1..(n + 1)
    BY <1>8
  <2>4. active # NoItem => \E i \in 1..(n + 1) : now[i].id = active /\ ~now[i].completed
    BY <1>7, <2>1, <2>3
  <2>5. active = NoItem => \A i \in 1..(n + 1) : now[i].sent = 0 /\ ~now[i].completed
    BY <1>5, <1>7, <1>a, <2>2
  <2> QED BY <1>8, <2>4, <2>5 DEF Forwards
<1>12. ASSUME FirstComeFirst PROVE Begun(then) /\ Forwarded(now, then, active, committed, speaking + 1)
  <2>1. Begun(item) /\ Forwarded(segments, item, active, committed, speaking)
    BY <1>1, <1>12 DEF ForwardOK
  <2>2. \A u \in Utterances : then[u].sent = item[u].sent
    BY <1>3, <1>6
  <2>3. Begun(then)
    <3> SUFFICES ASSUME NEW u \in Utterances, then[u].sent > 0, NEW v \in 1..(u - 1)
                 PROVE  then[v].sent > 0 \/ then[v].state \in {"done", "failed"}
      BY DEF Begun
    <3>1. v \in Utterances
      BY <1>2 DEF Utterances
    <3>2. item[v].sent > 0 \/ item[v].state \in {"done", "failed"}
      BY <2>1, <2>2 DEF Begun
    <3>3. v # speaking
      BY <1>3, <3>2
    <3> QED BY <1>6, <3>1, <3>2, <3>3
  <2>4. active # NoItem => now[1].id = active /\ EndsAt(committed, active, then[active].sent)
    <3> SUFFICES ASSUME active # NoItem PROVE now[1].id = active /\ EndsAt(committed, active, then[active].sent)
      OBVIOUS
    <3>1. PICK i \in 1..n : segments[i].id = active
      BY <1>1, <1>8 DEF ActiveOK, Forwards
    <3>2. 1 \in 1..n /\ active \in Utterances
      BY <1>2, <1>8, <3>1 DEF n
    <3>3. segments[1].id = active /\ EndsAt(committed, active, item[active].sent)
      BY <2>1 DEF Forwarded
    <3> QED BY <1>7, <2>2, <3>2, <3>3
  <2>5. active = NoItem => Below(committed, speaking + 1) /\ \A j \in 1..(n + 1) : Below(committed, now[j].id)
    <3> SUFFICES ASSUME active = NoItem
                 PROVE  Below(committed, speaking + 1) /\ \A j \in 1..(n + 1) : Below(committed, now[j].id)
      OBVIOUS
    <3>1. Below(committed, speaking) /\ \A j \in 1..n : Below(committed, segments[j].id)
      BY <1>8, <2>1 DEF Forwarded
    <3>2. Below(committed, speaking + 1)
      BY <1>2, <3>1, BelowMore
    <3>3. \A j \in 1..(n + 1) : Below(committed, now[j].id)
      BY <1>5, <1>7, <1>a, <3>1
    <3> QED BY <3>2, <3>3
  <2> QED BY <1>8, <2>1, <2>3, <2>4, <2>5 DEF Forwarded
<1>13. TextTypes' /\ SpeechTypes'
  BY <1>1, <1>2 DEF TextTypes, SpeechTypes
<1>14. SegmentTypes'
  BY <1>1, <1>4, <1>6, <1>7 DEF SegmentTypes, Segment, Item
<1>15. TrackOK'
  <2>1. ItemsOK(item, speaking)'
    BY <1>1, <1>4, <1>10 DEF ItemsOK
  <2> QED BY <1>1, <1>4, <1>9, <1>11, <2>1 DEF TrackOK, SegmentsOK, ActiveOK
<1>16. ForwardOK'
  BY <1>1, <1>4, <1>12 DEF ForwardOK
<1>17. TextOK'
  BY <1>1, OtherTexts
<1> QED BY <1>13, <1>14, <1>15, <1>16, <1>17, TypesAre, PTL DEF DialectInv

----------------------------------------------------------------------------
(* openai_realtime: texts, completions and failures of a segment.          *)

\* Where nothing is forwarded, an item that starts is the first of the segments.
LEMMA StartsAtFirst ==
  ASSUME TypeOK, SegmentsOK, Forwards(segments, NoItem), provider = "openai", FirstComeFirst,
         NEW id \in Utterances, Starts(id), NEW p \in 1..Len(segments), segments[p].id = id
  PROVE  p = 1 /\ item[id].sent = 0
<1>1. segments \in Seq(Segment) /\ item \in [Utterances -> Item]
  BY SegmentsAreSpoken
<1>2. \A i \in 1..Len(segments) :
        /\ segments[i].sent = 0 /\ ~segments[i].completed /\ segments[i].id \in Utterances
        /\ item[segments[i].id].sent = 0 /\ item[segments[i].id].state = "open"
  <2> TAKE i \in 1..Len(segments)
  <2>1. segments[i] \in Segment
    BY <1>1
  <2>2. segments[i].sent = 0 /\ ~segments[i].completed
    BY <1>1 DEF Forwards
  <2>3. /\ segments[i].sent = item[segments[i].id].sent
        /\ item[segments[i].id].state = IF segments[i].completed THEN "done" ELSE "open"
    BY <1>1 DEF SegmentsOK, Tracks
  <2> QED BY <2>1, <2>2, <2>3 DEF Segment
<1>3. p = 1
  <2> SUFFICES ASSUME p # 1 PROVE FALSE
    OBVIOUS
  <2>1. 1 \in 1..Len(segments) /\ 1 < p /\ DOMAIN segments = 1..Len(segments)
    BY <1>1
  <2>2. segments[1].id < id
    BY <2>1 DEF SegmentsOK, Tracks, Rising
  <2>3. segments[1].id \in 1..(id - 1)
    BY <1>2, <2>1, <2>2 DEF Utterances
  <2>4. item[segments[1].id].sent > 0 \/ item[segments[1].id].state \in {"done", "failed"}
    BY <2>3 DEF Starts
  <2> QED BY <1>2, <2>1, <2>4
<1> QED BY <1>2, <1>3

\* What is committed when segment id is forwarded: words before it, then what it has sent.
LEMMA ForwardedEnds ==
  ASSUME TypeOK, SegmentsOK, ActiveOK, ForwardOK, provider = "openai", FirstComeFirst,
         NEW id \in Utterances, active = id \/ (active = NoItem /\ Starts(id)),
         NEW p \in 1..Len(segments), segments[p].id = id
  PROVE  p = 1 /\ InOrder(committed) /\ EndsAt(committed, id, item[id].sent)
<1>1. Forwarded(segments, item, active, committed, speaking)
  BY DEF ForwardOK
<1>2. segments \in Seq(Segment) /\ id # NoItem /\ committed \in Seq(Word) /\ DOMAIN segments = 1..Len(segments)
  <2>1. id # NoItem
    BY DialectAssumption DEF DialectAssumption, Utterances, NoItem
  <2>2. committed \in Seq(Word)
    BY DEF TypeOK
  <2> QED BY <2>1, <2>2, SegmentsAreSpoken
<1>3. CASE active = id
  <2>1. segments[1].id = id /\ EndsAt(committed, id, item[id].sent)
    BY <1>1, <1>2, <1>3 DEF Forwarded
  <2>2. p = 1
    <3>1. 1 \in 1..Len(segments)
      BY <1>2
    <3> QED BY <1>2, <2>1, <3>1, RisingIds DEF SegmentsOK, Tracks
  <2> QED BY <1>1, <2>1, <2>2 DEF Forwarded
<1>4. CASE active = NoItem /\ Starts(id)
  <2>1. p = 1 /\ item[id].sent = 0
    BY <1>4, StartsAtFirst DEF ActiveOK
  <2>2. Below(committed, id)
    BY <1>1, <1>2, <1>4 DEF Forwarded
  <2>3. EndsAt(committed, id, 0)
    BY <1>2, <2>2, BelowIsEnd
  <2> QED BY <1>1, <2>1, <2>3 DEF Forwarded
<1> QED BY <1>3, <1>4

\* Items that have begun stay so.
LEMMA BegunAfter ==
  ASSUME Begun(item), item \in [Utterances -> Item], NEW id \in Utterances, Starts(id), FirstComeFirst,
         NEW then, \A u \in Utterances : u # id => then[u] = item[u],
         then[id].sent > 0 \/ then[id].state = "done"
  PROVE  Begun(then)
<1> SUFFICES ASSUME NEW u \in Utterances, then[u].sent > 0, NEW v \in 1..(u - 1)
             PROVE  then[v].sent > 0 \/ then[v].state \in {"done", "failed"}
  BY DEF Begun
<1>1. v \in Utterances
  BY DialectAssumption DEF DialectAssumption, Utterances
<1>2. CASE v = id
  BY <1>2
<1>3. CASE v # id
  <2>1. then[v] = item[v]
    BY <1>1, <1>3
  <2>2. item[v].sent > 0 \/ item[v].state \in {"done", "failed"}
    <3>1. CASE u = id
      BY <3>1 DEF Starts
    <3>2. CASE u # id
      BY <3>2 DEF Begun
    <3> QED BY <3>1, <3>2
  <2> QED BY <2>1, <2>2
<1> QED BY <1>2, <1>3

\* An item that fails leaves what has begun.
LEMMA BegunFailed ==
  ASSUME Begun(item), item \in [Utterances -> Item], NEW id \in Utterances,
         NEW then, \A u \in Utterances : u # id => then[u] = item[u],
         then[id].sent = item[id].sent, then[id].state = "failed"
  PROVE  Begun(then)
<1> SUFFICES ASSUME NEW u \in Utterances, then[u].sent > 0, NEW v \in 1..(u - 1)
             PROVE  then[v].sent > 0 \/ then[v].state \in {"done", "failed"}
  BY DEF Begun
<1>1. v \in Utterances
  BY DialectAssumption DEF DialectAssumption, Utterances
<1>2. item[u].sent > 0
  OBVIOUS
<1>3. item[v].sent > 0 \/ item[v].state \in {"done", "failed"}
  BY <1>2 DEF Begun
<1> QED BY <1>1, <1>3

\* The conjuncts of the invariant after a step of openai_realtime.
OpenAiNext(segs, it, act) == segments' = segs /\ item' = it /\ active' = act
Stays ==
  /\ provider' = provider /\ speaking' = speaking /\ spoken' = spoken /\ finishing' = finishing
  /\ open' = open /\ lastTurn' = lastTurn

LEMMA OpenAiInv ==
  ASSUME DialectInv, provider = "openai", Stays, TextTypes', NEW segs, NEW it, NEW act, OpenAiNext(segs, it, act),
         segs \in Seq(Segment), it \in [Utterances -> Item], act \in 0..MaxUtterance,
         Tracks(segs, it), ItemsOK(it, speaking), Forwards(segs, act),
         FirstComeFirst => Begun(it) /\ Forwarded(segs, it, act, committed', speaking)
  PROVE  DialectInv'
<1>1. SpeechTypes'
  BY TypesAre DEF DialectInv, SpeechTypes, Stays
<1>2. SegmentTypes'
  BY DEF SegmentTypes, Segment, Item, OpenAiNext
<1>3. TrackOK'
  <2>1. ItemsOK(item, speaking)'
    BY DEF ItemsOK, OpenAiNext, Stays
  <2> QED BY <2>1 DEF TrackOK, SegmentsOK, ActiveOK, OpenAiNext
<1>4. ForwardOK'
  BY DEF ForwardOK, OpenAiNext, Stays
<1>5. TextOK'
  BY OtherTexts DEF Stays
<1> QED BY <1>1, <1>2, <1>3, <1>4, <1>5, TypesAre, PTL DEF DialectInv

LEMMA ItemsAfter ==
  ASSUME ItemsOK(item, speaking), NEW id \in Utterances, item[id].state = "open", NEW then,
         \A u \in Utterances : u # id => then[u] = item[u],
         then[id].state \in {"open", "failed"} \/ (then[id].state = "done" /\ then[id].sent = Pieces)
  PROVE  ItemsOK(then, speaking)
<1> SUFFICES ASSUME NEW u \in Utterances
             PROVE  /\ then[u].state = "done" => then[u].sent = Pieces
                    /\ then[u].state = "none" <=> provider # "openai" \/ u >= speaking
                    /\ then[u].state = "none" => then[u].sent = 0
  BY DEF ItemsOK
<1>1. CASE u = id
  BY <1>1 DEF ItemsOK
<1>2. CASE u # id
  BY <1>2 DEF ItemsOK
<1> QED BY <1>1, <1>2

\* What the invariant says where openai_realtime hears of an open segment.
LEMMA OpenSegment ==
  ASSUME DialectInv, provider = "openai", NEW id \in Utterances, item[id].state = "open",
         NEW p, p = Position(segments, id)
  PROVE  /\ TypeOK /\ TextTypes /\ SegmentsOK /\ ActiveOK /\ ForwardOK /\ Tracks(segments, item)
         /\ segments \in Seq(Segment) /\ item \in [Utterances -> Item] /\ item[id] \in Item
         /\ p \in 1..Len(segments) /\ segments[p].id = id /\ p # 0 /\ Pieces \in Nat
         /\ id \in 0..MaxUtterance /\ id # NoItem /\ id < speaking /\ active \in 0..MaxUtterance
         /\ \A i \in 1..Len(segments) : segments[i].id < speaking /\ segments[i].id \in Utterances
         /\ segments[p].sent = item[id].sent /\ ~segments[p].completed /\ ItemsOK(item, speaking)
         /\ speaking \in Nat
<1>1. TypeOK /\ TextTypes /\ SegmentsOK /\ ActiveOK /\ ForwardOK /\ Tracks(segments, item) /\ ItemsOK(item, speaking)
  BY TypesAre DEF DialectInv, TrackOK, SegmentsOK
<1>2. /\ segments \in Seq(Segment) /\ item \in [Utterances -> Item]
      /\ \A i \in 1..Len(segments) : segments[i].id < speaking /\ segments[i].id \in Utterances
      /\ \A u \in Utterances : item[u].state # "none" => u < speaking
  BY <1>1, SegmentsAreSpoken
<1>3. p \in 1..Len(segments) /\ segments[p].id = id
  BY <1>1, <1>2, OpenHasPosition
<1>4. segments[p].sent = item[id].sent /\ item[id].state = IF segments[p].completed THEN "done" ELSE "open"
  BY <1>1, <1>2, <1>3 DEF Tracks
<1>5. ~segments[p].completed
  BY <1>4
<1>6. id \in 0..MaxUtterance /\ id # NoItem /\ Pieces \in Nat /\ p # 0
  BY <1>3, DialectAssumption DEF DialectAssumption, Utterances, NoItem
<1>7. id < speaking
  BY <1>2
<1>8. active \in 0..MaxUtterance /\ speaking \in Nat
  BY <1>1, DialectAssumption DEF TypeOK, DialectAssumption
<1> QED BY <1>1, <1>2, <1>3, <1>4, <1>5, <1>6, <1>7, <1>8

LEMMA OpenAiDeltaInv ==
  ASSUME DialectInv, NEW id \in Utterances, OpenAiDelta(id)
  PROVE  DialectInv'
<1> DEFINE p == Position(segments, id)  k == item[id].sent + 1
           new == [id |-> id, sent |-> k, completed |-> FALSE]  e == [state |-> "open", sent |-> k]
           now == [segments EXCEPT ![p] = new]  then == [item EXCEPT ![id] = e]
           act == IF active = NoItem THEN id ELSE active
<1>1. /\ provider = "openai" /\ Stays /\ Starts(id) /\ item[id].state = "open" /\ item[id].sent < Pieces
      /\ item' = [item EXCEPT ![id].sent = @ + 1]
      /\ segments' = Updated(id, item'[id].sent, FALSE) /\ active' = act
      /\ Receive(IF active' = id THEN <<Text(Words(id, 1, item'[id].sent))>> ELSE <<>>)
  BY DEF OpenAiDelta, Listening, Starts, Stays
<1> HIDE DEF p
<1>2. /\ TypeOK /\ TextTypes /\ SegmentsOK /\ ActiveOK /\ ForwardOK /\ Tracks(segments, item)
      /\ segments \in Seq(Segment) /\ item \in [Utterances -> Item] /\ item[id] \in Item
      /\ p \in 1..Len(segments) /\ segments[p].id = id /\ p # 0 /\ Pieces \in Nat
      /\ id \in 0..MaxUtterance /\ id # NoItem /\ active \in 0..MaxUtterance
      /\ segments[p].sent = item[id].sent /\ ~segments[p].completed /\ ItemsOK(item, speaking)
      /\ p = Position(segments, id)
  BY <1>1, OpenSegment DEF p
<1>3. k \in 0..Pieces /\ item[id].sent \in 0..Pieces /\ k \in item[id].sent..Pieces /\ k > 0
  <2>1. item[id].sent \in 0..Pieces
    BY <1>2 DEF Item
  <2> QED BY <1>1, <1>2, <2>1
<1>4. item' = then /\ item'[id].sent = k
  <2>1. item[id] = [state |-> item[id].state, sent |-> item[id].sent]
    BY <1>2 DEF Item
  <2>2. item' = [item EXCEPT ![id] = [item[id] EXCEPT !.sent = item[id].sent + 1]]
    BY <1>1
  <2>3. [item[id] EXCEPT !.sent = item[id].sent + 1] = e
    BY <1>1, <2>1
  <2> HIDE DEF e
  <2>4. item' = then
    BY <2>2, <2>3
  <2>5. item'[id] = e
    BY <1>2, <2>4
  <2> QED BY <2>4, <2>5 DEF e
<1> HIDE DEF k
<1>5. segments' = now
  BY <1>1, <1>2, <1>4 DEF Updated
<1>6. new \in Segment /\ new.id = id /\ new.sent = k /\ ~new.completed /\ e \in Item /\ Matches(new, e)
      /\ e.state = "open" /\ e.sent = k
  BY <1>3 DEF Segment, Item, Matches
<1> HIDE DEF new, e
<1>7. /\ now \in Seq(Segment) /\ Len(now) = Len(segments) /\ now[p] = new
      /\ \A i \in 1..Len(segments) : now[i].id = segments[i].id /\ (i # p => now[i] = segments[i])
      /\ then \in [Utterances -> Item] /\ then[id] = e /\ \A u \in Utterances : u # id => then[u] = item[u]
      /\ Tracks(now, then)
  <2>1. now = [segments EXCEPT ![p] = new] /\ then = [item EXCEPT ![id] = e]
    OBVIOUS
  <2> HIDE DEF now, then
  <2>2. Replaced(segments, item, id, p, new, e, now, then)
    BY <1>2, <1>6, <2>1, TracksReplaced
  <2> QED BY <2>2 DEF Replaced
<1> HIDE DEF now, then
<1>8. ItemsOK(then, speaking)
  BY <1>1, <1>2, <1>6, <1>7, ItemsAfter
<1>9. act \in 0..MaxUtterance /\ act # NoItem /\ (active # NoItem => act = active)
      /\ (active = NoItem => act = id)
  BY <1>2
<1> HIDE DEF act
<1>10. Forwards(now, act)
  <2>1. CASE act = id
    <3>1. now[p].id = id /\ ~now[p].completed /\ p \in DOMAIN now
      BY <1>2, <1>6, <1>7
    <3> QED BY <1>9, <2>1, <3>1 DEF Forwards
  <2>2. CASE act # id
    <3>1. active = act /\ active # NoItem
      BY <1>9, <2>2
    <3>2. PICK i \in 1..Len(segments) : segments[i].id = active /\ ~segments[i].completed
      BY <1>2, <3>1 DEF ActiveOK, Forwards
    <3>3. i # p
      BY <1>2, <2>2, <3>1, <3>2
    <3>4. now[i] = segments[i] /\ i \in DOMAIN now
      BY <1>7, <3>2, <3>3
    <3> QED BY <1>9, <3>1, <3>2, <3>4 DEF Forwards
  <2> QED BY <2>1, <2>2
<1> DEFINE w == Words(id, 1, k)  d == Text(w)
<1>11. w \in Seq(Word) /\ d \in Delta
  BY <1>3, FirstWords, TextDelta
<1>12. Receive(IF act = id THEN <<d>> ELSE <<>>)
  BY <1>1, <1>4
<1>13. TextTypes' /\ (act = id => Becomes(Apply(Now, d))) /\ (act # id => committed' = committed)
  <2> HIDE DEF d
  <2>1. CASE act = id
    <3>1. Receive(<<d>>) /\ <<d>> \in Seq(Delta)
      BY <1>11, <1>12, <2>1
    <3> QED BY <1>2, <2>1, <3>1, ReceiveTypes, AppliedOne
  <2>2. CASE act # id
    BY <1>2, <1>12, <2>2, ReceiveNone
  <2> QED BY <2>1, <2>2
<1>14. ASSUME FirstComeFirst PROVE Begun(then) /\ Forwarded(now, then, act, committed', speaking)
  <2>1. Begun(item) /\ Forwarded(segments, item, active, committed, speaking)
    BY <1>1, <1>2, <1>14 DEF ForwardOK
  <2>2. then[id].sent > 0
    BY <1>3, <1>6, <1>7
  <2>3. Begun(then)
    BY <1>1, <1>2, <1>7, <1>14, <2>1, <2>2, BegunAfter
  <2>4. CASE act = id
    <3>1. active = id \/ (active = NoItem /\ Starts(id))
      BY <1>1, <1>9, <2>4
    <3>2. p = 1 /\ InOrder(committed) /\ EndsAt(committed, id, item[id].sent)
      BY <1>1, <1>2, <1>14, <3>1, ForwardedEnds
    <3> DEFINE a == Apply(Now, d)
    <3>3. InOrder(a.committed) /\ EndsAt(a.committed, id, k)
      <4>1. Now \in State /\ Now.committed = committed /\ d \in {Final(Words(id, 1, k), NoId), Text(Words(id, 1, k))}
        BY <1>2, NowIs
      <4> HIDE DEF d
      <4> QED BY <1>3, <3>2, <4>1, SegmentText
    <3> HIDE DEF d, a
    <3>4. committed' = a.committed
      BY <1>13, <2>4 DEF Becomes, a
    <3>5. now[1].id = id /\ then[id].sent = k
      BY <1>2, <1>6, <1>7, <3>2
    <3> QED BY <1>2, <2>3, <2>4, <3>3, <3>4, <3>5 DEF Forwarded
  <2>5. CASE act # id
    <3>1. active = act /\ active # NoItem /\ committed' = committed
      BY <1>9, <1>13, <2>5
    <3>2. segments[1].id = active /\ EndsAt(committed, active, item[active].sent) /\ InOrder(committed)
      BY <2>1, <3>1 DEF Forwarded
    <3>3. active \in Utterances /\ 1 \in 1..Len(segments)
      BY <1>2, <1>9, <3>1, DialectAssumption DEF Utterances, DialectAssumption, NoItem
    <3>4. now[1].id = active /\ then[active] = item[active]
      BY <1>7, <2>5, <3>1, <3>2, <3>3
    <3> QED BY <2>3, <3>1, <3>2, <3>4 DEF Forwarded
  <2> QED BY <2>4, <2>5
<1>15. OpenAiNext(now, then, act)
  BY <1>1, <1>4, <1>5 DEF OpenAiNext
<1> QED BY <1>1, <1>7, <1>8, <1>9, <1>10, <1>13, <1>14, <1>15, OpenAiInv

\* The segment after the promotion is the one that is forwarded.
LEMMA PromotedForward ==
  ASSUME NEW q \in Seq(Segment), NEW it, Tracks(q, it), NEW c, NEW sp, Promotes(c, q, sp)
  PROVE  Forwarded(q, it, ActiveOf(q), c, sp)
<1>1. CASE q = <<>>
  <2>1. ActiveOf(q) = NoItem /\ DOMAIN q = {}
    BY <1>1 DEF ActiveOf
  <2> QED BY <1>1, <2>1 DEF Promotes, Forwarded
<1>2. CASE q # <<>>
  <2>1. ActiveOf(q) = q[1].id /\ 1 \in DOMAIN q /\ q[1] \in Segment
    BY <1>2 DEF ActiveOf
  <2>2. q[1].id # NoItem
    BY <2>1, DialectAssumption DEF Segment, Utterances, NoItem, DialectAssumption
  <2>3. q[1].sent = it[q[1].id].sent
    BY <2>1 DEF Tracks
  <2> QED BY <1>2, <2>1, <2>2, <2>3 DEF Promotes, Forwarded
<1> QED BY <1>1, <1>2

\* The segments after the first are of later utterances than what ends with words of the first.
LEMMA RestIsLater ==
  ASSUME NEW segs \in Seq(Segment), Rising(segs), NEW sp \in Nat, \A i \in 1..Len(segs) : segs[i].id < sp,
         1 \in 1..Len(segs), NEW r, Len(r) = Len(segs) - 1,
         \A i \in 1..(Len(segs) - 1) : r[i].id = segs[i + 1].id,
         NEW c \in Seq(Word), InOrder(c), NEW k \in Nat, EndsAt(c, segs[1].id, k)
  PROVE  Before(c, r, 0, sp) /\ \A j \in 1..Len(r) : r[j].id < sp
<1> DEFINE n == Len(segs)
<1>1. n \in Nat /\ DOMAIN segs = 1..n
  OBVIOUS
<1>2. \A i \in 1..n : segs[i].id \in Nat /\ segs[i].id < sp
  <2>1. \A i \in 1..n : segs[i] \in Segment
    OBVIOUS
  <2> QED BY <2>1 DEF Segment, Utterances
<1> HIDE DEF n
<1>3. ASSUME NEW j \in 1..(n - 1)
      PROVE  r[j].id < sp /\ Below(c, r[j].id)
  <2>1. j + 1 \in 1..n /\ 1 < j + 1 /\ r[j].id = segs[j + 1].id /\ 1 \in 1..n
    BY <1>1 DEF n
  <2>2. segs[1].id < segs[j + 1].id
    BY <1>1, <2>1 DEF Rising
  <2> QED BY <1>2, <2>1, <2>2, EndIsBelow
<1>4. Below(c, sp)
  <2>1. 1 \in 1..n
    BY DEF n
  <2> QED BY <1>2, <2>1, EndIsBelow
<1>5. (0 + 1)..Len(r) = 1..(n - 1) /\ 1..Len(r) = 1..(n - 1)
  BY DEF n
<1> QED BY <1>3, <1>4, <1>5 DEF Before

LEMMA OpenAiCompletedInv ==
  ASSUME DialectInv, NEW id \in Utterances, OpenAiCompleted(id)
  PROVE  DialectInv'
<1> DEFINE p == Position(segments, id)  e == [state |-> "done", sent |-> Pieces]
           new == [id |-> id, sent |-> Pieces, completed |-> TRUE]
           now == [segments EXCEPT ![p] = new]  then == [item EXCEPT ![id] = e]
           rest == Without(now, id)  q == Promoted(rest)  d == Final(Words(id, 1, Pieces), NoId)
<1> HIDE DEF p, now
<1>1. /\ provider = "openai" /\ Stays /\ Starts(id) /\ item[id].state = "open" /\ item' = then
  BY DEF OpenAiCompleted, Listening, Starts, Stays
<1>2. /\ TypeOK /\ TextTypes /\ SegmentsOK /\ ActiveOK /\ ForwardOK /\ Tracks(segments, item)
      /\ segments \in Seq(Segment) /\ item \in [Utterances -> Item] /\ item[id] \in Item
      /\ p \in 1..Len(segments) /\ segments[p].id = id /\ p # 0 /\ Pieces \in Nat
      /\ id \in 0..MaxUtterance /\ id # NoItem /\ active \in 0..MaxUtterance
      /\ \A i \in 1..Len(segments) : segments[i].id < speaking /\ segments[i].id \in Utterances
      /\ ItemsOK(item, speaking) /\ p = Position(segments, id) /\ speaking \in Nat
  BY <1>1, OpenSegment DEF p
<1>a. Updated(id, Pieces, TRUE) = now
  BY <1>2 DEF Updated, now
<1>3. \/ /\ active \in {NoItem, id} /\ segments' = q /\ active' = ActiveOf(q)
         /\ Receive(<<d>> \o PromotedDeltas(rest))
      \/ /\ active \notin {NoItem, id} /\ segments' = now
         /\ active' = active /\ acked' = acked /\ committed' = committed /\ tail' = tail /\ finalAt' = finalAt
         /\ seen' = seen
  BY <1>a DEF OpenAiCompleted, textVars
<1>4. /\ new \in Segment /\ new.id = id /\ e \in Item /\ Matches(new, e)
      /\ e.state = "done" /\ e.sent = Pieces /\ Pieces \in 0..Pieces
  BY <1>2 DEF Segment, Item, Matches
<1> HIDE DEF new, e
<1>5. /\ now \in Seq(Segment) /\ Len(now) = Len(segments) /\ now[p] = new
      /\ \A i \in 1..Len(segments) : now[i].id = segments[i].id /\ (i # p => now[i] = segments[i])
      /\ then \in [Utterances -> Item] /\ then[id] = e /\ \A u \in Utterances : u # id => then[u] = item[u]
      /\ Tracks(now, then)
  <2>1. now = [segments EXCEPT ![p] = new] /\ then = [item EXCEPT ![id] = e]
    BY DEF now
  <2> HIDE DEF then
  <2>2. Replaced(segments, item, id, p, new, e, now, then)
    BY <1>2, <1>4, <2>1, TracksReplaced
  <2> QED BY <2>2 DEF Replaced
<1> HIDE DEF then
<1>6. ItemsOK(then, speaking)
  BY <1>1, <1>2, <1>4, <1>5, ItemsAfter
<1>7. Position(now, id) = p
  <2>1. now[p].id = id /\ p \in 1..Len(now)
    BY <1>2, <1>4, <1>5
  <2>2. Position(now, id) \in 1..Len(now) /\ now[Position(now, id)].id = id
    <3>1. Position(now, id) # 0
      BY <1>5, <2>1, PositionIs
    <3> QED BY <1>5, <3>1, PositionIs
  <2> QED BY <1>5, <2>1, <2>2, RisingIds DEF Tracks
<1>8. /\ rest \in Seq(Segment) /\ Len(rest) = Len(now) - 1
      /\ \A i \in 1..(Len(now) - 1) : rest[i] = IF i < p THEN now[i] ELSE now[i + 1]
      /\ Tracks(rest, then)
  <2>1. then[id].state # "open" /\ p \in 1..Len(now)
    BY <1>2, <1>4, <1>5
  <2> QED BY <1>5, <1>7, <2>1, TracksWithout
<1> HIDE DEF rest
<1>9. q \in Seq(Segment) /\ Tracks(q, then) /\ ActiveOf(q) \in 0..MaxUtterance /\ Forwards(q, ActiveOf(q))
  BY <1>8, TracksPromoted
<1>10. Begun(item) => (FirstComeFirst => Begun(then))
  BY <1>1, <1>2, <1>4, <1>5, BegunAfter
<1>11. CASE active \in {NoItem, id} /\ segments' = q /\ active' = ActiveOf(q) /\ Receive(<<d>> \o PromotedDeltas(rest))
  <2> DEFINE pd == PromotedDeltas(rest)  a == Apply(Now, d)
  <2>1. d \in Delta /\ <<d>> \in Seq(Delta) /\ pd \in Seq(Delta) /\ Now \in State /\ Now.committed = committed
    <3>1. d \in Delta
      BY <1>4, FirstWords, TextDelta
    <3> HIDE DEF d
    <3> QED BY <1>2, <1>8, <3>1, NowIs, PromotedDeltasAre
  <2>2. a \in State
    BY <2>1, ApplyTypes
  <2> HIDE DEF a, pd
  <2>3. TextTypes' /\ committed' = Applied(a, pd).committed
    <3>1. <<d>> \o pd \in Seq(Delta)
      BY <2>1, ConcatProperties
    <3>2. Applied(Now, <<d>> \o pd) = Applied(a, pd)
      <4>1. Applied(Now, <<d>> \o pd) = Applied(Applied(Now, <<d>>), pd)
        BY <2>1, AppliedConcat
      <4>2. Applied(Now, <<d>>) = a
        BY AppliedOne DEF a
      <4> QED BY <4>1, <4>2
    <3>3. TextTypes' /\ Becomes(Applied(Now, <<d>> \o pd))
      BY <1>2, <1>11, <3>1, ReceiveTypes DEF pd
    <3> QED BY <3>2, <3>3 DEF Becomes
  <2>4. ASSUME FirstComeFirst PROVE Begun(then) /\ Forwarded(q, then, ActiveOf(q), committed', speaking)
    <3>1. Begun(then)
      BY <1>1, <1>2, <1>10, <2>4 DEF ForwardOK
    <3>2. p = 1 /\ InOrder(committed) /\ EndsAt(committed, id, item[id].sent)
      BY <1>1, <1>2, <1>11, <2>4, ForwardedEnds
    <3>3. InOrder(a.committed) /\ EndsAt(a.committed, id, Pieces)
      <4>1. d \in {Final(Words(id, 1, Pieces), NoId), Text(Words(id, 1, Pieces))}
        OBVIOUS
      <4>2. item[id].sent \in 0..Pieces /\ Pieces \in item[id].sent..Pieces
        BY <1>2 DEF Item
      <4> HIDE DEF d
      <4> QED BY <2>1, <3>2, <4>1, <4>2, SegmentText DEF a
    <3>4. Before(a.committed, rest, 0, speaking) /\ \A j \in 1..Len(rest) : rest[j].id < speaking
      <4>1. \A i \in 1..(Len(now) - 1) : rest[i].id = now[i + 1].id
        <5>1. \A i \in 1..(Len(now) - 1) : ~(i < p)
          BY <3>2
        <5> QED BY <1>8, <5>1
      <4>2. now[1].id = id /\ 1 \in 1..Len(now) /\ \A i \in 1..Len(now) : now[i].id < speaking
        BY <1>2, <1>5, <3>2
      <4>3. a.committed \in Seq(Word)
        BY <2>2, StateFields
      <4>4. Rising(now)
        BY <1>5 DEF Tracks
      <4>5. EndsAt(a.committed, now[1].id, Pieces) /\ InOrder(a.committed)
        BY <3>3, <4>2
      <4>6. now \in Seq(Segment) /\ Len(rest) = Len(now) - 1 /\ Pieces \in Nat /\ speaking \in Nat
        BY <1>2, <1>5, <1>8
      <4> QED BY <4>1, <4>2, <4>3, <4>4, <4>5, <4>6, RestIsLater
    <3>5. Rising(rest)
      BY <1>8 DEF Tracks
    <3>6. Promotes(Applied(a, pd).committed, q, speaking)
      BY <1>2, <1>8, <2>2, <3>4, <3>5, PromotionCommits DEF pd
    <3> QED BY <1>9, <2>3, <3>1, <3>6, PromotedForward
  <2> HIDE DEF q
  <2>5. OpenAiNext(q, then, ActiveOf(q))
    BY <1>1, <1>11 DEF OpenAiNext
  <2> QED BY <1>1, <1>5, <1>6, <1>9, <2>3, <2>4, <2>5, OpenAiInv
<1>12. CASE /\ active \notin {NoItem, id} /\ segments' = now
            /\ active' = active /\ acked' = acked /\ committed' = committed /\ tail' = tail /\ finalAt' = finalAt
            /\ seen' = seen
  <2>1. PICK i \in 1..Len(segments) : segments[i].id = active /\ ~segments[i].completed
    BY <1>2, <1>12 DEF ActiveOK, Forwards
  <2>2. i # p /\ now[i] = segments[i] /\ i \in DOMAIN now /\ active \in Utterances
    BY <1>2, <1>5, <1>12, <2>1
  <2>3. Forwards(now, active)
    BY <1>12, <2>1, <2>2 DEF Forwards
  <2>4. TextTypes'
    BY <1>2, <1>12 DEF TextTypes
  <2>5. ASSUME FirstComeFirst PROVE Begun(then) /\ Forwarded(now, then, active, committed', speaking)
    <3>1. Begun(then)
      BY <1>1, <1>2, <1>10, <2>5 DEF ForwardOK
    <3>2. Forwarded(segments, item, active, committed, speaking)
      BY <1>1, <1>2, <2>5 DEF ForwardOK
    <3>3. segments[1].id = active /\ EndsAt(committed, active, item[active].sent) /\ InOrder(committed)
      BY <1>12, <3>2 DEF Forwarded
    <3>4. now[1].id = active /\ then[active] = item[active]
      <4>1. 1 \in 1..Len(segments)
        BY <1>2
      <4> QED BY <1>5, <1>12, <2>2, <3>3, <4>1
    <3> QED BY <1>12, <3>1, <3>3, <3>4 DEF Forwarded
  <2>6. OpenAiNext(now, then, active)
    BY <1>1, <1>12 DEF OpenAiNext
  <2> QED BY <1>1, <1>2, <1>5, <1>6, <2>3, <2>4, <2>5, <2>6, OpenAiInv
<1> QED BY <1>3, <1>11, <1>12

\* What ends a session adds no text.
LEMMA EndingAdds ==
  ASSUME NEW s \in State, NEW f, f \in {<<>>, <<Finished>>}
  PROVE  f \in Seq(Delta) /\ Applied(s, f).committed = s.committed
<1>1. CASE f = <<>>
  BY <1>1, AppliedNone
<1>2. CASE f = <<Finished>>
  <2>1. f \in Seq(Delta)
    BY <1>2, EndDelta
  <2>2. Applied(s, f) = Apply(s, Finished)
    BY <1>2, AppliedOne
  <2>3. Apply(s, Finished).committed = s.committed
    BY ApplyFinished DEF Moves
  <2> QED BY <2>1, <2>2, <2>3
<1> QED BY <1>1, <1>2

LEMMA OpenAiFailedInv ==
  ASSUME DialectInv, NEW id \in Utterances, OpenAiFailed(id)
  PROVE  DialectInv'
<1> DEFINE p == Position(segments, id)  e == [item[id] EXCEPT !.state = "failed"]
           then == [item EXCEPT ![id] = e]  rest == Without(segments, id)  q == Promoted(rest)
           left == IF active = id THEN q ELSE rest
           pd == IF active = id THEN PromotedDeltas(rest) ELSE <<>>
           fin == IF finishing /\ left = <<>> THEN <<Finished>> ELSE <<>>
           act == IF active = id THEN ActiveOf(left) ELSE active
<1> HIDE DEF p
<1>1. /\ provider = "openai" /\ Stays /\ item[id].state = "open" /\ item' = then
      /\ segments' = left /\ active' = act /\ Receive(pd \o fin)
  BY DEF OpenAiFailed, Listening, Stays
<1>2. /\ TypeOK /\ TextTypes /\ SegmentsOK /\ ActiveOK /\ ForwardOK /\ Tracks(segments, item)
      /\ segments \in Seq(Segment) /\ item \in [Utterances -> Item] /\ item[id] \in Item
      /\ p \in 1..Len(segments) /\ segments[p].id = id /\ p # 0 /\ Pieces \in Nat
      /\ id \in 0..MaxUtterance /\ id # NoItem /\ active \in 0..MaxUtterance
      /\ \A i \in 1..Len(segments) : segments[i].id < speaking /\ segments[i].id \in Utterances
      /\ ItemsOK(item, speaking) /\ p = Position(segments, id) /\ speaking \in Nat
  BY <1>1, OpenSegment DEF p
<1>3. e \in Item /\ e.state = "failed" /\ e.sent = item[id].sent
  BY <1>2 DEF Item
<1> HIDE DEF e
<1>4. then \in [Utterances -> Item] /\ then[id] = e /\ \A u \in Utterances : u # id => then[u] = item[u]
  BY <1>2, <1>3
<1> HIDE DEF then
<1>5. /\ rest \in Seq(Segment) /\ Len(rest) = Len(segments) - 1
      /\ \A i \in 1..(Len(segments) - 1) : rest[i] = IF i < p THEN segments[i] ELSE segments[i + 1]
      /\ Tracks(rest, then)
  <2>1. then[id].state # "open"
    BY <1>3, <1>4
  <2> QED BY <1>2, <1>4, <2>1, TracksWithout
<1> HIDE DEF rest
<1>6. ItemsOK(then, speaking)
  BY <1>1, <1>2, <1>3, <1>4, ItemsAfter
<1>7. FirstComeFirst => Begun(then)
  BY <1>1, <1>2, <1>3, <1>4, BegunFailed DEF ForwardOK
<1>8. fin \in {<<>>, <<Finished>>} /\ Now \in State /\ Now.committed = committed
  BY <1>2, NowIs
<1> HIDE DEF fin
<1>9. CASE active = id
  <2> DEFINE pr == PromotedDeltas(rest)  a == Applied(Now, pr)
  <2>1. q \in Seq(Segment) /\ Tracks(q, then) /\ ActiveOf(q) \in 0..MaxUtterance /\ Forwards(q, ActiveOf(q))
    BY <1>5, TracksPromoted
  <2>2. segments' = q /\ active' = ActiveOf(q) /\ Receive(pr \o fin)
    BY <1>1, <1>9
  <2>3. pr \in Seq(Delta) /\ a \in State
    BY <1>5, <1>8, PromotedDeltasAre, AppliedTypes
  <2> HIDE DEF pr
  <2>4. TextTypes' /\ committed' = a.committed
    <3>1. fin \in Seq(Delta) /\ Applied(a, fin).committed = a.committed
      BY <1>8, <2>3, EndingAdds
    <3>2. pr \o fin \in Seq(Delta)
      BY <2>3, <3>1, ConcatProperties
    <3>3. Applied(Now, pr \o fin) = Applied(a, fin)
      BY <1>8, <2>3, <3>1, AppliedConcat
    <3>4. TextTypes' /\ Becomes(Applied(Now, pr \o fin))
      BY <1>2, <2>2, <3>2, ReceiveTypes
    <3> QED BY <3>1, <3>3, <3>4 DEF Becomes
  <2>5. ASSUME FirstComeFirst PROVE Begun(then) /\ Forwarded(q, then, ActiveOf(q), committed', speaking)
    <3>1. p = 1 /\ InOrder(committed) /\ EndsAt(committed, id, item[id].sent)
      BY <1>1, <1>2, <1>9, <2>5, ForwardedEnds
    <3>2. item[id].sent \in Nat /\ committed \in Seq(Word)
      BY <1>2 DEF Item, TextTypes
    <3>3. Before(committed, rest, 0, speaking) /\ \A j \in 1..Len(rest) : rest[j].id < speaking
      <4>1. \A i \in 1..(Len(segments) - 1) : rest[i].id = segments[i + 1].id
        <5>1. \A i \in 1..(Len(segments) - 1) : ~(i < p)
          BY <3>1
        <5> QED BY <1>5, <5>1
      <4>2. 1 \in 1..Len(segments) /\ EndsAt(committed, segments[1].id, item[id].sent) /\ InOrder(committed)
        BY <1>2, <3>1
      <4>3. Rising(segments) /\ speaking \in Nat /\ \A i \in 1..Len(segments) : segments[i].id < speaking
        BY <1>2 DEF Tracks
      <4>4. segments \in Seq(Segment) /\ Len(rest) = Len(segments) - 1
        BY <1>2, <1>5
      <4> QED BY <3>2, <4>1, <4>2, <4>3, <4>4, RestIsLater
    <3>4. Rising(rest)
      BY <1>5 DEF Tracks
    <3>5. Promotes(a.committed, q, speaking)
      BY <1>2, <1>5, <1>8, <3>3, <3>4, PromotionCommits DEF pr
    <3> QED BY <1>7, <2>1, <2>4, <2>5, <3>5, PromotedForward
  <2> HIDE DEF q, a
  <2>6. OpenAiNext(q, then, ActiveOf(q))
    BY <1>1, <2>2 DEF OpenAiNext
  <2> QED BY <1>1, <1>4, <1>6, <2>1, <2>4, <2>5, <2>6, OpenAiInv
<1>10. CASE active # id
  <2>1. segments' = rest /\ active' = active /\ Receive(<<>> \o fin)
    BY <1>1, <1>10
  <2>2. TextTypes' /\ committed' = committed
    <3>1. fin \in Seq(Delta) /\ Applied(Now, fin).committed = committed
      BY <1>8, EndingAdds
    <3>2. <<>> \o fin = fin
      BY <3>1
    <3>3. TextTypes' /\ Becomes(Applied(Now, fin))
      BY <1>2, <2>1, <3>1, <3>2, ReceiveTypes
    <3> QED BY <3>1, <3>3 DEF Becomes
  <2> DEFINE n == Len(segments)
  <2>3. n \in Nat /\ DOMAIN segments = 1..n /\ DOMAIN rest = 1..(n - 1)
    BY <1>2, <1>5
  <2>4. \A i \in 1..n : i # p => \E j \in 1..(n - 1) : rest[j] = segments[i]
    <3> SUFFICES ASSUME NEW i \in 1..n, i # p PROVE \E j \in 1..(n - 1) : rest[j] = segments[i]
      OBVIOUS
    <3> DEFINE j == IF i < p THEN i ELSE i - 1
    <3>1. j \in 1..(n - 1) /\ (IF j < p THEN j ELSE j + 1) = i
      BY <1>2, <2>3
    <3> HIDE DEF j
    <3>2. rest[j] = IF j < p THEN segments[j] ELSE segments[j + 1]
      BY <1>5, <3>1
    <3>3. rest[j] = segments[i]
      BY <3>1, <3>2
    <3> QED BY <3>1, <3>3
  <2>5. \A j \in 1..(n - 1) : \E i \in 1..n : rest[j] = segments[i]
    <3> SUFFICES ASSUME NEW j \in 1..(n - 1) PROVE \E i \in 1..n : rest[j] = segments[i]
      OBVIOUS
    <3>1. j \in 1..n /\ j + 1 \in 1..n
      BY <2>3
    <3> QED BY <1>5, <3>1
  <2> HIDE DEF n
  <2>6. Forwards(rest, active)
    <3>1. active # NoItem => \E j \in DOMAIN rest : rest[j].id = active /\ ~rest[j].completed
      <4> SUFFICES ASSUME active # NoItem PROVE \E j \in DOMAIN rest : rest[j].id = active /\ ~rest[j].completed
        OBVIOUS
      <4>1. PICK i \in 1..n : segments[i].id = active /\ ~segments[i].completed
        BY <1>2, <2>3 DEF ActiveOK, Forwards
      <4>2. i # p
        BY <1>2, <1>10, <4>1
      <4> QED BY <2>3, <2>4, <4>1, <4>2
    <3>2. active = NoItem => \A j \in DOMAIN rest : rest[j].sent = 0 /\ ~rest[j].completed
      BY SMTT(30), <1>2, <2>3, <2>5 DEF ActiveOK, Forwards
    <3> QED BY <3>1, <3>2 DEF Forwards
  <2>7. ASSUME FirstComeFirst PROVE Begun(then) /\ Forwarded(rest, then, active, committed', speaking)
    <3>1. Forwarded(segments, item, active, committed, speaking)
      BY <1>1, <1>2, <2>7 DEF ForwardOK
    <3>2. active # NoItem => rest[1].id = active /\ EndsAt(committed, active, then[active].sent)
      <4> SUFFICES ASSUME active # NoItem
                   PROVE  rest[1].id = active /\ EndsAt(committed, active, then[active].sent)
        OBVIOUS
      <4>1. segments[1].id = active /\ EndsAt(committed, active, item[active].sent)
        BY <3>1 DEF Forwarded
      <4>2. active \in Utterances
        BY <1>2, DialectAssumption DEF DialectAssumption, NoItem, Utterances
      <4>3. then[active] = item[active]
        BY <1>4, <1>10, <4>2
      <4>4. p # 1
        BY <1>2, <1>10, <4>1
      <4>5. 1 \in 1..(n - 1) /\ 1 < p
        BY <1>2, <2>3, <4>4 DEF n
      <4>6. rest[1] = segments[1]
        BY <1>5, <4>5 DEF n
      <4> QED BY <4>1, <4>3, <4>6
    <3>3. active = NoItem => Below(committed, speaking) /\ \A j \in DOMAIN rest : Below(committed, rest[j].id)
      BY <2>3, <2>5, <3>1 DEF Forwarded
    <3> QED BY <1>7, <2>2, <2>7, <3>1, <3>2, <3>3 DEF Forwarded
  <2>8. OpenAiNext(rest, then, active)
    BY <1>1, <2>1 DEF OpenAiNext
  <2> QED BY <1>1, <1>2, <1>4, <1>5, <1>6, <2>2, <2>6, <2>7, <2>8, OpenAiInv
<1> QED BY <1>9, <1>10

LEMMA OpenAiCommitEmptyInv ==
  ASSUME DialectInv, OpenAiCommitEmpty
  PROVE  DialectInv'
<1>1. /\ provider = "openai" /\ Stays /\ segments' = segments /\ active' = active /\ item' = item
      /\ Receive(IF segments # <<>> THEN <<>> ELSE <<Finished>>)
  BY DEF OpenAiCommitEmpty, Listening, Stays, speechVars, adapterVars
<1> DEFINE fin == IF segments # <<>> THEN <<>> ELSE <<Finished>>
<1>2. fin \in {<<>>, <<Finished>>} /\ Receive(fin)
  BY <1>1
<1> HIDE DEF fin
<1>3. TypeOK /\ TextTypes /\ SegmentsOK /\ ActiveOK /\ ForwardOK /\ Tracks(segments, item) /\ ItemsOK(item, speaking)
  BY TypesAre DEF DialectInv, TrackOK, SegmentsOK
<1>4. /\ segments \in Seq(Segment) /\ item \in [Utterances -> Item] /\ active \in 0..MaxUtterance
      /\ Forwards(segments, active)
      /\ FirstComeFirst => Begun(item) /\ Forwarded(segments, item, active, committed, speaking)
  BY <1>1, <1>3 DEF TypeOK, Segment, Item, ActiveOK, ForwardOK
<1>5. TextTypes' /\ committed' = committed
  <2>1. fin \in Seq(Delta) /\ Applied(Now, fin).committed = committed
    BY <1>2, <1>3, NowIs, EndingAdds
  <2>2. TextTypes' /\ Becomes(Applied(Now, fin))
    BY <1>2, <1>3, <2>1, ReceiveTypes
  <2> QED BY <2>1, <2>2 DEF Becomes
<1>6. OpenAiNext(segments, item, active)
  BY <1>1 DEF OpenAiNext
<1> QED BY <1>1, <1>3, <1>4, <1>5, <1>6, OpenAiInv

----------------------------------------------------------------------------
(* The invariant.                                                          *)

LEMMA FinishMessageInv ==
  ASSUME DialectInv, FinishMessage
  PROVE  DialectInv'
<1>1. /\ finishing' = TRUE /\ provider' = provider /\ speaking' = speaking /\ spoken' = spoken /\ item' = item
      /\ acked' = acked /\ committed' = committed /\ tail' = tail /\ finalAt' = finalAt /\ seen' = seen
      /\ open' = open /\ lastTurn' = lastTurn /\ segments' = segments /\ active' = active
  BY DEF FinishMessage, speechVars, textVars, adapterVars
<1>2. TypeOK'
  BY <1>1 DEF DialectInv, TypeOK
<1>3. WordsOK' /\ SeenOK' /\ ClosedOK'
  BY <1>1 DEF DialectInv, TextOK, WordsOK, Held, SeenOK, ClosedOK, Closed
<1>4. SegmentsOK' /\ ActiveOK' /\ ForwardOK'
  BY <1>1 DEF DialectInv, TrackOK, SegmentsOK, ItemsOK, ActiveOK, ForwardOK
<1> QED BY <1>2, <1>3, <1>4 DEF DialectInv, TextOK, TrackOK

LEMMA DialectStutters ==
  ASSUME DialectInv, UNCHANGED vars
  PROVE  DialectInv'
<1>1. /\ finishing' = finishing /\ provider' = provider /\ speaking' = speaking /\ spoken' = spoken /\ item' = item
      /\ acked' = acked /\ committed' = committed /\ tail' = tail /\ finalAt' = finalAt /\ seen' = seen
      /\ open' = open /\ lastTurn' = lastTurn /\ segments' = segments /\ active' = active
  BY DEF vars, speechVars, textVars, adapterVars
<1>2. TypeOK'
  BY <1>1 DEF DialectInv, TypeOK
<1>3. WordsOK' /\ SeenOK' /\ ClosedOK'
  BY <1>1 DEF DialectInv, TextOK, WordsOK, Held, SeenOK, ClosedOK, Closed
<1>4. SegmentsOK' /\ ActiveOK' /\ ForwardOK'
  BY <1>1 DEF DialectInv, TrackOK, SegmentsOK, ItemsOK, ActiveOK, ForwardOK
<1> QED BY <1>2, <1>3, <1>4 DEF DialectInv, TextOK, TrackOK

LEMMA DialectInit ==
  ASSUME Init
  PROVE  DialectInv
<1>1. /\ provider \in Providers
      /\ speaking = 1 /\ spoken = 0 /\ finishing = FALSE /\ acked = FALSE
      /\ committed = <<>> /\ tail = <<>> /\ finalAt = 0 /\ seen = {}
      /\ open = FALSE /\ lastTurn = 0 /\ segments = <<>> /\ active = NoItem
      /\ item = [u \in Utterances |-> [state |-> "none", sent |-> 0]]
  BY DEF Init
<1>2. MaxUtterance \in Nat /\ MaxUtterance # 0 /\ Pieces \in Nat
  BY DialectAssumption DEF DialectAssumption
<1>3. /\ committed \in Seq(Word) /\ Len(committed) = 0 /\ DOMAIN committed = {} /\ DOMAIN segments = {}
      /\ tail \in Seq(Word) /\ segments \in Seq([id : Utterances, sent : 0..Pieces, completed : BOOLEAN])
  BY <1>1
<1>4. \A u \in Utterances : item[u].state = "none" /\ item[u].sent = 0 /\ u \in Nat /\ u >= 1
  BY <1>1 DEF Utterances
<1>5. TypeOK
  <2>1. item \in [Utterances -> [state : {"none", "open", "done", "failed"}, sent : 0..Pieces]]
    BY <1>1, <1>2
  <2>2. speaking \in 1..(MaxUtterance + 1) /\ spoken \in 0..Pieces /\ lastTurn \in 0..MaxUtterance
        /\ active \in 0..MaxUtterance /\ finalAt \in 0..Len(committed)
    BY <1>1, <1>2, <1>3 DEF NoItem
  <2> QED BY <1>1, <1>3, <2>1, <2>2 DEF TypeOK
<1>6. WordsOK
  <2>1. Held = 0
    BY <1>1 DEF Held
  <2>2. InOrder(committed)
    BY <1>3 DEF InOrder
  <2>3. Below(committed, 1)
    BY <1>3 DEF Below
  <2>4. EndsAt(committed, 1, 0)
    BY <1>3, <2>3, BelowIsEnd
  <2>5. Filled(committed, 1)
    BY <1>4 DEF Filled
  <2> QED BY <1>1, <2>1, <2>2, <2>4, <2>5 DEF WordsOK, Standing
<1>7. SeenOK
  <2>1. \A u \in Utterances : ~(u < 1)
    BY <1>4
  <2> QED BY <1>1, <2>1 DEF SeenOK
<1>8. ClosedOK
  BY <1>1, <1>3 DEF ClosedOK, Closed
<1>9. SegmentsOK
  <2>1. Tracks(segments, item)
    BY <1>3, <1>4 DEF Tracks, Rising
  <2>2. ItemsOK(item, speaking)
    BY <1>1, <1>4 DEF ItemsOK
  <2> QED BY <2>1, <2>2 DEF SegmentsOK
<1>10. ActiveOK
  BY <1>1, <1>3 DEF ActiveOK, Forwards
<1>11. ForwardOK
  <2>1. Begun(item)
    BY <1>4 DEF Begun
  <2>2. Forwarded(segments, item, active, committed, speaking)
    BY <1>1, <1>3 DEF Forwarded, InOrder, Below
  <2> QED BY <2>1, <2>2 DEF ForwardOK
<1> QED BY <1>5, <1>6, <1>7, <1>8, <1>9, <1>10, <1>11 DEF DialectInv, TextOK, TrackOK

\* What is committed, seen and buffered stands where the provider left it.
THEOREM DialectInvHolds == Spec => []DialectInv
<1>1. Init => DialectInv
  BY DialectInit
<1>2. DialectInv /\ [Next]_vars => DialectInv'
  <2> SUFFICES ASSUME DialectInv, [Next]_vars PROVE DialectInv'
    OBVIOUS
  <2>1. CASE FinishMessage
    BY <2>1, FinishMessageInv
  <2>2. CASE RecognizerStep
    BY <2>2, RecognizerInv
  <2>3. CASE OpenAiCommitted
    BY <2>3, OpenAiCommittedInv
  <2>4. CASE OpenAiCommitEmpty
    BY <2>4, OpenAiCommitEmptyInv
  <2>5. CASE \E id \in Utterances : OpenAiDelta(id) \/ OpenAiCompleted(id) \/ OpenAiFailed(id)
    BY <2>5, OpenAiDeltaInv, OpenAiCompletedInv, OpenAiFailedInv
  <2>6. CASE UNCHANGED vars
    BY <2>6, DialectStutters
  <2> QED BY <2>1, <2>2, <2>3, <2>4, <2>5, <2>6 DEF Next, RecognizerStep
<1> QED BY <1>1, <1>2, PTL DEF Spec

\* Of the segments a provider transcribes, those that wait, wait for one that is open, and the
\* active one is open; with it the types (SegmentsAreTracked, openai_realtime's _segments).
THEOREM SegmentsTracked == Spec => []SegmentsAreTracked
<1>1. DialectInv => SegmentsAreTracked
  <2> SUFFICES ASSUME DialectInv PROVE TypeOK /\ BufferedWaitsForOpen
    BY DEF SegmentsAreTracked
  <2>1. TypeOK /\ Forwards(segments, active)
    BY DEF DialectInv, TrackOK, ActiveOK
  <2>2. BufferedWaitsForOpen
    BY <2>1 DEF Forwards, BufferedWaitsForOpen
  <2> QED BY <2>1, <2>2
<1> QED BY <1>1, DialectInvHolds, PTL

\* When the provider has acknowledged the end, every word of the utterances it finished is
\* committed and closed by a FINAL, and nothing is left in the unstable tail.
THEOREM SessionsComplete == Spec => []SessionsAreComplete
<1>1. DialectInv => SessionsAreComplete
  <2> SUFFICES ASSUME DialectInv PROVE NothingStaysUnstable /\ UtterancesAreComplete
    BY DEF SessionsAreComplete
  <2>1. NothingStaysUnstable
    BY DEF DialectInv, TextOK, ClosedOK, Closed, NothingStaysUnstable
  <2>2. UtterancesAreComplete
    <3> SUFFICES ASSUME provider # "openai", NEW u \in 1..(speaking - 1), NEW k \in 1..Pieces
                 PROVE  <<u, k>> \in ToSet(committed)
      BY DEF UtterancesAreComplete
    <3>1. Filled(committed, speaking) /\ speaking \in 1..(MaxUtterance + 1)
      BY DEF DialectInv, TypeOK, TextOK, WordsOK, Standing
    <3>2. u \in Utterances /\ u < speaking
      BY <3>1, DialectAssumption DEF DialectAssumption, Utterances
    <3> QED BY <3>1, <3>2 DEF Filled
  <2> QED BY <2>1, <2>2
<1> QED BY <1>1, DialectInvHolds, PTL

\* Where openai_realtime begins the texts of its segments in their order (no other recognizer
\* needs that), text is committed in the order it was spoken, no word of it twice.
THEOREM SpokenInOrder == FirstComeFirst \/ "openai" \notin Providers => (Spec => []SpokenOrder)
<1> SUFFICES ASSUME FirstComeFirst \/ "openai" \notin Providers PROVE Spec => []SpokenOrder
  OBVIOUS
<1>1. DialectInv => SpokenOrder
  <2> SUFFICES ASSUME DialectInv PROVE InOrder(committed)
    BY DEF SpokenOrder, InOrder
  <2>1. CASE provider = "openai"
    <3>1. FirstComeFirst
      BY <2>1 DEF DialectInv, TypeOK
    <3> QED BY <2>1, <3>1 DEF DialectInv, ForwardOK, Forwarded
  <2>2. CASE provider # "openai"
    BY <2>2 DEF DialectInv, TextOK, WordsOK, Standing
  <2> QED BY <2>1, <2>2
<1> QED BY <1>1, DialectInvHolds, PTL

=============================================================================
