----------------------- MODULE FirestoreWritesProofs -----------------------
(***************************************************************************)
(* The inductive invariant of FirestoreWrites and the properties of the    *)
(* write stream that follow from it: the pipeline is a prefix of the       *)
(* queue, the answers are in step with it, the idle timer, the one answer  *)
(* a stream that is Starting waits for, and the batch ids.                 *)
(*                                                                         *)
(* The lemmas come first: how many answers of GetToken are in a queue,     *)
(* prefixes of a queue, and what each operator on the write stream (Start, *)
(* FillWritePipeline, Close, Retry, RestartNetwork) does to a stream that  *)
(* is in order.                                                            *)
(***************************************************************************)
EXTENDS FirestoreWrites, FiniteSetTheorems, SequenceTheorems, WellFoundedInduction, TLAPS

(* How many elements of s are in P.                                        *)
Hits(s, P) == Cardinality({i \in DOMAIN s : s[i] \in P})

OneIf(b) == IF b THEN 1 ELSE 0

(* The number of elements of s in P is a natural number.                   *)
LEMMA HitsType ==
  ASSUME NEW S, NEW s \in Seq(S), NEW P
  PROVE  IsFiniteSet({i \in DOMAIN s : s[i] \in P}) /\ Hits(s, P) \in Nat
<1>1. IsFiniteSet(DOMAIN s)
  BY FS_Interval
<1>2. IsFiniteSet({i \in DOMAIN s : s[i] \in P})
  BY <1>1, FS_Subset
<1>3. QED
  BY <1>2, FS_CardinalityType DEF Hits

(* There are none when no element of s is in P.                            *)
LEMMA HitsNone ==
  ASSUME NEW s, NEW P, \A i \in DOMAIN s : s[i] \notin P
  PROVE  Hits(s, P) = 0
<1>1. {i \in DOMAIN s : s[i] \in P} = {}
  OBVIOUS
<1>2. QED
  BY <1>1, FS_EmptySet DEF Hits

(* Two sequences whose elements are in P and in Q at the same places have  *)
(* as many of them.                                                        *)
LEMMA HitsSame ==
  ASSUME NEW s, NEW t, NEW P, NEW Q, DOMAIN s = DOMAIN t,
         \A i \in DOMAIN s : s[i] \in P <=> t[i] \in Q
  PROVE  Hits(s, P) = Hits(t, Q)
<1>1. {i \in DOMAIN s : s[i] \in P} = {i \in DOMAIN t : t[i] \in Q}
  OBVIOUS
<1>2. QED
  BY <1>1 DEF Hits

(* Append adds one when the new element is in P.                           *)
LEMMA HitsAppend ==
  ASSUME NEW S, NEW s \in Seq(S), NEW e \in S, NEW P
  PROVE  Hits(Append(s, e), P) = Hits(s, P) + OneIf(e \in P)
<1> DEFINE A == {i \in DOMAIN s : s[i] \in P}
           t == Append(s, e)
           B == {i \in DOMAIN t : t[i] \in P}
<1>1. IsFiniteSet(A) /\ Cardinality(A) \in Nat
  BY HitsType DEF Hits
<1>2. /\ DOMAIN s = 1 .. Len(s) /\ DOMAIN t = 1 .. Len(s) + 1 /\ Len(s) \in Nat
      /\ \A i \in 1 .. Len(s) : t[i] = s[i]
      /\ t[Len(s) + 1] = e
  BY AppendProperties
<1> HIDE DEF t
<1>3. CASE e \in P
  <2>1. B = A \cup {Len(s) + 1} /\ Len(s) + 1 \notin A
    BY <1>2, <1>3
  <2> HIDE DEF A, B
  <2>2. Cardinality(B) = Cardinality(A) + 1
    BY <2>1, <1>1, FS_AddElement
  <2>3. QED
    BY <2>2, <1>3 DEF Hits, OneIf, A, B, t
<1>4. CASE e \notin P
  <2>1. B = A
    BY <1>2, <1>4
  <2>2. OneIf(e \in P) = 0
    BY <1>4 DEF OneIf
  <2> HIDE DEF A, B
  <2>3. Cardinality(B) = Cardinality(A) + OneIf(e \in P)
    BY <2>1, <2>2, <1>1
  <2>4. QED
    BY <2>3 DEF Hits, A, B, t
<1>5. QED
  BY <1>3, <1>4

(* t is s without its k-th element.                                        *)
Dropped(s, k, t) ==
  /\ Len(t) = Len(s) - 1
  /\ \A i \in 1 .. Len(t) : t[i] = IF i < k THEN s[i] ELSE s[i + 1]

(* Dropping the element at k takes one away when that element is in P.     *)
LEMMA HitsDropped ==
  ASSUME NEW S, NEW s \in Seq(S), NEW t \in Seq(S), NEW k \in DOMAIN s, Dropped(s, k, t), NEW P
  PROVE  Hits(s, P) = Hits(t, P) + OneIf(s[k] \in P)
<1> DEFINE A == {i \in DOMAIN s : s[i] \in P}
           B == {i \in DOMAIN t : t[i] \in P}
           f == [i \in B |-> IF i < k THEN i ELSE i + 1]
<1>1. IsFiniteSet(A) /\ Cardinality(A) \in Nat /\ IsFiniteSet(B) /\ Cardinality(B) \in Nat
  BY HitsType DEF Hits
<1>2. /\ DOMAIN s = 1 .. Len(s) /\ DOMAIN t = 1 .. Len(s) - 1 /\ Len(s) \in Nat /\ k \in 1 .. Len(s)
      /\ \A i \in 1 .. Len(s) - 1 : t[i] = IF i < k THEN s[i] ELSE s[i + 1]
  BY DEF Dropped
<1>3. f \in Bijection(B, A \ {k})
  <2>1. f \in [B -> A \ {k}]
    BY <1>2
  <2>2. \A i, j \in B : f[i] = f[j] => i = j
    BY <1>2
  <2>3. \A j \in A \ {k} : \E i \in B : f[i] = j
    <3> SUFFICES ASSUME NEW j \in A \ {k}
                 PROVE  \E i \in B : f[i] = j
      OBVIOUS
    <3>1. CASE j < k
      BY <3>1, <1>2
    <3>2. CASE j > k
      <4>1. j - 1 \in B /\ ~(j - 1 < k)
        BY <3>2, <1>2
      <4>2. f[j - 1] = j
        BY <4>1, <1>2
      <4>3. QED
        BY <4>1, <4>2
    <3>3. j < k \/ j > k
      <4>1. j \in Int /\ k \in Int /\ j # k
        BY <1>2
      <4>2. QED
        BY <4>1
    <3>4. QED
      BY <3>1, <3>2, <3>3
  <2> HIDE DEF f, A, B
  <2>4. f \in Injection(B, A \ {k})
    BY <2>1, <2>2 DEF Injection, IsInjective
  <2>5. f \in Surjection(B, A \ {k})
    BY <2>1, <2>3 DEF Surjection
  <2>6. QED
    BY <2>4, <2>5 DEF Bijection
<1> HIDE DEF f
<1>4. IsFiniteSet(A \ {k}) /\ Cardinality(A \ {k}) = Cardinality(B)
  <2> HIDE DEF A, B
  <2>1. QED
    BY <1>1, <1>3, FS_Bijection DEF ExistsBijection
<1>5. Cardinality(A) = Cardinality(B) + OneIf(s[k] \in P)
  <2>1. CASE s[k] \in P
    <3>1. k \in A
      BY <2>1
    <3> HIDE DEF A, B
    <3>2. Cardinality(A \ {k}) = Cardinality(A) - 1
      BY <3>1, <1>1, FS_RemoveElement
    <3>3. QED
      BY <3>2, <1>1, <1>4, <2>1 DEF OneIf
  <2>2. CASE s[k] \notin P
    <3>1. A \ {k} = A
      BY <2>2
    <3>2. OneIf(s[k] \in P) = 0
      BY <2>2 DEF OneIf
    <3> HIDE DEF A, B
    <3>3. Cardinality(A) = Cardinality(B)
      BY <3>1, <1>4
    <3>4. QED
      BY <3>2, <3>3, <1>1
  <2>3. QED
    BY <2>1, <2>2
<1>6. QED
  BY <1>5 DEF Hits

(* Tail drops the first element.                                           *)
LEMMA TailDropped ==
  ASSUME NEW S, NEW s \in Seq(S), s # << >>
  PROVE  Tail(s) \in Seq(S) /\ Dropped(s, 1, Tail(s)) /\ 1 \in DOMAIN s /\ Head(s) = s[1]
BY HeadTailProperties DEF Dropped

(* RemoveAt drops the element at k.                                        *)
LEMMA RemoveAtDropped ==
  ASSUME NEW S, NEW s \in Seq(S), NEW k \in DOMAIN s
  PROVE  RemoveAt(s, k) \in Seq(S) /\ Dropped(s, k, RemoveAt(s, k))
<1> DEFINE a == SubSeq(s, 1, k - 1)
           b == SubSeq(s, k + 1, Len(s))
<1>1. DOMAIN s = 1 .. Len(s) /\ Len(s) \in Nat /\ \A i \in 1 .. Len(s) : s[i] \in S
  BY ElementOfSeq
<1>2. a \in Seq(S) /\ Len(a) = k - 1 /\ \A i \in 1 .. k - 1 : a[i] = s[i]
  BY <1>1, SubSeqProperties
<1>3. b \in Seq(S) /\ Len(b) = Len(s) - k /\ \A i \in 1 .. Len(s) - k : b[i] = s[k + i]
  BY <1>1, SubSeqProperties
<1> HIDE DEF a, b
<1> DEFINE c == a \o b
<1>4. /\ c \in Seq(S) /\ Len(c) = Len(a) + Len(b)
      /\ \A i \in 1 .. Len(a) + Len(b) : c[i] = IF i <= Len(a) THEN a[i] ELSE b[i - Len(a)]
  BY <1>2, <1>3, ConcatProperties
<1> HIDE DEF c
<1>5. k \in Nat /\ Len(s) \in Nat /\ 1 <= k /\ k <= Len(s)
  BY <1>1
<1> DEFINE la == Len(a)
           lb == Len(b)
<1>6. la = k - 1 /\ lb = Len(s) - k /\ la + lb = Len(s) - 1
  BY <1>2, <1>3, <1>5
<1>7. \A i \in 1 .. la + lb : c[i] = IF i <= la THEN a[i] ELSE b[i - la]
  BY <1>4
<1> HIDE DEF la, lb
<1>8. \A i \in 1 .. Len(s) - 1 : c[i] = IF i <= k - 1 THEN a[i] ELSE b[i - (k - 1)]
  BY <1>6, <1>7
<1>9. ASSUME NEW i \in 1 .. Len(s) - 1
      PROVE  c[i] = IF i < k THEN s[i] ELSE s[i + 1]
  <2>1. CASE i < k
    <3>1. i \in 1 .. k - 1 /\ i <= k - 1 /\ i \in 1 .. Len(s) - 1
      BY <2>1, <1>5
    <3>2. c[i] = a[i]
      BY <3>1, <1>8
    <3>3. QED
      BY <3>1, <3>2, <2>1, <1>2
  <2>2. CASE ~(i < k)
    <3>1. i - (k - 1) \in 1 .. Len(s) - k /\ k + (i - (k - 1)) = i + 1 /\ ~(i <= k - 1)
      BY <2>2, <1>5
    <3>2. c[i] = b[i - (k - 1)]
      BY <3>1, <1>8
    <3>3. b[i - (k - 1)] = s[i + 1]
      BY <3>1, <1>3
    <3>4. QED
      BY <2>2, <3>2, <3>3
  <2>3. QED
    BY <2>1, <2>2
<1>10. Len(c) = Len(s) - 1
  BY <1>2, <1>3, <1>4, <1>5
<1>11. QED
  BY <1>4, <1>9, <1>10 DEF Dropped, RemoveAt, a, b, c

Prefix(s, t) == Len(s) <= Len(t) /\ \A i \in 1 .. Len(s) : s[i] = t[i]

Ascending(q) == \A i, j \in DOMAIN q : i < j => q[i].id < q[j].id

(* What a stream is in each of its states.                                 *)
StreamOK(r) ==
  /\ r.stream = "Open" \/ (~r.handshake /\ ~r.idle /\ r.call = NoCall)
  /\ IsStarted(r) /\ ~r.handshake => r.pipeline # << >>
  /\ r.idle => r.pipeline = << >>
  /\ r.stream = "Open" =>
       /\ r.call.status # "none"
       /\ r.call.answers \o r.call.requests = IF r.handshake THEN r.pipeline ELSE << Hello >>
  /\ r.call.status = "permanent" => r.handshake /\ r.call.requests # << >>

RemoteOK(r, q) ==
  /\ r \in Remotes /\ Len(r.pipeline) <= MaxPendingWrites
  /\ StreamOK(r)
  /\ Prefix(r.pipeline, q)

(* IsPrefix, index by index.                                               *)
LEMMA PrefixDef ==
  ASSUME NEW S, NEW s \in Seq(S), NEW t \in Seq(S)
  PROVE  IsPrefix(s, t) <=> Prefix(s, t)
<1>1. ASSUME Len(s) <= Len(t)
      PROVE  SubSeq(s, 1, Len(s)) = SubSeq(t, 1, Len(s)) <=> \A i \in 1 .. Len(s) : s[i] = t[i]
  <2>1. /\ SubSeq(s, 1, Len(s)) \in Seq(S) /\ Len(SubSeq(s, 1, Len(s))) = Len(s)
        /\ \A i \in 1 .. Len(s) : SubSeq(s, 1, Len(s))[i] = s[i]
    BY SubSeqProperties
  <2>2. /\ SubSeq(t, 1, Len(s)) \in Seq(S) /\ Len(SubSeq(t, 1, Len(s))) = Len(s)
        /\ \A i \in 1 .. Len(s) : SubSeq(t, 1, Len(s))[i] = t[i]
    BY <1>1, SubSeqProperties
  <2>3. QED
    BY <2>1, <2>2, SeqEqual
<1>2. QED
  BY <1>1 DEF IsPrefix, Prefix

(* Max of a bounded set of numbers is its greatest element.                *)
LEMMA MaxOfBounded ==
  ASSUME NEW S \in SUBSET Nat, S # {}, NEW n \in Nat, \A x \in S : x <= n
  PROVE  Max(S) \in S /\ \A x \in S : x <= Max(S)
<1> DEFINE T == {m \in Nat : \A x \in S : x <= m}
           R == {ss \in Nat \X Nat : ss[1] < ss[2]}
<1>1. IsWellFoundedOn(R, Nat)
  BY NatLessThanWellFounded, Zenon DEF OpToRel
<1>2. T \subseteq Nat /\ T # {}
  OBVIOUS
<1>3. PICK m \in T : \A y \in T : ~ (<< y, m >> \in R)
  <2> HIDE DEF T, R
  <2>1. QED
    BY <1>1, <1>2, WFMin
<1>4. \A y \in T : ~ (y < m)
  BY <1>3
<1>5. m \in S
  <2>1. SUFFICES ASSUME m \notin S PROVE FALSE
    OBVIOUS
  <2>2. m # 0
    <3>1. PICK x \in S : x <= m
      OBVIOUS
    <3>2. x # m
      BY <2>1
    <3>3. QED
      BY <3>1, <3>2
  <2>3. m - 1 \in T
    BY <2>1, <2>2
  <2>4. QED
    BY <1>4, <2>2, <2>3
<1>6. QED
  BY <1>5 DEF Max

(* Min of a set of numbers is its least element.                           *)
LEMMA MinIs ==
  ASSUME NEW S \in SUBSET Nat, NEW m \in S, \A x \in S : m <= x
  PROVE  Min(S) = m
<1>1. Min(S) \in S /\ \A x \in S : Min(S) <= x
  BY DEF Min
<1>2. Min(S) \in Nat /\ m \in Nat /\ Min(S) <= m /\ m <= Min(S)
  BY <1>1
<1> HIDE DEF Min
<1>3. QED
  BY <1>2

(* Min of an interval is where it begins.                                  *)
LEMMA MinOfInterval ==
  ASSUME NEW k \in Nat, NEW n \in Nat, k < n
  PROVE  k + 1 .. n # {} /\ Min(k + 1 .. n) = k + 1
<1>1. k + 1 .. n \in SUBSET Nat /\ k + 1 \in k + 1 .. n /\ \A x \in k + 1 .. n : k + 1 <= x
  OBVIOUS
<1>2. QED
  BY <1>1, MinIs

(* SubSeq up to the end of q, index by index.                              *)
LEMMA Suffix ==
  ASSUME NEW S, NEW q \in Seq(S), NEW k \in Nat, k < Len(q)
  PROVE  /\ SubSeq(q, k + 1, Len(q)) \in Seq(S)
         /\ Len(SubSeq(q, k + 1, Len(q))) = Len(q) - k
         /\ \A i \in 1 .. Len(q) - k : SubSeq(q, k + 1, Len(q))[i] = q[k + i]
OBVIOUS

(* A prefix of q followed by what comes next in q is a prefix of q.        *)
LEMMA PrefixOfConcat ==
  ASSUME NEW S, NEW p \in Seq(S), NEW b \in Seq(S), NEW q \in Seq(S),
         Prefix(p, q), Len(b) <= Len(q) - Len(p),
         \A i \in 1 .. Len(b) : b[i] = q[Len(p) + i]
  PROVE  Len(p \o b) = Len(p) + Len(b) /\ Prefix(p \o b, q)
BY DEF Prefix

(* What NextBatches returns: the batches that follow the pipeline, as many *)
(* as fit.                                                                 *)
LEMMA NextBatchesFollow ==
  ASSUME NEW r \in Remotes, NEW q \in Seq(Batch), Ascending(q),
         Prefix(r.pipeline, q), Len(r.pipeline) <= MaxPendingWrites
  PROVE  LET more == NextBatches(r, q)
         IN /\ more \in Seq(Batch)
            /\ Len(r.pipeline \o more) <= MaxPendingWrites
            /\ Prefix(r.pipeline \o more, q)
<1> DEFINE p == r.pipeline
           k == Len(p)
           last == IF p = << >> THEN 0 ELSE Last(p).id
           past == {i \in DOMAIN q : q[i].id > last}
           room == MaxPendingWrites - k
<1>0. p \in Seq(Batch) /\ k \in Nat /\ Len(q) \in Nat /\ DOMAIN q = 1 .. Len(q) /\ k <= Len(q)
      /\ room \in Nat
  BY FirestoreAssumption DEF Remotes, Prefix
<1>1. \A i \in DOMAIN q : q[i].id \in Nat \ {0}
  <2>1. \A i \in DOMAIN q : q[i] \in Batch
    BY <1>0, ElementOfSeq
  <2>2. QED
    BY <2>1 DEF Batch
<1>2. past = k + 1 .. Len(q)
  <2>1. CASE p = << >>
    BY <2>1, <1>0, <1>1
  <2>2. CASE p # << >>
    <3>1. k > 0 /\ last = q[k].id
      BY <2>2, <1>0 DEF Last, Prefix
    <3>2. \A i \in 1 .. Len(q) : q[i].id > last <=> i > k
      BY <3>1, <1>0, <1>1 DEF Ascending
    <3>3. QED
      BY <3>2, <1>0
  <2>3. QED
    BY <2>1, <2>2
<1>3. After(r, q) = IF past = {} THEN << >> ELSE SubSeq(q, Min(past), Len(q))
  BY DEF After
<1> HIDE DEF last, past, p, k, room
<1>4. After(r, q) \in Seq(Batch) /\ Len(After(r, q)) = Len(q) - k
      /\ \A i \in 1 .. Len(q) - k : After(r, q)[i] = q[k + i]
  <2>1. CASE k = Len(q)
    <3>1. past = {}
      BY <2>1, <1>0, <1>2
    <3>2. QED
      BY <3>1, <2>1, <1>0, <1>3
  <2>2. CASE k < Len(q)
    <3>1. past # {} /\ Min(past) = k + 1
      BY <2>2, <1>0, <1>2, MinOfInterval
    <3>2. After(r, q) = SubSeq(q, k + 1, Len(q))
      BY <3>1, <1>3
    <3>3. QED
      BY <3>2, <2>2, <1>0, Suffix
  <2>3. k \in Nat /\ Len(q) \in Nat /\ k <= Len(q)
    BY <1>0
  <2>4. k = Len(q) \/ k < Len(q)
    BY <2>3
  <2>5. QED
    BY <2>1, <2>2, <2>4
<1> DEFINE a == After(r, q)
           n == Min({Len(a), room})
<1>5. n \in Nat /\ n <= Len(a) /\ n <= room
  <2>1. Len(a) \in Nat
    BY <1>0, <1>4
  <2>2. CASE Len(a) <= room
    BY <2>1, <2>2, <1>0, MinIs
  <2>3. CASE room < Len(a)
    BY <2>1, <2>3, <1>0, MinIs
  <2>4. QED
    BY <2>1, <2>2, <2>3, <1>0
<1>6. NextBatches(r, q) = SubSeq(a, 1, n)
  BY DEF NextBatches, room, k, p
<1> HIDE DEF a, n
<1>7. /\ SubSeq(a, 1, n) \in Seq(Batch) /\ Len(SubSeq(a, 1, n)) = n
      /\ \A i \in 1 .. n : SubSeq(a, 1, n)[i] = q[k + i]
  <2>1. a \in Seq(Batch) /\ Len(a) = Len(q) - k /\ \A i \in 1 .. Len(q) - k : a[i] = q[k + i]
    BY <1>4 DEF a
  <2>2. \A i \in 1 .. n : a[i] \in Batch
    BY <2>1, <1>5, <1>0, ElementOfSeq
  <2>3. QED
    BY <2>1, <2>2, <1>5, <1>0, SubSeqProperties
<1>8. Len(p \o SubSeq(a, 1, n)) <= MaxPendingWrites /\ Prefix(p \o SubSeq(a, 1, n), q)
  <2> DEFINE b == SubSeq(a, 1, n)
  <2>1. Len(a) = Len(q) - k
    BY <1>4 DEF a
  <2>3. b \in Seq(Batch) /\ Len(b) = n /\ \A i \in 1 .. n : b[i] = q[k + i]
    BY <1>7
  <2> HIDE DEF b
  <2>4. Prefix(p, q) /\ k = Len(p)
    BY DEF p, k
  <2>5. Len(p \o b) = k + n /\ Prefix(p \o b, q)
    BY <2>1, <2>3, <2>4, <1>5, <1>0, PrefixOfConcat
  <2>6. k + n <= MaxPendingWrites
    BY <1>5, <1>0, FirestoreAssumption DEF room
  <2>7. QED
    BY <2>5, <2>6 DEF b
<1>9. QED
  BY <1>6, <1>7, <1>8 DEF p

(* How the state and the close count of the stream change in a step: a     *)
(* stream that is Starting stays so, or is closed.                         *)
Moves(r, s) ==
  \/ s.closes = r.closes /\ s.stream = r.stream
  \/ s.closes = r.closes /\ r.stream # "Starting" /\ s.stream # r.stream
  \/ s.closes = r.closes + 1

(* Start and StartIfNeeded only change the state of the stream.            *)
LEMMA StartIfNeededFields ==
  ASSUME NEW r \in Remotes
  PROVE  LET s == StartIfNeeded(r)
         IN /\ s \in Remotes
            /\ s.pipeline = r.pipeline /\ s.handshake = r.handshake /\ s.idle = r.idle
            /\ s.closes = r.closes /\ s.call = r.call
            /\ s.stream = r.stream
                 \/ (~IsStarted(r) /\ r.pipeline # << >> /\ s.stream \in {"Starting", "Backoff"})
            /\ r.stream = "Error" => s.stream # "Starting"
            /\ IsStarted(s) \/ r.pipeline = << >>
BY DEF StartIfNeeded, Start, Remotes, IsStarted

(* The fields FillWritePipeline leaves behind.                             *)
LEMMA FillFields ==
  ASSUME NEW r \in Remotes, NEW q, NextBatches(r, q) \in Seq(Batch)
  PROVE  LET more == NextBatches(r, q)
             sends == r.stream = "Open" /\ r.handshake /\ more # << >>
             s == FillWritePipeline(r, q)
         IN /\ s \in Remotes
            /\ s.pipeline = r.pipeline \o more /\ s.handshake = r.handshake
            /\ s.closes = r.closes
            /\ s.call = IF sends THEN [r.call EXCEPT !.requests = @ \o more] ELSE r.call
            /\ s.idle <=> (r.idle /\ ~sends) \/ (r.stream = "Open" /\ r.pipeline \o more = << >>)
            /\ s.stream = r.stream
                 \/ (~IsStarted(r) /\ s.pipeline # << >> /\ s.stream \in {"Starting", "Backoff"})
            /\ IsStarted(s) \/ s.pipeline = << >>
<1> DEFINE more == NextBatches(r, q)
           open == r.stream = "Open"
           sends == open /\ r.handshake /\ more # << >>
           sent == IF open /\ r.handshake THEN Write(r, more) ELSE r
           g == [sent EXCEPT !.pipeline = @ \o more,
                             !.idle = @ \/ (open /\ r.pipeline \o more = << >>)]
<1>1. FillWritePipeline(r, q) = StartIfNeeded(g)
  BY DEF FillWritePipeline
<1>2. more \in Seq(Batch)
  OBVIOUS
<1> HIDE DEF more
<1>3. r.call \in Calls /\ r.pipeline \in Seq(Batch) /\ r.pipeline \o more \in Seq(Batch)
  BY <1>2 DEF Remotes
<1>4. [r.call EXCEPT !.requests = @ \o more] \in Calls
  <2>1. more \in Seq(Messages)
    BY <1>2, SeqMonotonic DEF Messages
  <2>2. r.call.requests \o more \in Seq(Messages)
    BY <1>3, <2>1 DEF Calls
  <2>3. QED
    BY <1>3, <2>2 DEF Calls
<1>5. /\ sent \in Remotes /\ sent.pipeline = r.pipeline /\ sent.handshake = r.handshake
      /\ sent.closes = r.closes /\ sent.stream = r.stream
      /\ sent.call = IF sends THEN [r.call EXCEPT !.requests = @ \o more] ELSE r.call
      /\ sent.idle <=> r.idle /\ ~sends
  <2>1. CASE sends
    <3>1. sent = [r EXCEPT !.call.requests = @ \o more, !.idle = FALSE]
      BY <2>1 DEF Write
    <3>2. QED
      BY <2>1, <3>1, <1>4 DEF Remotes
  <2>2. CASE ~sends
    <3>1. sent = r
      BY <2>2 DEF Write
    <3>2. QED
      BY <2>2, <3>1
  <2>3. QED
    BY <2>1, <2>2
<1> HIDE DEF sent, sends
<1>6. /\ g \in Remotes /\ g.pipeline = r.pipeline \o more /\ g.handshake = r.handshake
      /\ g.closes = r.closes /\ g.stream = r.stream
      /\ g.call = IF sends THEN [r.call EXCEPT !.requests = @ \o more] ELSE r.call
      /\ g.idle <=> (r.idle /\ ~sends) \/ (open /\ r.pipeline \o more = << >>)
  BY <1>3, <1>5 DEF Remotes
<1> HIDE DEF g
<1>7. IsStarted(g) <=> IsStarted(r)
  BY <1>6 DEF IsStarted
<1>8. QED
  BY <1>1, <1>6, <1>7, StartIfNeededFields DEF sends, more


(* Concatenation with a sequence that is empty, or not.                    *)
LEMMA ConcatFacts ==
  ASSUME NEW S, NEW s \in Seq(S), NEW t \in Seq(S)
  PROVE  /\ s # << >> => s \o t # << >>
         /\ t = << >> => s \o t = s
OBVIOUS

(* Concatenation is associative.                                           *)
LEMMA Associates ==
  \A S : \A s, t, u \in Seq(S) : s \o (t \o u) = (s \o t) \o u
<1> SUFFICES ASSUME NEW S, NEW s \in Seq(S), NEW t \in Seq(S), NEW u \in Seq(S)
             PROVE  s \o (t \o u) = (s \o t) \o u
  OBVIOUS
<1> QED
  BY ConcatAssociative

(* A pipeline that is filled follows the queue, and what is sent with it   *)
(* keeps the answers in step.                                              *)
LEMMA FillOK ==
  ASSUME NEW r, NEW q \in Seq(Batch), Ascending(q), RemoteOK(r, q)
  PROVE  LET s == FillWritePipeline(r, q)
         IN /\ RemoteOK(s, q)
            /\ s.stream = r.stream \/ ~IsStarted(r)
            /\ s.call.user = r.call.user /\ (s.call = NoCall <=> r.call = NoCall)
            /\ s.call.answers = r.call.answers
            /\ s.closes = r.closes
<1> DEFINE more == NextBatches(r, q)
           s == FillWritePipeline(r, q)
           sends == r.stream = "Open" /\ r.handshake /\ more # << >>
<1>1. r \in Remotes /\ StreamOK(r) /\ Prefix(r.pipeline, q) /\ Len(r.pipeline) <= MaxPendingWrites
  BY DEF RemoteOK
<1>2. more \in Seq(Batch) /\ Len(r.pipeline \o more) <= MaxPendingWrites /\ Prefix(r.pipeline \o more, q)
  BY <1>1, NextBatchesFollow
<1>3. /\ s \in Remotes
      /\ s.pipeline = r.pipeline \o more /\ s.handshake = r.handshake
      /\ s.closes = r.closes
      /\ s.call = IF sends THEN [r.call EXCEPT !.requests = @ \o more] ELSE r.call
      /\ s.idle <=> (r.idle /\ ~sends) \/ (r.stream = "Open" /\ r.pipeline \o more = << >>)
      /\ s.stream = r.stream
           \/ (~IsStarted(r) /\ s.pipeline # << >> /\ s.stream \in {"Starting", "Backoff"})
  BY <1>1, <1>2, FillFields
<1>4. /\ r.pipeline \in Seq(Batch) /\ r.call \in Calls /\ r.call.requests \in Seq(Messages)
      /\ r.call.answers \in Seq(Messages) /\ r.pipeline \in Seq(Messages) /\ more \in Seq(Messages)
  BY <1>1, <1>2, SeqMonotonic DEF Remotes, Calls, Messages
<1>5. (r.pipeline # << >> => r.pipeline \o more # << >>) /\ (more = << >> => r.pipeline \o more = r.pipeline)
      /\ (r.call.requests # << >> => r.call.requests \o more # << >>)
      /\ r.call.answers \o (r.call.requests \o more) = (r.call.answers \o r.call.requests) \o more
  <2>1. (r.pipeline # << >> => r.pipeline \o more # << >>) /\ (more = << >> => r.pipeline \o more = r.pipeline)
    BY <1>4, ConcatFacts
  <2>2. r.call.requests # << >> => r.call.requests \o more # << >>
    BY <1>4, ConcatFacts
  <2>3. r.call.answers \o (r.call.requests \o more) = (r.call.answers \o r.call.requests) \o more
    <3>1. \A a, b, c \in Seq(Messages) : a \o (b \o c) = (a \o b) \o c
      BY Associates
    <3>2. PICK a \in Seq(Messages) : a = r.call.answers
      BY <1>4
    <3>3. PICK b \in Seq(Messages) : b = r.call.requests
      BY <1>4
    <3>4. more \in Seq(Messages)
      BY <1>4
    <3>5. QED
      BY <3>1, <3>2, <3>3, <3>4
  <2>4. QED
    BY <2>1, <2>2, <2>3
<1> HIDE DEF more, s
<1>6. s.call = NoCall <=> r.call = NoCall
  <2>1. sends => r.call.status # "none"
    BY <1>1 DEF StreamOK
  <2>2. CASE sends
    BY <2>1, <2>2, <1>3, <1>4 DEF NoCall, Calls
  <2>3. CASE ~sends
    BY <2>3, <1>3
  <2>4. QED BY <2>2, <2>3
<1>7. s.call.user = r.call.user /\ s.call.answers = r.call.answers /\ s.call.status = r.call.status
      /\ s.call.requests = IF sends THEN r.call.requests \o more ELSE r.call.requests
  BY <1>3, <1>4 DEF Calls
<1>8. StreamOK(s)
  <2>1. s.stream = "Open" \/ (~s.handshake /\ ~s.idle /\ s.call = NoCall)
    BY <1>1, <1>3, <1>6 DEF StreamOK, IsStarted
  <2>2. IsStarted(s) /\ ~s.handshake => s.pipeline # << >>
    BY <1>1, <1>3, <1>5 DEF StreamOK, IsStarted
  <2>3. s.idle => s.pipeline = << >>
    BY <1>1, <1>3, <1>5 DEF StreamOK, IsStarted
  <2>4. s.stream = "Open" => /\ s.call.status # "none"
                            /\ s.call.answers \o s.call.requests = IF s.handshake THEN s.pipeline ELSE << Hello >>
    BY <1>1, <1>3, <1>5, <1>7 DEF StreamOK, IsStarted
  <2>5. s.call.status = "permanent" => s.handshake /\ s.call.requests # << >>
    BY <1>1, <1>3, <1>5, <1>7 DEF StreamOK
  <2>6. QED
    BY <2>1, <2>2, <2>3, <2>4, <2>5 DEF StreamOK
<1>9. RemoteOK(s, q)
  BY <1>2, <1>3, <1>8 DEF RemoteOK
<1>10. QED
  BY <1>3, <1>6, <1>7, <1>9 DEF s


(* The fields of a closed stream.                                          *)
LEMMA CloseFields ==
  ASSUME NEW r \in Remotes, NEW state \in {"Initial", "Error"}
  PROVE  LET s == Close(r, state)
         IN /\ s \in Remotes /\ s.pipeline = r.pipeline /\ s.stream = state
            /\ s.closes = r.closes + 1 /\ ~s.handshake /\ ~s.idle /\ s.call = NoCall
<1>1. NoCall \in Calls
  BY DEF NoCall, Calls, Users
<1>2. r.closes + 1 \in Nat /\ state \in {"Initial", "Starting", "Open", "Backoff", "Error"}
  BY DEF Remotes
<1> HIDE DEF Calls, NoCall
<1>3. Close(r, state) \in Remotes
  BY <1>1, <1>2 DEF Close, Remotes
<1>4. QED
  BY <1>3 DEF Close, Remotes

(* A stream that is not started, without a call, is in order.              *)
LEMMA Unstarted ==
  ASSUME NEW s, s.stream \in {"Initial", "Error"}, ~s.handshake, ~s.idle, s.call = NoCall
  PROVE  StreamOK(s) /\ ~IsStarted(s)
BY DEF StreamOK, IsStarted, NoCall

(* The retry after a failed call leaves a stream in order, with a new      *)
(* close count and no call.                                                *)
LEMMA RetryOK ==
  ASSUME NEW r, NEW q, RemoteOK(r, q)
  PROVE  RemoteOK(Retry(r), q) /\ Retry(r).closes = r.closes + 1 /\ Retry(r).call = NoCall
<1> DEFINE c == Close(r, "Error")
           s == StartIfNeeded(c)
<1>1. /\ c \in Remotes /\ c.pipeline = r.pipeline /\ c.stream = "Error"
      /\ c.closes = r.closes + 1 /\ ~c.handshake /\ ~c.idle /\ c.call = NoCall
  BY CloseFields DEF RemoteOK
<1> HIDE DEF c
<1>2. /\ s \in Remotes
      /\ s.pipeline = c.pipeline /\ s.handshake = c.handshake /\ s.idle = c.idle
      /\ s.closes = c.closes /\ s.call = c.call
      /\ s.stream = c.stream \/ (c.pipeline # << >> /\ s.stream \in {"Starting", "Backoff"})
  BY <1>1, StartIfNeededFields
<1> HIDE DEF s
<1>3. StreamOK(s)
  BY <1>1, <1>2 DEF StreamOK, IsStarted, NoCall
<1>4. Retry(r) = s
  BY DEF Retry, s, c
<1>5. QED
  BY <1>1, <1>2, <1>3, <1>4 DEF RemoteOK

(* Stop: a stream that is started is closed and counted, another is left   *)
(* alone, and the pipeline stays.                                          *)
LEMMA StopFields ==
  ASSUME NEW r \in Remotes, StreamOK(r)
  PROVE  LET s == Stop(r)
         IN /\ s \in Remotes /\ s.pipeline = r.pipeline
            /\ s.stream \in {"Initial", "Error"}
            /\ ~s.handshake /\ ~s.idle /\ s.call = NoCall
            /\ s.closes = IF IsStarted(r) THEN r.closes + 1 ELSE r.closes
            /\ ~IsStarted(r) => s = r
<1>1. CASE IsStarted(r)
  BY <1>1, CloseFields DEF Stop
<1>2. CASE ~IsStarted(r)
  BY <1>2 DEF Stop, StreamOK, IsStarted, Remotes
<1>3. QED
  BY <1>1, <1>2

(* RestartNetwork leaves a stream in order over the queue it is given,     *)
(* without a call; if it is Starting, under a new close count.             *)
LEMMA RestartOK ==
  ASSUME NEW r \in Remotes, StreamOK(r), NEW q \in Seq(Batch), Ascending(q)
  PROVE  LET s == RestartNetwork(r, q)
         IN RemoteOK(s, q) /\ Moves(r, s) /\ s.call = NoCall
<1> DEFINE t == Stop(r)
           c == [t EXCEPT !.stream = "Initial", !.pipeline = << >>]
           s == FillWritePipeline(c, q)
<1>1. /\ t \in Remotes /\ ~t.handshake /\ ~t.idle /\ t.call = NoCall
      /\ t.closes = IF IsStarted(r) THEN r.closes + 1 ELSE r.closes
  BY StopFields
<1> HIDE DEF t
<1>2. /\ c \in Remotes /\ c.pipeline = << >> /\ c.stream = "Initial" /\ ~c.handshake /\ ~c.idle
      /\ c.call = NoCall /\ c.closes = t.closes
  <2>1. << >> \in Seq(Batch) /\ "Initial" \in {"Initial", "Starting", "Open", "Backoff", "Error"}
    OBVIOUS
  <2>2. c \in Remotes
    BY <1>1, <2>1 DEF Remotes
  <2>3. QED
    BY <1>1, <2>2 DEF Remotes
<1> HIDE DEF c
<1>3. RemoteOK(c, q)
  <2>1. Prefix(<< >>, q) /\ Len(<< >>) <= MaxPendingWrites
    BY FirestoreAssumption DEF Prefix
  <2>2. QED
    BY <2>1, <1>2, Unstarted DEF RemoteOK
<1>4. RemoteOK(s, q) /\ s.closes = c.closes /\ s.call = NoCall
  BY <1>2, <1>3, FillOK
<1> HIDE DEF s
<1>5. Moves(r, s)
  BY <1>1, <1>2, <1>4 DEF Moves, IsStarted
<1>6. RestartNetwork(r, q) = s
  BY DEF RestartNetwork, s, c, t
<1>7. QED
  BY <1>4, <1>5, <1>6

(* The call of a stream that starts: the handshake is on its way.          *)
LEMMA OpenOK ==
  ASSUME NEW r, NEW q, RemoteOK(r, q), r.stream = "Starting", NEW u \in Users
  PROVE  LET call == [user |-> u, requests |-> << Hello >>, answers |-> << >>, status |-> "open"]
             s == [r EXCEPT !.stream = "Open", !.call = call]
         IN RemoteOK(s, q) /\ s.closes = r.closes /\ s.stream = "Open" /\ s.call = call
<1> DEFINE call == [user |-> u, requests |-> << Hello >>, answers |-> << >>, status |-> "open"]
           s == [r EXCEPT !.stream = "Open", !.call = call]
<1>1. r \in Remotes /\ StreamOK(r) /\ Prefix(r.pipeline, q) /\ Len(r.pipeline) <= MaxPendingWrites
  BY DEF RemoteOK
<1>2. << Hello >> \in Seq(Messages) /\ << >> \in Seq(Messages) /\ << >> \o << Hello >> = << Hello >>
  <2>1. Hello \in Messages
    BY DEF Messages
  <2> HIDE DEF Hello
  <2>2. QED
    BY <2>1
<1>3. /\ call \in Calls /\ call.answers = << >> /\ call.requests = << Hello >> /\ call.status = "open"
  BY <1>2 DEF Calls
<1> HIDE DEF call
<1>4. /\ s \in Remotes /\ s.stream = "Open" /\ s.call = call /\ s.closes = r.closes
      /\ s.pipeline = r.pipeline /\ s.handshake = r.handshake /\ s.idle = r.idle
  BY <1>1, <1>3 DEF Remotes
<1> HIDE DEF s
<1>5. ~r.handshake /\ ~r.idle /\ r.pipeline # << >>
  BY <1>1 DEF StreamOK, IsStarted
<1>6. StreamOK(s)
  BY <1>2, <1>3, <1>4, <1>5 DEF StreamOK
<1>7. RemoteOK(s, q)
  BY <1>1, <1>4, <1>6 DEF RemoteOK
<1>8. QED
  BY <1>4, <1>7 DEF s, call


(* An answer is read, or given: the rest stays in order.                   *)
LEMMA MoveHead ==
  ASSUME NEW S, NEW a \in Seq(S), NEW b \in Seq(S), b # << >>
  PROVE  Append(a, Head(b)) \o Tail(b) = a \o b
OBVIOUS

(* The head of a concatenation is the head of its first part when there is *)
(* one.                                                                    *)
LEMMA TailConcat ==
  ASSUME NEW S, NEW a \in Seq(S), NEW b \in Seq(S), a # << >>
  PROVE  Tail(a) \o b = Tail(a \o b) /\ a \o b # << >> /\ Head(a \o b) = Head(a)
OBVIOUS

(* If the handshake is all there is on a call, it is either answered or    *)
(* not.                                                                    *)
LEMMA OneMessage ==
  ASSUME NEW S, NEW a \in Seq(S), NEW b \in Seq(S), NEW h, a \o b = << h >>
  PROVE  /\ a # << >> => b = << >> /\ Tail(a) = << >>
         /\ b # << >> => Head(b) = h
<1>1. Len(a) + Len(b) = 1 /\ Len(a) \in Nat /\ Len(b) \in Nat
  <2>1. Len(a \o b) = Len(a) + Len(b)
    OBVIOUS
  <2>2. Len(<< h >>) = 1
    OBVIOUS
  <2>3. QED
    BY <2>1, <2>2
<1>2. CASE a # << >>
  <2>1. Len(a) = 1 /\ Len(b) = 0
    BY <1>1, <1>2, EmptySeq
  <2>2. QED
    BY <2>1, <1>2
<1>3. CASE a = << >>
  BY <1>3
<1>4. QED
  BY <1>2, <1>3

(* The sequences of a call and of the pipeline.                            *)
LEMMA CallParts ==
  ASSUME NEW r \in Remotes
  PROVE  /\ r.pipeline \in Seq(Messages) /\ r.pipeline \in Seq(Batch)
         /\ r.call \in Calls /\ r.call.answers \in Seq(Messages) /\ r.call.requests \in Seq(Messages)
BY SeqMonotonic DEF Remotes, Calls, Messages

(* The handshake is answered: the pipeline is sent.                        *)
LEMMA HandshakeOK ==
  ASSUME NEW r, NEW q, RemoteOK(r, q), r.call.answers # << >>, ~r.handshake
  PROVE  LET s == [Write(r, r.pipeline) EXCEPT !.handshake = TRUE, !.call.answers = Tail(@)]
         IN RemoteOK(s, q) /\ s.closes = r.closes /\ s.stream = r.stream
              /\ s.call.user = r.call.user /\ s.call # NoCall /\ s.call.answers = << >>
<1> DEFINE w == Write(r, r.pipeline)
           s == [w EXCEPT !.handshake = TRUE, !.call.answers = Tail(@)]
           call == [r.call EXCEPT !.requests = r.pipeline, !.answers = << >>]
<1>1. r \in Remotes /\ StreamOK(r) /\ Prefix(r.pipeline, q) /\ Len(r.pipeline) <= MaxPendingWrites
  BY DEF RemoteOK
<1>2. /\ r.pipeline \in Seq(Messages) /\ r.pipeline \in Seq(Batch)
      /\ r.call \in Calls /\ r.call.answers \in Seq(Messages) /\ r.call.requests \in Seq(Messages)
  BY <1>1, CallParts
<1>3. r.stream = "Open" /\ r.call.status # "none" /\ r.call.answers \o r.call.requests = << Hello >>
      /\ r.pipeline # << >> /\ r.call.status # "permanent"
  <2>1. r.call # NoCall
    BY DEF NoCall
  <2>2. r.stream = "Open"
    BY <1>1, <2>1 DEF StreamOK
  <2>3. QED
    BY <1>1, <2>2 DEF StreamOK, IsStarted
<1>4. r.call.requests = << >> /\ Tail(r.call.answers) = << >>
  <2>1. PICK a \in Seq(Messages) : a = r.call.answers
    BY <1>2
  <2>2. PICK b \in Seq(Messages) : b = r.call.requests
    BY <1>2
  <2>3. a \o b = << Hello >> /\ a # << >>
    BY <1>3, <2>1, <2>2
  <2> HIDE DEF Hello
  <2>4. b = << >> /\ Tail(a) = << >>
    BY <2>3, OneMessage
  <2>5. QED
    BY <2>1, <2>2, <2>4
<1>5. r.call.requests \o r.pipeline = r.pipeline
  BY <1>2, <1>4
<1>6. /\ call \in Calls /\ call.user = r.call.user /\ call.status = r.call.status
      /\ call.requests = r.pipeline /\ call.answers = << >>
  <2>1. << >> \in Seq(Messages)
    OBVIOUS
  <2> HIDE DEF Messages
  <2>2. QED
    BY <1>2, <2>1 DEF Calls
<1>7. s = [r EXCEPT !.handshake = TRUE, !.idle = FALSE, !.call = call]
  <2>1. w = [r EXCEPT !.call.requests = r.pipeline, !.idle = FALSE]
    BY <1>3, <1>5 DEF Write
  <2> HIDE DEF w
  <2>2. QED
    BY <2>1, <1>1, <1>2, <1>4 DEF Remotes, Calls
<1> HIDE DEF s, call
<1>8. /\ s \in Remotes /\ s.stream = r.stream /\ s.closes = r.closes /\ s.pipeline = r.pipeline
      /\ s.handshake = TRUE /\ s.idle = FALSE /\ s.call = call
  BY <1>1, <1>6, <1>7 DEF Remotes
<1>9. call.answers \o call.requests = r.pipeline
  BY <1>2, <1>6
<1>10. StreamOK(s)
  BY <1>3, <1>6, <1>8, <1>9 DEF StreamOK
<1>11. call # NoCall
  BY <1>3, <1>6 DEF NoCall
<1>12. QED
  BY <1>1, <1>6, <1>8, <1>10, <1>11 DEF RemoteOK, s, w

(* An answer to a write: the batch at the front of the pipeline goes.      *)
LEMMA PoppedOK ==
  ASSUME NEW r, NEW q, RemoteOK(r, q), r.call.answers # << >>, r.handshake
  PROVE  LET s == [r EXCEPT !.pipeline = Tail(@), !.call.answers = Tail(@)]
         IN /\ r.pipeline # << >> /\ Head(r.call.answers) = Head(r.pipeline) /\ r.stream = "Open"
            /\ s \in Remotes /\ StreamOK(s) /\ s.pipeline = Tail(r.pipeline)
            /\ s.closes = r.closes /\ s.stream = r.stream /\ s.call # NoCall
            /\ s.call.user = r.call.user /\ s.call.answers = Tail(r.call.answers)
<1> DEFINE s == [r EXCEPT !.pipeline = Tail(@), !.call.answers = Tail(@)]
           call == [r.call EXCEPT !.answers = Tail(@)]
<1>1. r \in Remotes /\ StreamOK(r) /\ Prefix(r.pipeline, q) /\ Len(r.pipeline) <= MaxPendingWrites
  BY DEF RemoteOK
<1>2. /\ r.pipeline \in Seq(Messages) /\ r.pipeline \in Seq(Batch)
      /\ r.call \in Calls /\ r.call.answers \in Seq(Messages) /\ r.call.requests \in Seq(Messages)
  BY <1>1, CallParts
<1>3. r.stream = "Open" /\ r.call.status # "none" /\ r.call.answers \o r.call.requests = r.pipeline
      /\ (r.call.status = "permanent" => r.call.requests # << >>)
  BY <1>1 DEF StreamOK, NoCall, IsStarted
<1>4. /\ Tail(r.call.answers) \o r.call.requests = Tail(r.pipeline) /\ r.pipeline # << >>
      /\ Head(r.call.answers) = Head(r.pipeline) /\ Tail(r.call.answers) \in Seq(Messages)
  <2>1. PICK a \in Seq(Messages) : a = r.call.answers
    BY <1>2
  <2>2. PICK b \in Seq(Messages) : b = r.call.requests
    BY <1>2
  <2>3. a # << >>
    BY <2>1
  <2>4. Tail(a) \o b = Tail(a \o b) /\ a \o b # << >> /\ Head(a \o b) = Head(a)
    BY <2>3, TailConcat
  <2>5. Tail(a) \in Seq(Messages)
    BY <2>3
  <2>6. QED
    BY <1>3, <2>1, <2>2, <2>4, <2>5
<1>5. Tail(r.pipeline) \in Seq(Batch)
  BY <1>2, <1>4
<1>6. /\ call \in Calls /\ call.user = r.call.user /\ call.status = r.call.status
      /\ call.requests = r.call.requests /\ call.answers = Tail(r.call.answers)
  BY <1>2, <1>4 DEF Calls
<1>7. s = [r EXCEPT !.pipeline = Tail(r.pipeline), !.call = call]
  BY <1>1, <1>2 DEF Remotes
<1> HIDE DEF s, call
<1>8. /\ s \in Remotes /\ s.stream = r.stream /\ s.closes = r.closes /\ s.pipeline = Tail(r.pipeline)
      /\ s.handshake = r.handshake /\ s.idle = r.idle /\ s.call = call
  BY <1>1, <1>5, <1>6, <1>7 DEF Remotes
<1>9. ~r.idle
  BY <1>1, <1>4 DEF StreamOK
<1>10. StreamOK(s)
  BY <1>3, <1>4, <1>6, <1>8, <1>9 DEF StreamOK
<1>11. call # NoCall
  BY <1>3, <1>6 DEF NoCall
<1>12. QED
  BY <1>1, <1>3, <1>4, <1>6, <1>8, <1>10, <1>11 DEF s

(* A batch is refused: its stream is closed, and it leaves the pipeline.   *)
LEMMA ClosedOK ==
  ASSUME NEW r, NEW q, RemoteOK(r, q), r.call.status = "permanent"
  PROVE  LET s == [Close(r, "Initial") EXCEPT !.pipeline = Tail(@)]
         IN /\ r.pipeline # << >> /\ r.stream = "Open" /\ r.call # NoCall
            /\ s \in Remotes /\ StreamOK(s) /\ s.pipeline = Tail(r.pipeline)
            /\ s.closes = r.closes + 1 /\ s.stream = "Initial" /\ s.call = NoCall
<1> DEFINE c == Close(r, "Initial")
           s == [c EXCEPT !.pipeline = Tail(@)]
<1>1. r \in Remotes /\ StreamOK(r)
  BY DEF RemoteOK
<1>2. /\ r.pipeline \in Seq(Batch)
      /\ r.call.answers \in Seq(Messages) /\ r.call.requests \in Seq(Messages)
  BY <1>1, CallParts
<1>3. r.stream = "Open" /\ r.call.answers \o r.call.requests = r.pipeline /\ r.call.requests # << >>
      /\ r.call # NoCall
  <2>1. r.call # NoCall
    BY DEF NoCall
  <2>2. r.stream = "Open" /\ r.handshake
    BY <1>1, <2>1 DEF StreamOK
  <2>3. QED
    BY <1>1, <2>1, <2>2 DEF StreamOK
<1>4. r.pipeline # << >>
  <2>1. PICK a \in Seq(Messages) : a = r.call.answers
    BY <1>2
  <2>2. PICK b \in Seq(Messages) : b = r.call.requests
    BY <1>2
  <2>3. b # << >> => a \o b # << >>
    OBVIOUS
  <2>4. QED
    BY <1>3, <2>1, <2>2, <2>3
<1>5. Tail(r.pipeline) \in Seq(Batch)
  BY <1>2, <1>4
<1>6. /\ c \in Remotes /\ c.pipeline = r.pipeline /\ c.stream = "Initial"
      /\ c.closes = r.closes + 1 /\ ~c.handshake /\ ~c.idle /\ c.call = NoCall
  BY <1>1, CloseFields
<1> HIDE DEF c
<1>7. /\ s \in Remotes /\ s.pipeline = Tail(r.pipeline) /\ s.stream = "Initial"
      /\ s.closes = r.closes + 1 /\ ~s.handshake /\ ~s.idle /\ s.call = NoCall
  BY <1>5, <1>6 DEF Remotes
<1> HIDE DEF s
<1>8. StreamOK(s)
  BY <1>7, Unstarted
<1>9. QED
  BY <1>3, <1>4, <1>7, <1>8 DEF s, c

(* The server answers the first request of a call, or ends the call.       *)
LEMMA ServedOK ==
  ASSUME NEW r, NEW q, RemoteOK(r, q), r.call.status = "open",
         NEW call \in Calls, call.status \in {"open", "transient", "permanent"},
         call.answers \o call.requests = r.call.answers \o r.call.requests,
         call.status = "permanent" => call.requests # << >> /\ Head(call.requests) # Hello
  PROVE  LET s == [r EXCEPT !.call = call]
         IN RemoteOK(s, q) /\ s.stream = r.stream /\ s.closes = r.closes
              /\ s.call = call /\ s.pipeline = r.pipeline /\ r.stream = "Open"
<1> DEFINE s == [r EXCEPT !.call = call]
<1>1. r \in Remotes /\ StreamOK(r) /\ Prefix(r.pipeline, q) /\ Len(r.pipeline) <= MaxPendingWrites
  BY DEF RemoteOK
<1>2. r.stream = "Open"
  BY <1>1 DEF StreamOK, NoCall
<1>3. call.status = "permanent" => r.handshake
  <2>1. SUFFICES ASSUME call.status = "permanent", ~r.handshake PROVE FALSE
    BY <1>1 DEF Remotes
  <2>2. call.answers \o call.requests = << Hello >> /\ call.requests # << >> /\ Head(call.requests) # Hello
    BY <1>1, <1>2, <2>1 DEF StreamOK
  <2>3. PICK a \in Seq(Messages) : a = call.answers
    BY DEF Calls
  <2>4. PICK b \in Seq(Messages) : b = call.requests
    BY DEF Calls
  <2>5. a \o b = << Hello >> /\ b # << >> /\ Head(b) # Hello
    BY <2>2, <2>3, <2>4
  <2> HIDE DEF Hello
  <2>6. QED
    BY <2>5, OneMessage
<1>4. /\ s \in Remotes /\ s.stream = r.stream /\ s.closes = r.closes /\ s.pipeline = r.pipeline
      /\ s.handshake = r.handshake /\ s.idle = r.idle /\ s.call = call
  BY <1>1 DEF Remotes
<1> HIDE DEF s
<1>5. StreamOK(s)
  <2>1. IsStarted(s) /\ ~s.handshake => s.pipeline # << >>
    BY <1>1, <1>4 DEF StreamOK, IsStarted
  <2>2. s.idle => s.pipeline = << >>
    BY <1>1, <1>4 DEF StreamOK
  <2>3. call.answers \o call.requests = IF r.handshake THEN r.pipeline ELSE << Hello >>
    BY <1>1, <1>2 DEF StreamOK
  <2>4. QED
    BY <1>2, <1>3, <1>4, <2>1, <2>2, <2>3 DEF StreamOK
<1>6. QED
  BY <1>1, <1>2, <1>4, <1>5 DEF RemoteOK, s

-----------------------------------------------------------------------------
(* The client before Initialize, and before it exists.                     *)
Boot ==
  /\ ~running => nextId = 0 /\ tasks = << >>
  /\ nextId = 0 =>
       /\ remote = Idle /\ tokenRequests = << >>
       /\ \A u \in Users : waiting[u] = {}
       /\ \A i \in DOMAIN mainQueue : mainQueue[i].kind # "token"
       /\ \A i \in DOMAIN tasks : tasks[i].kind # "resume"
       /\ running => tasks # << >> /\ tasks[1].kind = "init"
  /\ \A i \in DOMAIN tasks : tasks[i].kind = "init" => i = 1 /\ nextId = 0

(* The mutation queues.                                                    *)
Rows ==
  /\ \A u \in Users : Ascending(queue[u])
  /\ \A u \in Users : \A i \in DOMAIN queue[u] : nextId # 0 => queue[u][i].id < nextId
  /\ \A u, v \in Users : \A i \in DOMAIN queue[u], j \in DOMAIN queue[v] :
       queue[u][i].id = queue[v][j].id => u = v
  /\ \E n \in Nat : \A u \in Users : \A i \in DOMAIN queue[u] : queue[u][i].id <= n
  /\ \A u \in Users : waiting[u] \subseteq ToSet(queue[u])

(* The pipeline copies the front of the queue of the current user.         *)
Stream == RemoteOK(remote, queue[syncUser])

(* The answers to GetToken that pass the check of the close count c.       *)
LiveRequest(c) == {t \in TokenRequest : t.closes = c}
LiveBlock(c)   == {b \in Blocks : b.kind = "token" /\ b.to.closes = c}
LiveTask(c)    == {t \in Tasks : t.kind = "resume" /\ t.closes = c}

Live(c) == Hits(tokenRequests, LiveRequest(c)) + Hits(mainQueue, LiveBlock(c))
             + Hits(tasks, LiveTask(c))

Tokens ==
  /\ Live(remote.closes) = OneIf(remote.stream = "Starting")
  /\ \A i \in DOMAIN tokenRequests : tokenRequests[i].closes <= remote.closes
  /\ \A i \in DOMAIN mainQueue :
       mainQueue[i].kind = "token" => mainQueue[i].to.closes <= remote.closes
  /\ \A i \in DOMAIN tasks : tasks[i].kind = "resume" => tasks[i].closes <= remote.closes

IInv == TypeOK /\ Boot /\ Rows /\ Stream /\ Tokens
-----------------------------------------------------------------------------
(* A new getToken call carries the close count it was made under.          *)
LEMMA GetTokenType ==
  ASSUME changes \in Nat, NEW c \in Nat
  PROVE  GetToken(c) \in TokenRequest /\ GetToken(c).closes = c
BY DEF GetToken, TokenRequest, Users

(* A step of the worker queue keeps the one live request with the stream.  *)
LEMMA BecomesTokens ==
  ASSUME TypeOK, Tokens, NEW r \in Remotes, Becomes(r), Moves(remote, r),
         mainQueue' = mainQueue, tasks' \in Seq(Tasks),
         \A i \in DOMAIN tasks' : tasks'[i].kind = "resume" => tasks'[i].closes <= remote.closes,
         r.closes = remote.closes => Hits(tasks', LiveTask(r.closes)) = Hits(tasks, LiveTask(r.closes))
  PROVE  Tokens' /\ tokenRequests' \in Seq(TokenRequest)
<1> DEFINE c == remote.closes
           d == r.closes
           asks == r.stream = "Starting" /\ << r.stream, r.closes >> # << remote.stream, remote.closes >>
<1>1. /\ c \in Nat /\ d \in Nat /\ changes \in Nat /\ tokenRequests \in Seq(TokenRequest)
      /\ mainQueue \in Seq(Blocks) /\ tasks \in Seq(Tasks) /\ remote' = r
  BY DEF TypeOK, Remotes, Becomes
<1>2. d = c \/ d = c + 1
  BY DEF Moves
<1>3. tokenRequests' = IF asks THEN Append(tokenRequests, GetToken(d)) ELSE tokenRequests
  BY DEF Becomes
<1>4. GetToken(d) \in TokenRequest /\ GetToken(d).closes = d /\ GetToken(d) \in LiveRequest(d)
  BY <1>1, GetTokenType DEF LiveRequest
<1>5. tokenRequests' \in Seq(TokenRequest)
  BY <1>1, <1>3, <1>4
<1>6. \A i \in DOMAIN tokenRequests' : tokenRequests'[i].closes <= d
  <2>1. \A i \in DOMAIN tokenRequests : tokenRequests[i] \in TokenRequest /\ tokenRequests[i].closes <= c
    BY <1>1, ElementOfSeq DEF Tokens
  <2>2. \A i \in DOMAIN tokenRequests : tokenRequests[i].closes <= d
    BY <1>1, <1>2, <2>1 DEF TokenRequest
  <2>3. ASSUME asks PROVE \A i \in DOMAIN tokenRequests' : tokenRequests'[i].closes <= d
    <3>1. tokenRequests' = Append(tokenRequests, GetToken(d))
      BY <1>3, <2>3
    <3>2. \A i \in DOMAIN tokenRequests' : tokenRequests'[i] = GetToken(d)
              \/ (i \in DOMAIN tokenRequests /\ tokenRequests'[i] = tokenRequests[i])
      BY <3>1, <1>1, <1>4, AppendProperties
    <3>3. QED
      BY <3>2, <2>2, <1>1, <1>4
  <2>4. QED
    BY <2>2, <2>3, <1>3
<1>7. \A i \in DOMAIN mainQueue : mainQueue[i].kind = "token" => mainQueue[i].to.closes <= d
  <2>1. \A i \in DOMAIN mainQueue : mainQueue[i] \in Blocks
    BY <1>1, ElementOfSeq
  <2>2. \A i \in DOMAIN mainQueue : mainQueue[i].kind = "token" =>
          mainQueue[i].to.closes \in Nat /\ mainQueue[i].to.closes <= c
    BY <2>1 DEF Blocks, TokenRequest, Tokens
  <2>3. QED
    BY <2>2, <1>1, <1>2
<1>8. \A i \in DOMAIN tasks' : tasks'[i].kind = "resume" => tasks'[i].closes <= d
  <2>1. \A i \in DOMAIN tasks' : tasks'[i] \in Tasks
    BY ElementOfSeq
  <2>2. \A i \in DOMAIN tasks' : tasks'[i].kind = "resume" => tasks'[i].closes \in Nat
    BY <2>1 DEF Tasks
  <2>3. QED
    BY <2>2, <1>1, <1>2
<1> DEFINE T == Hits(tokenRequests, LiveRequest(d))
           M == Hits(mainQueue, LiveBlock(d))
           K == Hits(tasks, LiveTask(d))
           T1 == Hits(tokenRequests', LiveRequest(d))
           K1 == Hits(tasks', LiveTask(d))
<1>9. T \in Nat /\ M \in Nat /\ K \in Nat /\ T1 \in Nat /\ K1 \in Nat
  BY <1>1, <1>5, HitsType
<1>10. T1 = T + OneIf(asks)
  <2>1. CASE asks
    BY <2>1, <1>1, <1>3, <1>4, HitsAppend DEF OneIf
  <2>2. CASE ~asks
    <3>1. T1 = T
      BY <2>2, <1>3
    <3>2. QED
      BY <3>1, <2>2, <1>9 DEF OneIf
  <2>3. QED
    BY <2>1, <2>2
<1>11. T1 + M + K1 = OneIf(r.stream = "Starting")
  <2>1. CASE d = c
    <3>1. T + M + K = OneIf(remote.stream = "Starting") /\ K1 = K
      BY <2>1 DEF Tokens, Live
    <3>2. CASE r.stream = remote.stream
      <4>1. OneIf(asks) = 0
        BY <3>2, <2>1 DEF OneIf
      <4>2. QED
        BY <3>1, <3>2, <4>1, <1>9, <1>10
    <3>3. CASE r.stream # remote.stream
      <4>1. remote.stream # "Starting"
        BY <3>3, <2>1, <1>1 DEF Moves
      <4>2. T + M + K = 0
        BY <3>1, <4>1 DEF OneIf
      <4>3. OneIf(asks) = OneIf(r.stream = "Starting") /\ OneIf(asks) \in Nat
        BY <3>3, <2>1 DEF OneIf
      <4>4. QED
        BY <3>1, <4>2, <4>3, <1>9, <1>10
    <3>4. QED
      BY <3>2, <3>3
  <2>2. CASE d = c + 1
    <3>1. T = 0
      <4>1. \A i \in DOMAIN tokenRequests : tokenRequests[i] \notin LiveRequest(d)
        BY <1>1, <2>2 DEF LiveRequest, Tokens
      <4>2. QED
        BY <4>1, HitsNone
    <3>2. M = 0
      <4>1. \A i \in DOMAIN mainQueue : mainQueue[i] \notin LiveBlock(d)
        BY <1>1, <2>2 DEF LiveBlock, Tokens
      <4>2. QED
        BY <4>1, HitsNone
    <3>3. K1 = 0
      <4>1. \A i \in DOMAIN tasks' : tasks'[i] \notin LiveTask(d)
        BY <1>1, <2>2 DEF LiveTask
      <4>2. QED
        BY <4>1, HitsNone
    <3>4. OneIf(asks) = OneIf(r.stream = "Starting") /\ OneIf(asks) \in Nat
      BY <2>2, <1>1 DEF OneIf
    <3>5. QED
      BY <3>1, <3>2, <3>3, <3>4, <1>9, <1>10
  <2>3. QED
    BY <1>2, <2>1, <2>2
<1>12. Live(remote.closes)' = T1 + M + K1
  BY <1>1 DEF Live
<1>13. QED
  BY <1>1, <1>5, <1>6, <1>7, <1>8, <1>11, <1>12 DEF Tokens


(* A block or a request moves on, and the live one is still the only one.  *)
LEMMA SameTokens ==
  ASSUME TypeOK, Tokens, remote'.closes = remote.closes, remote'.stream = remote.stream,
         Live(remote.closes)' = Live(remote.closes),
         \A i \in DOMAIN tokenRequests' : tokenRequests'[i].closes <= remote.closes,
         \A i \in DOMAIN mainQueue' :
           mainQueue'[i].kind = "token" => mainQueue'[i].to.closes <= remote.closes,
         \A i \in DOMAIN tasks' : tasks'[i].kind = "resume" => tasks'[i].closes <= remote.closes
  PROVE  Tokens'
BY DEF Tokens

(* The blocks the actions put on the main queue.                           *)
LEMMA BlockTypes ==
  /\ \A u \in Users : Notice(u) \in Blocks /\ Notice(u).kind = "notice" /\ Notice(u).user = u
  /\ \A r \in Registrations, k \in {"created", "saving"} : [kind |-> k, reg |-> r] \in Blocks
  /\ \A t \in TokenRequest, ok \in BOOLEAN : [kind |-> "token", ok |-> ok, to |-> t] \in Blocks
BY DEF Notice, Blocks

(* The tasks the actions put on the worker queue.                          *)
LEMMA TaskTypes ==
  /\ \A u \in Users, k \in {"init", "user"} : [kind |-> k, user |-> u] \in Tasks
  /\ \A r \in Registrations : [kind |-> "write", reg |-> r] \in Tasks
  /\ \A u \in Users, ok \in BOOLEAN, c \in Nat :
       [kind |-> "resume", user |-> u, ok |-> ok, closes |-> c] \in Tasks
BY DEF Tasks

(* An appended element, by index.                                          *)
LEMMA AppendElements ==
  ASSUME NEW S, NEW s \in Seq(S), NEW e \in S
  PROVE  /\ Append(s, e) \in Seq(S) /\ Len(Append(s, e)) = Len(s) + 1
         /\ \A i \in DOMAIN Append(s, e) : \/ i \in DOMAIN s /\ Append(s, e)[i] = s[i]
                                           \/ i = Len(s) + 1 /\ Append(s, e)[i] = e
         /\ \A i \in DOMAIN s : i \in DOMAIN Append(s, e) /\ Append(s, e)[i] = s[i]
         /\ Len(s) + 1 \in DOMAIN Append(s, e) /\ Append(s, e)[Len(s) + 1] = e
BY AppendProperties

(* Tail moves the elements one place down.                                 *)
LEMMA TailElements ==
  ASSUME NEW S, NEW s \in Seq(S), s # << >>
  PROVE  /\ Tail(s) \in Seq(S) /\ Len(Tail(s)) = Len(s) - 1 /\ Len(s) \in Nat
         /\ \A i \in DOMAIN Tail(s) : i + 1 \in DOMAIN s /\ Tail(s)[i] = s[i + 1]
         /\ 1 \in DOMAIN s /\ Head(s) = s[1] /\ Head(s) \in S
BY HeadTailProperties

(* A sequence whose first element is exchanged for another.                *)
LEMMA HeadReplaced ==
  ASSUME NEW S, NEW s \in Seq(S), s # << >>, NEW b \in S, NEW t, t = << b >> \o Tail(s)
  PROVE  /\ t \in Seq(S) /\ Len(t) = Len(s) /\ DOMAIN t = DOMAIN s
         /\ 1 \in DOMAIN t /\ t[1] = b /\ Head(s) = s[1]
         /\ \A i \in DOMAIN t : i # 1 => t[i] = s[i]
<1>1. Tail(s) \in Seq(S) /\ Len(Tail(s)) = Len(s) - 1 /\ Len(s) \in Nat /\ Len(s) >= 1 /\ Head(s) = s[1]
  OBVIOUS
<1>2. t \in Seq(S) /\ Len(t) = Len(s) /\ DOMAIN t = 1 .. Len(s) /\ t[1] = b
  BY <1>1
<1>3. ASSUME NEW i \in 1 .. Len(s), i # 1 PROVE t[i] = s[i]
  <2>1. t[i] = Tail(s)[i - 1]
    BY <1>1, <1>3
  <2>2. Tail(s)[i - 1] = s[i]
    BY <1>1, <1>3
  <2>3. QED
    BY <2>1, <2>2
<1>4. QED
  BY <1>1, <1>2, <1>3

(* Blocks other than answers put at the end of the main queue.             *)
LEMMA BlocksAdded ==
  ASSUME TypeOK, Boot, Tokens, mainQueue' \in Seq(Blocks),
         \A i \in DOMAIN mainQueue' : mainQueue'[i].kind = "token" =>
           i \in DOMAIN mainQueue /\ mainQueue'[i] = mainQueue[i],
         \A c \in Nat : Hits(mainQueue', LiveBlock(c)) = Hits(mainQueue, LiveBlock(c)),
         UNCHANGED << remote, tokenRequests, tasks, running, nextId, waiting >>
  PROVE  Boot' /\ Tokens'
<1>1. Boot'
  BY DEF Boot
<1>2. remote.closes \in Nat
  BY DEF TypeOK, Remotes
<1>3. Live(remote.closes)' = Live(remote.closes)
  BY <1>2 DEF Live
<1>4. Tokens'
  BY <1>3, SameTokens DEF Tokens
<1>5. QED
  BY <1>1, <1>4

(* A block that is no token callback changes no answer that is on its way. *)
LEMMA AppendBlock ==
  ASSUME NEW s \in Seq(Blocks), NEW b \in Blocks, b.kind # "token"
  PROVE  /\ Append(s, b) \in Seq(Blocks)
         /\ \A i \in DOMAIN Append(s, b) : Append(s, b)[i].kind = "token" =>
              i \in DOMAIN s /\ Append(s, b)[i] = s[i]
         /\ \A c \in Nat : Hits(Append(s, b), LiveBlock(c)) = Hits(s, LiveBlock(c))
<1>1. ASSUME NEW c \in Nat
      PROVE  Hits(Append(s, b), LiveBlock(c)) = Hits(s, LiveBlock(c))
  <2>1. OneIf(b \in LiveBlock(c)) = 0
    BY DEF LiveBlock, OneIf
  <2>2. Hits(s, LiveBlock(c)) \in Nat
    BY HitsType
  <2>3. Hits(Append(s, b), LiveBlock(c)) = Hits(s, LiveBlock(c)) + OneIf(b \in LiveBlock(c))
    BY HitsAppend
  <2>4. QED
    BY <2>1, <2>2, <2>3
<1>2. QED
  BY <1>1, AppendElements

(* Two blocks dispatched together are dispatched one after the other.      *)
LEMMA TwoAppended ==
  ASSUME NEW S, NEW s \in Seq(S), NEW a \in S, NEW b \in S
  PROVE  s \o << a, b >> = Append(Append(s, a), b)
OBVIOUS

(* A block taken from the front of the main queue.                         *)
LEMMA MainTail ==
  ASSUME TypeOK, Boot, Tokens, mainQueue # << >>, Head(mainQueue).kind # "token",
         mainQueue' = Tail(mainQueue)
  PROVE  /\ mainQueue' \in Seq(Blocks)
         /\ \A i \in DOMAIN mainQueue' : i + 1 \in DOMAIN mainQueue /\ mainQueue'[i] = mainQueue[i + 1]
         /\ \A c \in Nat : Hits(mainQueue', LiveBlock(c)) = Hits(mainQueue, LiveBlock(c))
<1>1. mainQueue \in Seq(Blocks)
  BY DEF TypeOK
<1>2. /\ mainQueue' \in Seq(Blocks) /\ Dropped(mainQueue, 1, mainQueue')
      /\ 1 \in DOMAIN mainQueue /\ Head(mainQueue) = mainQueue[1]
      /\ \A i \in DOMAIN mainQueue' : i + 1 \in DOMAIN mainQueue /\ mainQueue'[i] = mainQueue[i + 1]
  BY <1>1, TailDropped, TailElements
<1>3. ASSUME NEW c \in Nat
      PROVE  Hits(mainQueue', LiveBlock(c)) = Hits(mainQueue, LiveBlock(c))
  <2>1. OneIf(mainQueue[1] \in LiveBlock(c)) = 0
    BY <1>2 DEF LiveBlock, OneIf
  <2>2. Hits(mainQueue, LiveBlock(c)) = Hits(mainQueue', LiveBlock(c)) + OneIf(mainQueue[1] \in LiveBlock(c))
    <3> DEFINE s == mainQueue
               t == mainQueue'
    <3>1. s \in Seq(Blocks) /\ t \in Seq(Blocks) /\ 1 \in DOMAIN s /\ Dropped(s, 1, t)
      BY <1>1, <1>2
    <3> HIDE DEF s, t
    <3>2. Hits(s, LiveBlock(c)) = Hits(t, LiveBlock(c)) + OneIf(s[1] \in LiveBlock(c))
      BY <3>1, HitsDropped
    <3>3. QED
      BY <3>2 DEF s, t
  <2>3. Hits(mainQueue', LiveBlock(c)) \in Nat
    BY <1>2, HitsType
  <2>4. QED
    BY <2>1, <2>2, <2>3
<1>4. QED
  BY <1>2, <1>3

-----------------------------------------------------------------------------
(* FirebaseAuth.                                                           *)
LEMMA CreateUserStep ==
  ASSUME IInv, NEW r \in Registrations, CreateUser(r)
  PROVE  IInv'
<1> DEFINE a == Notice(r)
           b == [kind |-> "created", reg |-> r]
           one == Append(mainQueue, a)
<1>1. TypeOK /\ Boot /\ Rows /\ Stream /\ Tokens
  BY DEF IInv
<1>2. a \in Blocks /\ a.kind = "notice" /\ b \in Blocks /\ mainQueue \in Seq(Blocks)
  BY <1>1, BlockTypes DEF TypeOK, Users
<1>3. mainQueue' = Append(one, b)
  BY <1>2, TwoAppended DEF CreateUser
<1> HIDE DEF a
<1>4. /\ one \in Seq(Blocks)
      /\ \A i \in DOMAIN one : one[i].kind = "token" => i \in DOMAIN mainQueue /\ one[i] = mainQueue[i]
      /\ \A c \in Nat : Hits(one, LiveBlock(c)) = Hits(mainQueue, LiveBlock(c))
  BY <1>2, AppendBlock
<1> HIDE DEF one
<1>5. /\ mainQueue' \in Seq(Blocks)
      /\ \A i \in DOMAIN mainQueue' : mainQueue'[i].kind = "token" =>
           i \in DOMAIN one /\ mainQueue'[i] = one[i]
      /\ \A c \in Nat : Hits(mainQueue', LiveBlock(c)) = Hits(one, LiveBlock(c))
  BY <1>2, <1>3, <1>4, AppendBlock
<1>6. Boot' /\ Tokens'
  BY <1>1, <1>4, <1>5, BlocksAdded DEF CreateUser, memory
<1>7. TypeOK'
  BY <1>1, <1>5 DEF CreateUser, TypeOK, memory, app, disk, server
<1>8. Rows' /\ Stream'
  BY <1>1 DEF CreateUser, Rows, Stream, memory, disk
<1>9. QED
  BY <1>6, <1>7, <1>8 DEF IInv

(* ChangeSession puts a notice on the main queue; nothing of the stream    *)
(* moves.                                                                  *)
LEMMA ChangeSessionStep ==
  ASSUME IInv, NEW u \in Users, ChangeSession(u)
  PROVE  IInv'
<1>1. TypeOK /\ Boot /\ Rows /\ Stream /\ Tokens
  BY DEF IInv
<1>2. Notice(u) \in Blocks /\ Notice(u).kind = "notice" /\ mainQueue \in Seq(Blocks)
  BY <1>1, BlockTypes DEF TypeOK
<1>3. mainQueue' = Append(mainQueue, Notice(u))
  BY DEF ChangeSession
<1>4. /\ mainQueue' \in Seq(Blocks)
      /\ \A i \in DOMAIN mainQueue' : mainQueue'[i].kind = "token" =>
           i \in DOMAIN mainQueue /\ mainQueue'[i] = mainQueue[i]
      /\ \A c \in Nat : Hits(mainQueue', LiveBlock(c)) = Hits(mainQueue, LiveBlock(c))
  BY <1>2, <1>3, AppendBlock
<1>5. Boot' /\ Tokens'
  BY <1>1, <1>4, BlocksAdded DEF ChangeSession, memory
<1>6. signIns' \in 0 .. MaxSignIns
  BY <1>1, FirestoreAssumption DEF TypeOK, ChangeSession
<1>7. TypeOK'
  BY <1>1, <1>4, <1>6 DEF ChangeSession, TypeOK, memory, app, disk, server
<1>8. Rows' /\ Stream'
  BY <1>1 DEF ChangeSession, Rows, Stream, memory, disk
<1>9. QED
  BY <1>5, <1>7, <1>8 DEF IInv

(* ReadUser changes the user of a getToken call and not its close count.   *)
LEMMA ReadUserStep ==
  ASSUME IInv, NEW i \in DOMAIN tokenRequests, ReadUser(i)
  PROVE  IInv'
<1>1. TypeOK /\ Boot /\ Rows /\ Stream /\ Tokens
  BY DEF IInv
<1>2. tokenRequests \in Seq(TokenRequest) /\ session \in Users /\ remote.closes \in Nat
  BY <1>1 DEF TypeOK, Users, Remotes
<1> DEFINE t == [tokenRequests[i] EXCEPT !.read = TRUE, !.user = session]
<1>3. tokenRequests[i] \in TokenRequest
  BY <1>2, ElementOfSeq
<1>4. t \in TokenRequest /\ t.closes = tokenRequests[i].closes
  BY <1>2, <1>3 DEF TokenRequest
<1>5. tokenRequests' = [tokenRequests EXCEPT ![i] = t]
  BY DEF ReadUser
<1> HIDE DEF t
<1>6. /\ tokenRequests' \in Seq(TokenRequest) /\ DOMAIN tokenRequests' = DOMAIN tokenRequests
      /\ \A j \in DOMAIN tokenRequests : tokenRequests'[j] = IF j = i THEN t ELSE tokenRequests[j]
  BY <1>2, <1>4, <1>5, ExceptSeq
<1>7. \A j \in DOMAIN tokenRequests : /\ tokenRequests[j] \in TokenRequest /\ tokenRequests'[j] \in TokenRequest
                                     /\ tokenRequests'[j].closes = tokenRequests[j].closes
  BY <1>2, <1>4, <1>6, ElementOfSeq
<1>8. Hits(tokenRequests', LiveRequest(remote.closes)) = Hits(tokenRequests, LiveRequest(remote.closes))
  <2>1. \A j \in DOMAIN tokenRequests :
          tokenRequests'[j] \in LiveRequest(remote.closes) <=> tokenRequests[j] \in LiveRequest(remote.closes)
    BY <1>7 DEF LiveRequest
  <2>2. QED
    BY <2>1, <1>6, HitsSame
<1>9. UNCHANGED << remote, mainQueue, tasks, running, nextId, waiting, changes >>
  BY DEF ReadUser, memory
<1>10. Tokens'
  <2>1. Live(remote.closes)' = Live(remote.closes)
    BY <1>8, <1>9 DEF Live
  <2>2. \A j \in DOMAIN tokenRequests' : tokenRequests'[j].closes <= remote.closes
    BY <1>1, <1>6, <1>7 DEF Tokens
  <2>3. QED
    BY <1>1, <1>9, <2>1, <2>2, SameTokens DEF Tokens
<1>11. Boot'
  <2>1. nextId # 0
    BY <1>1 DEF Boot
  <2>2. QED
    BY <1>1, <1>9, <2>1 DEF Boot
<1>12. TypeOK'
  BY <1>1, <1>6 DEF ReadUser, TypeOK, memory, app, auth, disk, server
<1>13. Rows' /\ Stream'
  BY <1>1 DEF ReadUser, Rows, Stream, memory, disk
<1>14. QED
  BY <1>10, <1>11, <1>12, <1>13 DEF IInv

(* The answer to a request becomes a block: where there was a live request *)
(* there is a live block.                                                  *)
LEMMA AnswerTokenStep ==
  ASSUME IInv, NEW k \in DOMAIN tokenRequests, NEW ok \in BOOLEAN, AnswerToken(k, ok)
  PROVE  IInv'
<1> DEFINE t == tokenRequests[k]
           b == [kind |-> "token", ok |-> ok, to |-> t]
           c == remote.closes
<1>1. TypeOK /\ Boot /\ Rows /\ Stream /\ Tokens
  BY DEF IInv
<1>2. tokenRequests \in Seq(TokenRequest) /\ mainQueue \in Seq(Blocks) /\ c \in Nat
      /\ tasks \in Seq(Tasks)
  BY <1>1 DEF TypeOK, Remotes
<1>3. t \in TokenRequest /\ t.closes <= c
  BY <1>1, <1>2, ElementOfSeq DEF Tokens
<1> HIDE DEF t
<1>4. b \in Blocks /\ b.kind = "token" /\ b.to = t
  BY <1>3, BlockTypes
<1>5. b \in LiveBlock(c) <=> t \in LiveRequest(c)
  BY <1>3, <1>4 DEF LiveBlock, LiveRequest
<1>6. tokenRequests' = RemoveAt(tokenRequests, k) /\ mainQueue' = Append(mainQueue, b)
  BY DEF AnswerToken, t
<1> HIDE DEF b
<1>7. tokenRequests' \in Seq(TokenRequest) /\ Dropped(tokenRequests, k, tokenRequests')
  BY <1>2, <1>6, RemoveAtDropped
<1>8. /\ mainQueue' \in Seq(Blocks)
      /\ \A i \in DOMAIN mainQueue' : \/ i \in DOMAIN mainQueue /\ mainQueue'[i] = mainQueue[i]
                                      \/ mainQueue'[i] = b
  BY <1>2, <1>4, <1>6, AppendElements
<1>9. Hits(tokenRequests, LiveRequest(c)) = Hits(tokenRequests', LiveRequest(c)) + OneIf(t \in LiveRequest(c))
  <2> DEFINE s == tokenRequests
             s1 == tokenRequests'
  <2>1. s \in Seq(TokenRequest) /\ s1 \in Seq(TokenRequest) /\ k \in DOMAIN s /\ Dropped(s, k, s1)
    BY <1>2, <1>7
  <2> HIDE DEF s, s1
  <2>2. Hits(s, LiveRequest(c)) = Hits(s1, LiveRequest(c)) + OneIf(s[k] \in LiveRequest(c))
    BY <2>1, HitsDropped
  <2>3. QED
    BY <2>2 DEF s, s1, t
<1>10. Hits(mainQueue', LiveBlock(c)) = Hits(mainQueue, LiveBlock(c)) + OneIf(b \in LiveBlock(c))
  BY <1>2, <1>4, <1>6, HitsAppend
<1>11. /\ Hits(tokenRequests', LiveRequest(c)) \in Nat /\ Hits(mainQueue, LiveBlock(c)) \in Nat
       /\ Hits(tasks, LiveTask(c)) \in Nat /\ OneIf(t \in LiveRequest(c)) \in Nat
  BY <1>2, <1>7, HitsType DEF OneIf
<1>12. UNCHANGED << remote, tasks, running, nextId, waiting, changes >>
  BY DEF AnswerToken, memory
<1>13. Live(c)' = Live(c)
  BY <1>5, <1>9, <1>10, <1>11, <1>12 DEF Live
<1>14. \A i \in DOMAIN tokenRequests' : tokenRequests'[i].closes <= c
  <2>1. \A i \in DOMAIN tokenRequests' : i \in DOMAIN tokenRequests /\ i + 1 \in DOMAIN tokenRequests
    BY <1>2, <1>7 DEF Dropped
  <2>2. \A i \in DOMAIN tokenRequests' : tokenRequests'[i] = tokenRequests[i] \/ tokenRequests'[i] = tokenRequests[i + 1]
    BY <1>2, <1>7 DEF Dropped
  <2>3. QED
    BY <1>1, <2>1, <2>2 DEF Tokens
<1>15. Tokens'
  BY <1>1, <1>3, <1>4, <1>8, <1>12, <1>13, <1>14, SameTokens DEF Tokens
<1>16. Boot'
  <2>1. nextId # 0
    BY <1>1 DEF Boot
  <2>2. QED
    BY <1>1, <1>12, <2>1 DEF Boot
<1>17. faults' \in 0 .. MaxFaults
  BY <1>1, FirestoreAssumption DEF TypeOK, AnswerToken
<1>18. TypeOK'
  BY <1>1, <1>7, <1>8, <1>17 DEF AnswerToken, TypeOK, memory, app, auth, disk, server
<1>19. Rows' /\ Stream'
  BY <1>1 DEF AnswerToken, Rows, Stream, memory, disk
<1>20. QED
  BY <1>15, <1>16, <1>18, <1>19 DEF IInv
-----------------------------------------------------------------------------
(* The main queue.                                                         *)

(* A block that is no answer is run and the tasks it appends resume        *)
(* nothing.                                                                *)
LEMMA BlockRun ==
  ASSUME TypeOK, Boot, Tokens, mainQueue # << >>, Head(mainQueue).kind # "token",
         mainQueue' = Tail(mainQueue), tasks' \in Seq(Tasks),
         \A i \in DOMAIN tasks' : tasks'[i].kind = "resume" =>
           i \in DOMAIN tasks /\ tasks'[i] = tasks[i],
         \A c \in Nat : Hits(tasks', LiveTask(c)) = Hits(tasks, LiveTask(c)),
         UNCHANGED << remote, tokenRequests >>
  PROVE  Tokens' /\ mainQueue' \in Seq(Blocks)
<1>1. /\ mainQueue' \in Seq(Blocks)
      /\ \A i \in DOMAIN mainQueue' : i + 1 \in DOMAIN mainQueue /\ mainQueue'[i] = mainQueue[i + 1]
      /\ \A c \in Nat : Hits(mainQueue', LiveBlock(c)) = Hits(mainQueue, LiveBlock(c))
  BY MainTail
<1>2. remote.closes \in Nat
  BY DEF TypeOK, Remotes
<1>3. Live(remote.closes)' = Live(remote.closes)
  BY <1>1, <1>2 DEF Live
<1>4. Tokens'
  BY <1>1, <1>3, SameTokens DEF Tokens
<1>5. QED
  BY <1>1, <1>4

(* A task that is no resume changes no answer that is on its way.          *)
LEMMA AppendTask ==
  ASSUME NEW s \in Seq(Tasks), NEW t \in Tasks, t.kind # "resume"
  PROVE  /\ Append(s, t) \in Seq(Tasks)
         /\ \A i \in DOMAIN Append(s, t) : Append(s, t)[i].kind = "resume" =>
              i \in DOMAIN s /\ Append(s, t)[i] = s[i]
         /\ \A c \in Nat : Hits(Append(s, t), LiveTask(c)) = Hits(s, LiveTask(c))
<1>1. ASSUME NEW c \in Nat
      PROVE  Hits(Append(s, t), LiveTask(c)) = Hits(s, LiveTask(c))
  <2>1. OneIf(t \in LiveTask(c)) = 0
    BY DEF LiveTask, OneIf
  <2>2. Hits(s, LiveTask(c)) \in Nat
    BY HitsType
  <2>3. Hits(Append(s, t), LiveTask(c)) = Hits(s, LiveTask(c)) + OneIf(t \in LiveTask(c))
    BY HitsAppend
  <2>4. QED
    BY <2>1, <2>2, <2>3
<1>2. QED
  BY <1>1, AppendElements

(* CredentialChange appends a task of the worker queue that is no resume.  *)
LEMMA CredentialChangeStep ==
  ASSUME IInv, CredentialChange
  PROVE  IInv'
<1> DEFINE t == [kind |-> "user", user |-> Head(mainQueue).user]
<1>1. TypeOK /\ Boot /\ Rows /\ Stream /\ Tokens
  BY DEF IInv
<1>2. /\ mainQueue # << >> /\ Head(mainQueue).kind = "notice" /\ mainQueue' = Tail(mainQueue)
      /\ UNCHANGED << remote, tokenRequests, running, nextId, waiting >>
  BY DEF CredentialChange, RunBlock, memory
<1>3. mainQueue \in Seq(Blocks) /\ tasks \in Seq(Tasks)
  BY <1>1 DEF TypeOK
<1>4. t \in Tasks /\ t.kind = "user"
  <2>1. Head(mainQueue) \in Blocks
    BY <1>2, <1>3, TailElements
  <2>2. Head(mainQueue).user \in Users
    BY <1>2, <2>1 DEF Blocks
  <2>3. QED
    BY <2>2, TaskTypes
<1> HIDE DEF t
<1>5. \/ running /\ tasks' = Append(tasks, t) /\ changes' = changes + 1
      \/ ~running /\ UNCHANGED << changes, tasks >>
  BY DEF CredentialChange, t
<1>6. /\ tasks' \in Seq(Tasks) /\ changes' \in Nat
      /\ \A i \in DOMAIN tasks' : tasks'[i].kind = "resume" => i \in DOMAIN tasks /\ tasks'[i] = tasks[i]
      /\ \A c \in Nat : Hits(tasks', LiveTask(c)) = Hits(tasks, LiveTask(c))
  <2>1. changes' \in Nat
    BY <1>1, <1>5 DEF TypeOK
  <2>2. CASE tasks' = Append(tasks, t)
    BY <2>1, <2>2, <1>3, <1>4, AppendTask
  <2>3. CASE tasks' = tasks
    BY <2>1, <2>3, <1>3
  <2>4. QED
    BY <1>5, <2>2, <2>3
<1>7. Tokens' /\ mainQueue' \in Seq(Blocks)
  BY <1>1, <1>2, <1>6, BlockRun
<1>8. /\ \A i \in DOMAIN mainQueue' : i + 1 \in DOMAIN mainQueue /\ mainQueue'[i] = mainQueue[i + 1]
  BY <1>2, <1>3, TailElements
<1>9. Boot'
  <2>1. CASE running /\ tasks' = Append(tasks, t)
    <3>1. /\ \A i \in DOMAIN tasks' : \/ i \in DOMAIN tasks /\ tasks'[i] = tasks[i]
                                      \/ tasks'[i] = t
          /\ \A i \in DOMAIN tasks : i \in DOMAIN tasks' /\ tasks'[i] = tasks[i]
      BY <2>1, <1>3, <1>4, AppendElements
    <3>2. nextId = 0 => 1 \in DOMAIN tasks /\ tasks' # << >>
      <4>1. tasks # << >> => 1 \in DOMAIN tasks
        BY <1>3
      <4>2. QED
        BY <1>1, <2>1, <3>1, <4>1 DEF Boot
    <3>3. QED
      BY <1>1, <1>2, <1>4, <1>8, <2>1, <3>1, <3>2 DEF Boot
  <2>2. CASE ~running /\ tasks' = tasks
    BY <1>1, <1>2, <1>8, <2>2 DEF Boot
  <2>3. QED
    BY <1>5, <2>1, <2>2
<1>10. TypeOK'
  BY <1>1, <1>6, <1>7 DEF CredentialChange, TypeOK, memory, app, auth, disk, server
<1>11. Rows' /\ Stream'
  BY <1>1 DEF CredentialChange, Rows, Stream, memory, disk
<1>12. QED
  BY <1>7, <1>9, <1>10, <1>11 DEF IInv

(* saveInfoToFirestore goes on to setData.                                 *)
LEMMA SaveInfoStep ==
  ASSUME IInv, NEW r \in Registrations, saveInfoToFirestore(r)
  PROVE  IInv'
<1> DEFINE b == [kind |-> "saving", reg |-> r]
<1>1. TypeOK /\ Boot /\ Rows /\ Stream /\ Tokens /\ mainQueue \in Seq(Blocks)
  BY DEF IInv, TypeOK
<1>2. b \in Blocks /\ b.kind = "saving" /\ session \in Users
  BY <1>1, BlockTypes DEF TypeOK, Users
<1>3. /\ mainQueue # << >> /\ Head(mainQueue).kind = "created"
      /\ mainQueue' = << b >> \o Tail(mainQueue)
  BY DEF saveInfoToFirestore
<1> HIDE DEF b
<1>4. /\ mainQueue' \in Seq(Blocks) /\ DOMAIN mainQueue' = DOMAIN mainQueue
      /\ mainQueue'[1] = b /\ Head(mainQueue) = mainQueue[1]
      /\ \A i \in DOMAIN mainQueue' : i # 1 => mainQueue'[i] = mainQueue[i]
  BY <1>1, <1>2, <1>3, HeadReplaced
<1>5. /\ mainQueue'[1].kind # "token" /\ mainQueue[1].kind # "token"
      /\ \A i \in DOMAIN mainQueue' : mainQueue'[i].kind = "token" =>
           i \in DOMAIN mainQueue /\ mainQueue'[i] = mainQueue[i]
  BY <1>2, <1>3, <1>4
<1>6. ASSUME NEW c \in Nat
      PROVE  Hits(mainQueue', LiveBlock(c)) = Hits(mainQueue, LiveBlock(c))
  <2>1. \A i \in DOMAIN mainQueue : mainQueue'[i] \in LiveBlock(c) <=> mainQueue[i] \in LiveBlock(c)
    BY <1>4, <1>5 DEF LiveBlock
  <2>2. {i \in DOMAIN mainQueue' : mainQueue'[i] \in LiveBlock(c)}
          = {i \in DOMAIN mainQueue : mainQueue[i] \in LiveBlock(c)}
    BY <1>4, <2>1
  <2>3. QED
    BY <2>2 DEF Hits
<1>7. Boot' /\ Tokens'
  BY <1>1, <1>4, <1>5, <1>6, BlocksAdded DEF saveInfoToFirestore, memory
<1>8. docUid' \in [Registrations -> Users]
  BY <1>1, <1>2 DEF saveInfoToFirestore, TypeOK
<1>9. TypeOK'
  BY <1>1, <1>4, <1>8 DEF saveInfoToFirestore, TypeOK, memory, auth, disk, server
<1>10. Rows' /\ Stream'
  BY <1>1 DEF saveInfoToFirestore, Rows, Stream, memory, disk
<1>11. QED
  BY <1>7, <1>9, <1>10 DEF IInv

(* The first setData makes the client: Initialize is its first task.       *)
LEMMA SetDataStep ==
  ASSUME IInv, NEW r \in Registrations, SetData(r)
  PROVE  IInv'
<1> DEFINE w == [kind |-> "write", reg |-> r]
           i0 == [kind |-> "init", user |-> session]
           e == EnsureClientConfigured
<1>1. TypeOK /\ Boot /\ Rows /\ Stream /\ Tokens
  BY DEF IInv
<1>2. /\ mainQueue # << >> /\ Head(mainQueue).kind = "saving" /\ mainQueue' = Tail(mainQueue)
      /\ UNCHANGED << remote, tokenRequests, nextId, waiting, changes >> /\ running' = TRUE
      /\ tasks' = Append(e, w)
  BY DEF SetData, RunBlock, memory
<1>3. mainQueue \in Seq(Blocks) /\ tasks \in Seq(Tasks) /\ session \in Users
  BY <1>1 DEF TypeOK, Users
<1>4. w \in Tasks /\ w.kind = "write" /\ i0 \in Tasks /\ i0.kind = "init"
  BY <1>3, TaskTypes
<1> HIDE DEF w, i0
<1>5. e = IF running THEN tasks ELSE << i0 >>
  BY DEF EnsureClientConfigured, i0
<1>6. ~running => tasks = << >> /\ nextId = 0
  BY <1>1 DEF Boot
<1> HIDE DEF e
<1>7. /\ e \in Seq(Tasks)
      /\ e # << >> => 1 \in DOMAIN e
      /\ \A i \in DOMAIN e : e[i].kind = "resume" => i \in DOMAIN tasks /\ e[i] = tasks[i]
      /\ \A i \in DOMAIN e : e[i].kind = "init" => i = 1 /\ nextId = 0
      /\ \A c \in Nat : Hits(e, LiveTask(c)) = Hits(tasks, LiveTask(c))
      /\ nextId = 0 => e # << >> /\ e[1].kind = "init"
  <2>1. CASE running
    BY <1>1, <1>3, <1>5, <2>1 DEF Boot
  <2>2. CASE ~running
    <3>1. e = << i0 >> /\ e \in Seq(Tasks) /\ DOMAIN e = {1} /\ e[1] = i0 /\ e # << >>
      BY <1>4, <1>5, <2>2
    <3>2. ASSUME NEW c \in Nat PROVE Hits(e, LiveTask(c)) = 0
      <4>1. \A i \in DOMAIN e : e[i] \notin LiveTask(c)
        BY <3>1, <1>4 DEF LiveTask
      <4>2. QED
        BY <4>1, HitsNone
    <3>3. ASSUME NEW c \in Nat PROVE Hits(tasks, LiveTask(c)) = 0
      <4>1. \A i \in DOMAIN tasks : tasks[i] \notin LiveTask(c)
        BY <1>6, <2>2
      <4>2. QED
        BY <4>1, HitsNone
    <3>4. QED
      BY <3>1, <3>2, <3>3, <1>4, <1>6, <2>2
  <2>3. QED
    BY <2>1, <2>2
<1>8. /\ tasks' \in Seq(Tasks)
      /\ \A i \in DOMAIN tasks' : tasks'[i].kind = "resume" => i \in DOMAIN e /\ tasks'[i] = e[i]
      /\ \A c \in Nat : Hits(tasks', LiveTask(c)) = Hits(e, LiveTask(c))
  BY <1>2, <1>4, <1>7, AppendTask
<1>9. /\ \A i \in DOMAIN tasks' : tasks'[i].kind = "resume" => i \in DOMAIN tasks /\ tasks'[i] = tasks[i]
      /\ \A c \in Nat : Hits(tasks', LiveTask(c)) = Hits(tasks, LiveTask(c))
  BY <1>7, <1>8
<1>10. Tokens' /\ mainQueue' \in Seq(Blocks)
  BY <1>1, <1>2, <1>8, <1>9, BlockRun
<1>11. /\ \A i \in DOMAIN mainQueue' : i + 1 \in DOMAIN mainQueue /\ mainQueue'[i] = mainQueue[i + 1]
  BY <1>2, <1>3, TailElements
<1>12. Boot'
  <2>1. /\ \A i \in DOMAIN tasks' : \/ i \in DOMAIN e /\ tasks'[i] = e[i]
                                    \/ tasks'[i] = w
        /\ \A i \in DOMAIN e : i \in DOMAIN tasks' /\ tasks'[i] = e[i]
    BY <1>2, <1>4, <1>7, AppendElements
  <2>2. nextId = 0 => tasks' # << >> /\ tasks'[1].kind = "init"
    BY <2>1, <1>7
  <2>3. QED
    BY <1>1, <1>2, <1>4, <1>7, <1>9, <1>11, <2>1, <2>2 DEF Boot
<1>13. strayed' \subseteq Registrations
  BY <1>1 DEF SetData, TypeOK
<1>14. TypeOK'
  BY <1>1, <1>8, <1>10, <1>13 DEF SetData, TypeOK, memory, auth, disk, server
<1>15. Rows' /\ Stream'
  BY <1>1 DEF SetData, Rows, Stream, memory, disk
<1>16. QED
  BY <1>10, <1>12, <1>14, <1>15 DEF IInv

(* The block of an answer becomes a task, or a new request.                *)
LEMMA TokenCallbackStep ==
  ASSUME IInv, TokenCallback
  PROVE  IInv'
<1> DEFINE block == Head(mainQueue)
           t == block.to
           c == remote.closes
           g == GetToken(t.closes)
           k == [kind |-> "resume", user |-> t.user, ok |-> block.ok, closes |-> t.closes]
<1>1. TypeOK /\ Boot /\ Rows /\ Stream /\ Tokens
  BY DEF IInv
<1>2. /\ mainQueue # << >> /\ block.kind = "token" /\ mainQueue' = Tail(mainQueue)
      /\ UNCHANGED << remote, running, nextId, waiting, changes >>
      /\ \/ tokenRequests' = Append(tokenRequests, g) /\ UNCHANGED tasks
         \/ tasks' = Append(tasks, k) /\ UNCHANGED tokenRequests
  BY DEF TokenCallback, RunBlock, memory
<1>3. mainQueue \in Seq(Blocks) /\ tasks \in Seq(Tasks) /\ tokenRequests \in Seq(TokenRequest)
      /\ c \in Nat /\ changes \in Nat
  BY <1>1 DEF TypeOK, Remotes
<1>4. /\ mainQueue' \in Seq(Blocks) /\ Dropped(mainQueue, 1, mainQueue')
      /\ 1 \in DOMAIN mainQueue /\ block = mainQueue[1] /\ block \in Blocks
      /\ \A i \in DOMAIN mainQueue' : i + 1 \in DOMAIN mainQueue /\ mainQueue'[i] = mainQueue[i + 1]
  BY <1>2, <1>3, TailDropped, TailElements
<1> HIDE DEF block
<1>5. t \in TokenRequest /\ block.ok \in BOOLEAN
  BY <1>2, <1>4 DEF Blocks
<1>6. t.closes \in Nat /\ t.user \in Users /\ t.closes <= c
  BY <1>1, <1>2, <1>4, <1>5 DEF TokenRequest, Tokens
<1>7. block \in LiveBlock(c) <=> t.closes = c
  BY <1>2, <1>4 DEF LiveBlock
<1> HIDE DEF t
<1>8. g \in TokenRequest /\ g.closes = t.closes
  BY <1>3, <1>6, GetTokenType
<1>9. k \in Tasks /\ k.kind = "resume" /\ k.closes = t.closes
  BY <1>5, <1>6, TaskTypes
<1>10. (g \in LiveRequest(c) <=> t.closes = c) /\ (k \in LiveTask(c) <=> t.closes = c)
  BY <1>8, <1>9 DEF LiveRequest, LiveTask
<1> HIDE DEF g, k
<1> DEFINE T == Hits(tokenRequests, LiveRequest(c))
           M == Hits(mainQueue, LiveBlock(c))
           K == Hits(tasks, LiveTask(c))
           M1 == Hits(mainQueue', LiveBlock(c))
           n == OneIf(t.closes = c)
<1>11. T \in Nat /\ M \in Nat /\ K \in Nat /\ M1 \in Nat /\ n \in Nat
  BY <1>3, <1>4, HitsType DEF OneIf
<1>12. M = M1 + n
  <2> DEFINE s == mainQueue
             s1 == mainQueue'
  <2>1. s \in Seq(Blocks) /\ s1 \in Seq(Blocks) /\ 1 \in DOMAIN s /\ Dropped(s, 1, s1)
    BY <1>3, <1>4
  <2> HIDE DEF s, s1
  <2>2. Hits(s, LiveBlock(c)) = Hits(s1, LiveBlock(c)) + OneIf(s[1] \in LiveBlock(c))
    BY <2>1, HitsDropped
  <2>3. QED
    BY <2>2, <1>4, <1>7 DEF s, s1, OneIf
<1>13. \A i \in DOMAIN mainQueue' : mainQueue'[i].kind = "token" => mainQueue'[i].to.closes <= c
  BY <1>1, <1>4 DEF Tokens
<1>14. nextId # 0 /\ running
  BY <1>1, <1>2, <1>4 DEF Boot
<1>15. CASE tokenRequests' = Append(tokenRequests, g) /\ tasks' = tasks
  <2>1. Hits(tokenRequests', LiveRequest(c)) = T + n
    BY <1>3, <1>8, <1>10, <1>15, HitsAppend DEF OneIf
  <2>2. /\ tokenRequests' \in Seq(TokenRequest)
        /\ \A i \in DOMAIN tokenRequests' : \/ i \in DOMAIN tokenRequests /\ tokenRequests'[i] = tokenRequests[i]
                                            \/ tokenRequests'[i] = g
    BY <1>3, <1>8, <1>15, AppendElements
  <2>3. Live(c)' = Live(c)
    BY <2>1, <1>2, <1>11, <1>12, <1>15 DEF Live
  <2>4. Tokens'
    <3>1. \A i \in DOMAIN tokenRequests' : tokenRequests'[i].closes <= c
      BY <1>1, <1>6, <1>8, <2>2 DEF Tokens
    <3>2. \A i \in DOMAIN tasks' : tasks'[i].kind = "resume" => tasks'[i].closes <= c
      BY <1>1, <1>15 DEF Tokens
    <3>3. QED
      BY <1>1, <1>2, <1>13, <2>3, <3>1, <3>2, SameTokens
  <2>5. Boot'
    BY <1>1, <1>2, <1>14, <1>15 DEF Boot
  <2>6. TypeOK'
    BY <1>1, <1>4, <1>15, <2>2 DEF TokenCallback, TypeOK, memory, app, auth, disk, server
  <2>7. Rows' /\ Stream'
    BY <1>1 DEF TokenCallback, Rows, Stream, memory, disk
  <2>8. QED
    BY <2>4, <2>5, <2>6, <2>7 DEF IInv
<1>16. CASE tasks' = Append(tasks, k) /\ tokenRequests' = tokenRequests
  <2>1. Hits(tasks', LiveTask(c)) = K + n
    BY <1>3, <1>9, <1>10, <1>16, HitsAppend DEF OneIf
  <2>2. /\ tasks' \in Seq(Tasks)
        /\ \A i \in DOMAIN tasks' : \/ i \in DOMAIN tasks /\ tasks'[i] = tasks[i]
                                    \/ tasks'[i] = k
    BY <1>3, <1>9, <1>16, AppendElements
  <2>3. Live(c)' = Live(c)
    BY <2>1, <1>2, <1>11, <1>12, <1>16 DEF Live
  <2>4. Tokens'
    <3>1. \A i \in DOMAIN tokenRequests' : tokenRequests'[i].closes <= c
      BY <1>1, <1>16 DEF Tokens
    <3>2. \A i \in DOMAIN tasks' : tasks'[i].kind = "resume" => tasks'[i].closes <= c
      BY <1>1, <1>6, <1>9, <2>2 DEF Tokens
    <3>3. QED
      BY <1>1, <1>2, <1>13, <2>3, <3>1, <3>2, SameTokens
  <2>5. Boot'
    BY <1>1, <1>2, <1>9, <1>14, <2>2 DEF Boot
  <2>6. TypeOK'
    BY <1>1, <1>4, <1>16, <2>2 DEF TokenCallback, TypeOK, memory, app, auth, disk, server
  <2>7. Rows' /\ Stream'
    BY <1>1 DEF TokenCallback, Rows, Stream, memory, disk
  <2>8. QED
    BY <2>4, <2>5, <2>6, <2>7 DEF IInv
<1>17. QED
  BY <1>2, <1>15, <1>16

-----------------------------------------------------------------------------
(* A new process, and the death of one.                                    *)
LEMMA IdleOK ==
  /\ \A q \in Seq(Batch) : RemoteOK(Idle, q)
  /\ Idle.closes = 0 /\ Idle.stream = "Initial"
  /\ Idle.pipeline = << >> /\ Idle.call = NoCall /\ ~Idle.idle
<1>1. NoCall \in Calls
  BY DEF NoCall, Calls, Users
<1>2. Idle \in Remotes
  BY <1>1 DEF Idle, Remotes
<1>3. StreamOK(Idle)
  BY DEF Idle, StreamOK, IsStarted, NoCall
<1>4. \A q \in Seq(Batch) : Prefix(Idle.pipeline, q) /\ Len(Idle.pipeline) <= MaxPendingWrites
  <2>1. ASSUME NEW q \in Seq(Batch) PROVE Prefix(<< >>, q)
    <3>1. Len(<< >>) = 0
      OBVIOUS
    <3>2. QED
      BY <3>1 DEF Prefix
  <2>2. QED
    BY <2>1, FirestoreAssumption DEF Idle, Prefix
<1>5. QED
  BY <1>2, <1>3, <1>4 DEF RemoteOK, Idle

(* What an abandoned call may still write are the documents of             *)
(* registrations.                                                          *)
LEMMA FlightType ==
  ASSUME NEW call \in Calls
  PROVE  InFlight(call) \subseteq Registrations
<1>1. call.requests \in Seq(Messages)
  BY DEF Calls
<1>2. \A i \in DOMAIN call.requests : call.requests[i] \in Messages
  BY <1>1, ElementOfSeq
<1>3. \A m \in Messages : m.reg \in Registrations \cup {None}
  BY DEF Messages, Batch, Hello
<1>4. QED
  BY <1>2, <1>3 DEF InFlight

(* No answer is on its way in an empty queue.                              *)
LEMMA NoHits ==
  /\ \A c : Hits(<< >>, LiveRequest(c)) = 0
  /\ \A c : Hits(<< >>, LiveBlock(c)) = 0
  /\ \A c : Hits(<< >>, LiveTask(c)) = 0
<1>1. ASSUME NEW P PROVE Hits(<< >>, P) = 0
  <2>1. \A i \in DOMAIN << >> : << >>[i] \notin P
    OBVIOUS
  <2>2. QED
    BY <2>1, HitsNone
<1>2. QED
  BY <1>1

(* The initial states.                                                     *)
LEMMA InitInv == Init => IInv
<1> SUFFICES ASSUME Init PROVE IInv
  OBVIOUS
<1>1. TypeOK
  <2>1. << >> \in Seq(Blocks) /\ << >> \in Seq(TokenRequest) /\ << >> \in Seq(Tasks) /\ << >> \in Seq(Batch)
    OBVIOUS
  <2>2. 0 \in 0 .. MaxSignIns /\ 0 \in 0 .. MaxFaults /\ None \in Users
    BY FirestoreAssumption DEF Users
  <2>3. remote \in Remotes /\ Len(remote.pipeline) <= MaxPendingWrites
    BY <2>1, IdleOK DEF Init, RemoteOK
  <2>4. queue \in [Users -> Seq(Batch)] /\ waiting \in [Users -> SUBSET Batch]
    BY <2>1 DEF Init
  <2>5. QED
    BY <2>1, <2>2, <2>3, <2>4 DEF Init, TypeOK
<1>2. Boot
  BY DEF Init, Boot
<1>3. Rows
  BY DEF Init, Rows, Ascending
<1>4. Stream
  <2>1. queue[syncUser] = << >> /\ << >> \in Seq(Batch) /\ remote = Idle
    BY DEF Init, Users
  <2>2. QED
    BY <2>1, IdleOK DEF Stream
<1>5. Tokens
  <2>1. remote.closes = 0 /\ remote.stream = "Initial"
    BY IdleOK DEF Init
  <2>2. Live(remote.closes) = 0
    BY NoHits DEF Init, Live
  <2>3. QED
    BY <2>1, <2>2 DEF Init, Tokens, OneIf
<1>6. QED
  BY <1>1, <1>2, <1>3, <1>4, <1>5 DEF IInv

(* The death of the process: the queues on disk stay in order, the memory  *)
(* starts over.                                                            *)
LEMMA DieStep ==
  ASSUME IInv, Die, told' \in [Registrations -> {"none", "ok", "error"}], faults' \in 0 .. MaxFaults
  PROVE  IInv'
<1>1. TypeOK /\ Boot /\ Rows
  BY DEF IInv
<1>2. remote' = Idle
  BY DEF Die
<1>3. TypeOK'
  <2>1. << >> \in Seq(Blocks) /\ << >> \in Seq(TokenRequest) /\ << >> \in Seq(Tasks) /\ << >> \in Seq(Batch)
    OBVIOUS
  <2>2. late' \subseteq Registrations
    <3>1. remote.call \in Calls
      BY <1>1 DEF TypeOK, Remotes
    <3>2. QED
      BY <1>1, <3>1, FlightType DEF Die, TypeOK
  <2>3. remote' \in Remotes /\ Len(remote'.pipeline) <= MaxPendingWrites
    BY <1>2, <2>1, IdleOK DEF RemoteOK
  <2>4. /\ mainQueue' \in Seq(Blocks) /\ tokenRequests' \in Seq(TokenRequest) /\ tasks' \in Seq(Tasks)
        /\ running' \in BOOLEAN /\ changes' \in Nat /\ syncUser' \in Users /\ nextId' \in Nat
        /\ waiting' \in [Users -> SUBSET Batch]
    BY <2>1 DEF Die, Users
  <2>5. QED
    BY <1>1, <2>2, <2>3, <2>4 DEF Die, TypeOK, auth, disk, server
<1>4. Boot'
  BY DEF Die, Boot
<1>5. Rows'
  BY <1>1 DEF Die, Rows, disk
<1>6. Stream'
  <2>1. queue[None] \in Seq(Batch)
    BY <1>1 DEF TypeOK, Users
  <2>2. queue'[syncUser'] = queue[None]
    BY DEF Die, disk
  <2>3. QED
    BY <1>2, <2>1, <2>2, IdleOK DEF Stream
<1>7. Tokens'
  <2>1. remote'.closes = 0 /\ remote'.stream = "Initial"
    BY <1>2, IdleOK
  <2>2. Live(remote.closes)' = 0
    BY NoHits DEF Die, Live
  <2>3. QED
    BY <2>1, <2>2 DEF Die, Tokens, OneIf
<1>8. QED
  BY <1>3, <1>4, <1>5, <1>6, <1>7 DEF IInv

(* The three actions that end the process.                                 *)
LEMMA KillStep ==
  ASSUME IInv, Kill \/ EmptyUidCrash \/ KillAfterNotify
  PROVE  IInv'
<1>1. TypeOK
  BY DEF IInv
<1>2. Die
  BY DEF Kill, EmptyUidCrash, KillAfterNotify
<1>3. told' \in [Registrations -> {"none", "ok", "error"}]
  BY <1>1 DEF Kill, EmptyUidCrash, KillAfterNotify, TypeOK
<1>4. faults' \in 0 .. MaxFaults
  BY <1>1, FirestoreAssumption DEF Kill, EmptyUidCrash, KillAfterNotify, TypeOK
<1>5. QED
  BY <1>2, <1>3, <1>4, DieStep

-----------------------------------------------------------------------------
(* The worker queue, the timers and the reads of the stream.               *)

(* The tasks after the first.                                              *)
LEMMA TasksRest ==
  ASSUME TypeOK, Boot, Tokens, tasks # << >>, tasks' = Tail(tasks)
  PROVE  /\ tasks' \in Seq(Tasks)
         /\ Head(tasks) = tasks[1] /\ 1 \in DOMAIN tasks /\ Head(tasks) \in Tasks
         /\ \A i \in DOMAIN tasks' : i + 1 \in DOMAIN tasks /\ tasks'[i] = tasks[i + 1]
         /\ \A i \in DOMAIN tasks' : tasks'[i].kind # "init"
         /\ \A i \in DOMAIN tasks' : tasks'[i].kind = "resume" => tasks'[i].closes <= remote.closes
         /\ \A c : Hits(tasks, LiveTask(c)) = Hits(tasks', LiveTask(c)) + OneIf(Head(tasks) \in LiveTask(c))
         /\ \A c : Hits(tasks', LiveTask(c)) \in Nat
<1>1. tasks \in Seq(Tasks)
  BY DEF TypeOK
<1>2. /\ tasks' \in Seq(Tasks) /\ Dropped(tasks, 1, tasks')
      /\ Head(tasks) = tasks[1] /\ 1 \in DOMAIN tasks /\ Head(tasks) \in Tasks
      /\ \A i \in DOMAIN tasks' : i + 1 \in DOMAIN tasks /\ tasks'[i] = tasks[i + 1]
  BY <1>1, TailDropped, TailElements
<1>3. \A i \in DOMAIN tasks' : i \in Nat \ {0}
  BY <1>2
<1>4. \A i \in DOMAIN tasks' : tasks'[i].kind # "init"
  <2>1. SUFFICES ASSUME NEW i \in DOMAIN tasks', tasks[i + 1].kind = "init" PROVE FALSE
    BY <1>2
  <2>2. i + 1 = 1
    BY <1>2, <2>1 DEF Boot
  <2>3. QED
    BY <1>3, <2>2
<1>5. \A i \in DOMAIN tasks' : tasks'[i].kind = "resume" => tasks'[i].closes <= remote.closes
  BY <1>2 DEF Tokens
<1>6. ASSUME NEW c
      PROVE  Hits(tasks, LiveTask(c)) = Hits(tasks', LiveTask(c)) + OneIf(Head(tasks) \in LiveTask(c))
  <2> DEFINE s == tasks
             t == tasks'
  <2>1. s \in Seq(Tasks) /\ t \in Seq(Tasks) /\ 1 \in DOMAIN s /\ Dropped(s, 1, t)
    BY <1>1, <1>2
  <2> HIDE DEF s, t
  <2>2. Hits(s, LiveTask(c)) = Hits(t, LiveTask(c)) + OneIf(s[1] \in LiveTask(c))
    BY <2>1, HitsDropped
  <2>3. QED
    BY <2>2, <1>2 DEF s, t
<1>7. \A c : Hits(tasks', LiveTask(c)) \in Nat
  BY <1>2, HitsType
<1>8. QED
  BY <1>2, <1>4, <1>5, <1>6, <1>7

(* Boot, once the client is initialized, as long as no second init is      *)
(* queued.                                                                 *)
LEMMA BootLater ==
  ASSUME Boot, nextId # 0 \/ tasks # << >>, nextId' # 0, running' = running,
         \A i \in DOMAIN tasks' : tasks'[i].kind # "init"
  PROVE  Boot'
BY DEF Boot

(* The types of what a step of the worker may change besides remote.       *)
OtherTypes ==
  /\ told' \in [Registrations -> {"none", "ok", "error"}]
  /\ waiting' \in [Users -> SUBSET Batch]
  /\ queue' \in [Users -> Seq(Batch)]
  /\ outcome' \in [Registrations -> {"none", "acked", "rejected"}]
  /\ syncUser' \in Users /\ nextId' \in Nat
  /\ faults' \in 0 .. MaxFaults

(* Becomes keeps the types when the new state of the stream has its own.   *)
LEMMA BecomesTypes ==
  ASSUME TypeOK, OtherTypes, NEW r \in Remotes, Len(r.pipeline) <= MaxPendingWrites, Becomes(r),
         tokenRequests' \in Seq(TokenRequest), tasks' \in Seq(Tasks),
         UNCHANGED << auth, mainQueue, docUid, strayed, running, changes, server >>
  PROVE  TypeOK'
<1>1. remote' = r
  BY DEF Becomes
<1>2. late' \subseteq Registrations
  <2>1. InFlight(remote.call) \subseteq Registrations
    BY FlightType DEF TypeOK, Remotes
  <2>2. QED
    BY <2>1 DEF Becomes, TypeOK
<1>3. QED
  BY <1>1, <1>2 DEF TypeOK, OtherTypes, auth, server

(* A step that runs at most one task, which is no live answer unless the   *)
(* stream is closed.                                                       *)
LEMMA WorkerStep ==
  ASSUME IInv, NEW r, Becomes(r), RemoteOK(r, queue'[syncUser']), Moves(remote, r),
         Rows', OtherTypes, nextId # 0 \/ tasks # << >>, nextId' # 0,
         \/ tasks' = tasks /\ nextId # 0
         \/ tasks # << >> /\ tasks' = Tail(tasks)
              /\ (Head(tasks).kind # "resume" \/ r.closes # remote.closes),
         UNCHANGED << auth, mainQueue, docUid, strayed, running, changes, server >>
  PROVE  IInv'
<1>1. TypeOK /\ Boot /\ Tokens
  BY DEF IInv
<1>2. r \in Remotes /\ Len(r.pipeline) <= MaxPendingWrites /\ remote' = r
  BY DEF RemoteOK, Becomes
<1>3. /\ tasks' \in Seq(Tasks)
      /\ \A i \in DOMAIN tasks' : tasks'[i].kind # "init"
      /\ \A i \in DOMAIN tasks' : tasks'[i].kind = "resume" => tasks'[i].closes <= remote.closes
      /\ r.closes = remote.closes => Hits(tasks', LiveTask(r.closes)) = Hits(tasks, LiveTask(r.closes))
  <2>1. CASE tasks' = tasks /\ nextId # 0
    <3>1. tasks \in Seq(Tasks)
      BY <1>1 DEF TypeOK
    <3>2. \A i \in DOMAIN tasks' : tasks'[i].kind # "init"
      BY <1>1, <2>1 DEF Boot
    <3>3. \A i \in DOMAIN tasks' : tasks'[i].kind = "resume" => tasks'[i].closes <= remote.closes
      BY <1>1, <2>1 DEF Tokens
    <3>4. QED
      BY <2>1, <3>1, <3>2, <3>3
  <2>2. CASE /\ tasks # << >> /\ tasks' = Tail(tasks)
             /\ Head(tasks).kind # "resume" \/ r.closes # remote.closes
    <3>1. /\ tasks' \in Seq(Tasks)
          /\ \A i \in DOMAIN tasks' : tasks'[i].kind # "init"
          /\ \A i \in DOMAIN tasks' : tasks'[i].kind = "resume" => tasks'[i].closes <= remote.closes
          /\ \A c : Hits(tasks, LiveTask(c)) = Hits(tasks', LiveTask(c)) + OneIf(Head(tasks) \in LiveTask(c))
          /\ \A c : Hits(tasks', LiveTask(c)) \in Nat
      BY <1>1, <2>2, TasksRest
    <3>2. CASE Head(tasks).kind # "resume"
      <4>1. OneIf(Head(tasks) \in LiveTask(r.closes)) = 0
        BY <3>2 DEF LiveTask, OneIf
      <4>2. Hits(tasks', LiveTask(r.closes)) = Hits(tasks, LiveTask(r.closes))
        BY <3>1, <4>1
      <4>3. QED
        BY <3>1, <4>2
    <3>3. CASE r.closes # remote.closes
      BY <3>1, <3>3
    <3>4. QED
      BY <2>2, <3>2, <3>3
  <2>3. QED
    BY <2>1, <2>2
<1>4. Tokens' /\ tokenRequests' \in Seq(TokenRequest)
  BY <1>1, <1>2, <1>3, BecomesTokens
<1>5. TypeOK'
  BY <1>1, <1>2, <1>3, <1>4, BecomesTypes
<1>6. Boot'
  BY <1>1, <1>3, BootLater
<1>7. Stream'
  BY <1>2 DEF Stream
<1>8. QED
  BY <1>4, <1>5, <1>6, <1>7 DEF IInv

-----------------------------------------------------------------------------
(* The mutation queues.                                                    *)

(* The id LoadNextBatchId returns is above those of all queues.            *)
LEMMA NextIdAbove ==
  ASSUME TypeOK, Rows, NEW u
  PROVE  /\ LoadNextBatchId(u) \in Nat \ {0}
         /\ \A v \in Users : \A i \in DOMAIN queue[v] : queue[v][i].id < LoadNextBatchId(u)
<1> DEFINE S == {0} \cup Ids(queue)
<1>1. \A v \in Users : \A i \in DOMAIN queue[v] : queue[v][i].id \in Nat
  <2>1. \A v \in Users : queue[v] \in Seq(Batch)
    BY DEF TypeOK
  <2>2. \A v \in Users : \A i \in DOMAIN queue[v] : queue[v][i] \in Batch
    BY <2>1, ElementOfSeq
  <2>3. QED
    BY <2>2 DEF Batch
<1>2. \A x \in Ids(queue) : \E v \in Users : \E i \in DOMAIN queue[v] : x = queue[v][i].id
  BY DEF Ids
<1>3. \A v \in Users : \A i \in DOMAIN queue[v] : queue[v][i].id \in Ids(queue)
  BY DEF Ids
<1>4. PICK n \in Nat : \A v \in Users : \A i \in DOMAIN queue[v] : queue[v][i].id <= n
  BY DEF Rows
<1>5. S \in SUBSET Nat /\ S # {} /\ \A x \in S : x <= n
  BY <1>1, <1>2, <1>4
<1>6. LoadNextBatchId(u) = 1 + Max(S)
  BY DEF LoadNextBatchId
<1> HIDE DEF S
<1>7. Max(S) \in S /\ \A x \in S : x <= Max(S)
  BY <1>5, MaxOfBounded
<1> DEFINE m == Max(S)
<1>8. m \in Nat /\ LoadNextBatchId(u) = 1 + m /\ \A x \in S : x <= m
  BY <1>5, <1>6, <1>7
<1> HIDE DEF m
<1>9. \A v \in Users : \A i \in DOMAIN queue[v] : queue[v][i].id \in S
  BY <1>3 DEF S
<1>10. QED
  BY <1>1, <1>8, <1>9

(* Rows, when the queues and the callbacks stay and nextId does not fall.  *)
LEMMA RowsKept ==
  ASSUME Rows, UNCHANGED << queue, waiting >>,
         \A u \in Users : \A i \in DOMAIN queue[u] : nextId' # 0 => queue[u][i].id < nextId'
  PROVE  Rows'
BY DEF Rows

(* AddMutationBatch puts a row at the end.                                 *)
LEMMA RowAdded ==
  ASSUME TypeOK, Rows, Stream, nextId # 0, NEW reg \in Registrations, AddMutationBatch(reg),
         waiting' = [waiting EXCEPT ![syncUser] = @ \cup {Last(queue'[syncUser])}]
  PROVE  /\ Rows' /\ RemoteOK(remote, queue'[syncUser])
         /\ queue' \in [Users -> Seq(Batch)] /\ waiting' \in [Users -> SUBSET Batch]
         /\ nextId' \in Nat \ {0}
<1> DEFINE b == [id |-> nextId, reg |-> reg]
           q == queue[syncUser]
           q1 == Append(q, b)
<1>1. b \in Batch /\ b.id = nextId /\ nextId \in Nat \ {0} /\ syncUser \in Users /\ q \in Seq(Batch)
  BY DEF TypeOK, Batch
<1> HIDE DEF b, q
<1>2. /\ q1 \in Seq(Batch) /\ Len(q1) = Len(q) + 1 /\ Len(q) \in Nat
      /\ DOMAIN q = 1 .. Len(q) /\ DOMAIN q1 = 1 .. Len(q) + 1
      /\ \A i \in 1 .. Len(q) : q1[i] = q[i]
      /\ q1[Len(q) + 1] = b
  BY <1>1, AppendProperties
<1> HIDE DEF q1
<1>3. queue' = [queue EXCEPT ![syncUser] = q1] /\ nextId' = nextId + 1
  BY DEF AddMutationBatch, b, q, q1
<1>4. /\ queue' \in [Users -> Seq(Batch)] /\ queue'[syncUser] = q1
      /\ \A u \in Users : u # syncUser => queue'[u] = queue[u]
  BY <1>1, <1>2, <1>3 DEF TypeOK
<1>5. Last(queue'[syncUser]) = b
  BY <1>2, <1>4 DEF Last
<1>6. /\ waiting' \in [Users -> SUBSET Batch] /\ waiting'[syncUser] = waiting[syncUser] \cup {b}
      /\ \A u \in Users : u # syncUser => waiting'[u] = waiting[u]
  BY <1>1, <1>5 DEF TypeOK
<1>7. \A i \in 1 .. Len(q) : q[i].id < nextId /\ q[i].id \in Nat
  <2>1. \A i \in 1 .. Len(q) : q[i] \in Batch
    BY <1>1, <1>2, ElementOfSeq
  <2>2. \A i \in 1 .. Len(q) : q[i].id < nextId
    BY <1>1, <1>2 DEF Rows, q
  <2>3. QED
    BY <2>1, <2>2 DEF Batch
<1>8. Ascending(q1)
  <2>1. \A i, j \in 1 .. Len(q) : i < j => q[i].id < q[j].id
    BY <1>1, <1>2 DEF Rows, Ascending, q
  <2>2. QED
    BY <1>1, <1>2, <1>7, <2>1 DEF Ascending
<1>9. /\ \A i \in DOMAIN q1 : \/ i \in DOMAIN q /\ q1[i] = q[i]
                              \/ q1[i] = b
      /\ \A i \in DOMAIN q : i \in DOMAIN q1 /\ q1[i] = q[i]
      /\ Len(q) + 1 \in DOMAIN q1
  BY <1>2
<1>10. \A u \in Users : \A i \in DOMAIN queue'[u] :
         \/ i \in DOMAIN queue[u] /\ queue'[u][i] = queue[u][i]
         \/ u = syncUser /\ queue'[u][i] = b
  BY <1>4, <1>9 DEF q
<1>11. \A u \in Users : \A i \in DOMAIN queue[u] : queue[u][i].id < nextId /\ queue[u][i].id \in Nat
  <2>1. \A u \in Users : queue[u] \in Seq(Batch)
    BY DEF TypeOK
  <2>2. \A u \in Users : \A i \in DOMAIN queue[u] : queue[u][i] \in Batch
    BY <2>1, ElementOfSeq
  <2>3. QED
    BY <2>2 DEF Batch, Rows
<1>12. Rows'
  <2>1. \A u \in Users : Ascending(queue'[u])
    BY <1>4, <1>8 DEF Rows
  <2>2. \A u \in Users : \A i \in DOMAIN queue'[u] : queue'[u][i].id < nextId' /\ queue'[u][i].id <= nextId'
    BY <1>1, <1>3, <1>10, <1>11
  <2>3. \A u, v \in Users : \A i \in DOMAIN queue'[u], j \in DOMAIN queue'[v] :
          queue'[u][i].id = queue'[v][j].id => u = v
    <3> SUFFICES ASSUME NEW u \in Users, NEW v \in Users,
                        NEW i \in DOMAIN queue'[u], NEW j \in DOMAIN queue'[v],
                        queue'[u][i].id = queue'[v][j].id
                 PROVE  u = v
      OBVIOUS
    <3>1. CASE i \in DOMAIN queue[u] /\ queue'[u][i] = queue[u][i]
      <4>1. CASE j \in DOMAIN queue[v] /\ queue'[v][j] = queue[v][j]
        BY <3>1, <4>1 DEF Rows
      <4>2. CASE v = syncUser /\ queue'[v][j] = b
        BY <3>1, <4>2, <1>1, <1>11
      <4>3. QED
        BY <4>1, <4>2, <1>10
    <3>2. CASE u = syncUser /\ queue'[u][i] = b
      <4>1. CASE j \in DOMAIN queue[v] /\ queue'[v][j] = queue[v][j]
        BY <3>2, <4>1, <1>1, <1>11
      <4>2. CASE v = syncUser /\ queue'[v][j] = b
        BY <3>2, <4>2
      <4>3. QED
        BY <4>1, <4>2, <1>10
    <3>3. QED
      BY <3>1, <3>2, <1>10
  <2>4. \A u \in Users : waiting'[u] \subseteq ToSet(queue'[u])
    <3>1. waiting[syncUser] \subseteq ToSet(q)
      BY <1>1 DEF Rows, q
    <3>2. ToSet(q) \subseteq ToSet(q1) /\ b \in ToSet(q1)
      BY <1>2, <1>9 DEF ToSet
    <3>3. waiting'[syncUser] \subseteq ToSet(queue'[syncUser])
      BY <3>1, <3>2, <1>4, <1>6
    <3>4. QED
      BY <3>3, <1>4, <1>6 DEF Rows
  <2>5. nextId' \in Nat
    BY <1>1, <1>3
  <2>6. QED
    BY <2>1, <2>2, <2>3, <2>4, <2>5 DEF Rows
<1>13. RemoteOK(remote, queue'[syncUser])
  <2>1. RemoteOK(remote, q)
    BY DEF Stream, q
  <2>2. Prefix(remote.pipeline, q1)
    BY <1>2, <2>1 DEF RemoteOK, Prefix, Remotes
  <2>3. QED
    BY <1>4, <2>1, <2>2 DEF RemoteOK
<1>14. QED
  BY <1>1, <1>3, <1>4, <1>6, <1>12, <1>13

(* The batch at the front of the pipeline is the first row of the queue,   *)
(* and no other row has its id.                                            *)
LEMMA FrontRow ==
  ASSUME TypeOK, Rows, Stream, remote.pipeline # << >>
  PROVE  LET q == queue[syncUser]
             b == Head(remote.pipeline)
         IN /\ b \in Batch /\ 1 \in DOMAIN q /\ q[1] = b /\ Row(q, b) = 1
            /\ Tail(remote.pipeline) \in Seq(Batch)
            /\ Len(Tail(remote.pipeline)) <= MaxPendingWrites
            /\ \A i \in DOMAIN q : q[i].id = b.id => i = 1
<1> DEFINE q == queue[syncUser]
           p == remote.pipeline
           b == Head(p)
<1>1. q \in Seq(Batch) /\ p \in Seq(Batch) /\ Prefix(p, q) /\ Len(p) <= MaxPendingWrites
  BY DEF TypeOK, Stream, RemoteOK, Remotes
<1>2. Ascending(q)
  BY DEF Rows, TypeOK
<1> HIDE DEF q
<1>3. /\ Tail(p) \in Seq(Batch) /\ Len(Tail(p)) = Len(p) - 1 /\ Len(p) \in Nat
      /\ 1 \in DOMAIN p /\ b = p[1] /\ b \in Batch
  BY <1>1, TailElements
<1> HIDE DEF p, b
<1>4. 1 \in DOMAIN q /\ q[1] = b
  BY <1>1, <1>3 DEF Prefix
<1>5. \A i \in DOMAIN q : q[i].id = b.id => i = 1
  <2>1. \A i \in DOMAIN q : q[i] \in Batch /\ i \in Nat
    BY <1>1, ElementOfSeq
  <2>2. \A i \in DOMAIN q : 1 < i => q[1].id < q[i].id
    BY <1>2, <1>4 DEF Ascending
  <2>3. \A i \in DOMAIN q : q[i].id \in Nat
    BY <2>1 DEF Batch
  <2>4. \A i \in DOMAIN q : i = 1 \/ 1 < i
    BY <1>1
  <2>5. b.id \in Nat
    BY <1>3 DEF Batch
  <2>6. QED
    BY <2>2, <2>3, <2>4, <2>5, <1>4
<1>6. Row(q, b) = 1
  BY <1>4, <1>5 DEF Row
<1>7. Len(Tail(p)) <= MaxPendingWrites
  BY <1>1, <1>3, FirestoreAssumption
<1>8. QED
  BY <1>3, <1>4, <1>5, <1>6, <1>7 DEF q, p, b

(* RemoveBatch and NotifyUser for the first batch of the pipeline: it is   *)
(* the first row of the queue, so the rest of the pipeline is a prefix of  *)
(* the rest of the queue, and the callback goes with the row.              *)
LEMMA RowRemoved ==
  ASSUME TypeOK, Rows, Stream, remote.pipeline # << >>, nextId' = nextId, UNCHANGED syncUser,
         NEW how \in {"acked", "rejected"}, RemoveBatch(Head(remote.pipeline), how),
         NEW answer \in {"ok", "error"}, NotifyUser(Head(remote.pipeline).id, answer)
  PROVE  /\ Rows' /\ Prefix(Tail(remote.pipeline), queue'[syncUser])
         /\ queue' \in [Users -> Seq(Batch)] /\ waiting' \in [Users -> SUBSET Batch]
         /\ outcome' \in [Registrations -> {"none", "acked", "rejected"}]
         /\ told' \in [Registrations -> {"none", "ok", "error"}]
<1> DEFINE q == queue[syncUser]
           p == remote.pipeline
           b == Head(p)
           q1 == RemoveAt(q, 1)
           found == {c \in waiting[syncUser] : c.id = b.id}
<1>1. /\ b \in Batch /\ 1 \in DOMAIN q /\ q[1] = b /\ Row(q, b) = 1
      /\ \A i \in DOMAIN q : q[i].id = b.id => i = 1
  BY FrontRow
<1>2. q \in Seq(Batch) /\ p \in Seq(Batch) /\ Prefix(p, q) /\ Ascending(q) /\ syncUser \in Users
  BY DEF TypeOK, Stream, RemoteOK, Remotes, Rows
<1>3. queue' = [queue EXCEPT ![syncUser] = q1]
  BY <1>1 DEF RemoveBatch
<1>4. waiting' = [waiting EXCEPT ![syncUser] = waiting[syncUser] \ found]
  BY DEF NotifyUser
<1>5. outcome' \in [Registrations -> {"none", "acked", "rejected"}]
  BY DEF RemoveBatch, TypeOK
<1>6. told' \in [Registrations -> {"none", "ok", "error"}]
  <2>1. told' = [r \in Registrations |-> IF \E c \in found : c.reg = r THEN answer ELSE told[r]]
    BY DEF NotifyUser
  <2>2. told \in [Registrations -> {"none", "ok", "error"}]
    BY DEF TypeOK
  <2> HIDE DEF found
  <2>3. QED
    BY <2>1, <2>2
<1> HIDE DEF q, b
<1>7. /\ q1 \in Seq(Batch) /\ Len(q1) = Len(q) - 1 /\ Len(q) \in Nat /\ DOMAIN q = 1 .. Len(q)
      /\ \A i \in 1 .. Len(q) - 1 : q1[i] = q[i + 1]
  <2>1. q1 \in Seq(Batch) /\ Dropped(q, 1, q1)
    BY <1>1, <1>2, RemoveAtDropped
  <2> HIDE DEF q1
  <2>2. Len(q1) = Len(q) - 1 /\ \A i \in 1 .. Len(q1) : q1[i] = IF i < 1 THEN q[i] ELSE q[i + 1]
    BY <2>1 DEF Dropped
  <2>3. Len(q) \in Nat /\ DOMAIN q = 1 .. Len(q)
    BY <1>2
  <2>4. QED
    BY <2>1, <2>2, <2>3
<1> HIDE DEF q1
<1>8. /\ queue' \in [Users -> Seq(Batch)] /\ queue'[syncUser] = q1
      /\ \A u \in Users : u # syncUser => queue'[u] = queue[u]
  BY <1>2, <1>3, <1>7 DEF TypeOK
<1>9. /\ waiting' \in [Users -> SUBSET Batch] /\ waiting'[syncUser] = waiting[syncUser] \ found
      /\ \A u \in Users : u # syncUser => waiting'[u] = waiting[u]
  BY <1>2, <1>4 DEF TypeOK
<1>10. \A i \in DOMAIN q1 : i + 1 \in DOMAIN q /\ q1[i] = q[i + 1] /\ i \in Nat
  BY <1>7
<1>11. \A u \in Users : \A i \in DOMAIN queue'[u] : \E j \in DOMAIN queue[u] : queue'[u][i] = queue[u][j]
  BY <1>8, <1>10 DEF q
<1>12. Rows'
  <2>1. \A u \in Users : Ascending(queue'[u])
    <3>1. Ascending(q1)
      BY <1>2, <1>10 DEF Ascending
    <3>2. QED
      BY <3>1, <1>8 DEF Rows
  <2>2. \A u \in Users : \A i \in DOMAIN queue'[u] : nextId' # 0 => queue'[u][i].id < nextId'
    BY <1>11 DEF Rows
  <2>3. \A u, v \in Users : \A i \in DOMAIN queue'[u], j \in DOMAIN queue'[v] :
          queue'[u][i].id = queue'[v][j].id => u = v
    BY <1>11 DEF Rows
  <2>4. \E n \in Nat : \A u \in Users : \A i \in DOMAIN queue'[u] : queue'[u][i].id <= n
    BY <1>11 DEF Rows
  <2>5. \A u \in Users : waiting'[u] \subseteq ToSet(queue'[u])
    <3>1. ASSUME NEW c \in waiting[syncUser], c \notin found
          PROVE  c \in ToSet(q1)
      <4>1. PICK i \in DOMAIN q : c = q[i]
        BY <1>2 DEF Rows, ToSet, q
      <4>2. i # 1 /\ i \in 1 .. Len(q)
        BY <3>1, <4>1, <1>1, <1>7
      <4>3. i - 1 \in DOMAIN q1 /\ q1[i - 1] = c
        BY <4>1, <4>2, <1>7
      <4>4. QED
        BY <4>3 DEF ToSet
    <3> HIDE DEF found
    <3>2. waiting'[syncUser] \subseteq ToSet(queue'[syncUser])
      BY <3>1, <1>8, <1>9
    <3>3. QED
      BY <3>2, <1>8, <1>9 DEF Rows
  <2>6. QED
    BY <2>1, <2>2, <2>3, <2>4, <2>5 DEF Rows
<1>13. Prefix(Tail(p), q1)
  <2>0. p # << >>
    OBVIOUS
  <2>1. /\ Len(Tail(p)) = Len(p) - 1 /\ Len(p) \in Nat /\ \A i \in 1 .. Len(p) - 1 : Tail(p)[i] = p[i + 1]
    BY <1>2, <2>0, HeadTailProperties
  <2> HIDE DEF p
  <2>2. Len(p) <= Len(q) /\ \A i \in 1 .. Len(p) : p[i] = q[i]
    BY <1>2 DEF Prefix
  <2>3. Len(Tail(p)) <= Len(q1)
    BY <2>1, <2>2, <1>7
  <2>4. ASSUME NEW i \in 1 .. Len(p) - 1
        PROVE  Tail(p)[i] = q1[i]
    <3>1. i \in 1 .. Len(q) - 1 /\ i + 1 \in 1 .. Len(p)
      BY <2>1, <2>2, <1>7
    <3>2. QED
      BY <3>1, <2>1, <2>2, <1>7
  <2>5. QED
    BY <2>1, <2>3, <2>4 DEF Prefix
<1>14. QED
  BY <1>5, <1>6, <1>8, <1>9, <1>12, <1>13

-----------------------------------------------------------------------------
(* The tasks of the worker queue.                                          *)

(* FillWritePipeline starts a stream only where there was none.            *)
LEMMA FillMoves ==
  ASSUME NEW r, NEW s, s.closes = r.closes, s.stream = r.stream \/ ~IsStarted(r)
  PROVE  Moves(r, s)
BY DEF Moves, IsStarted

(* The first task is init before the client is initialized and no init     *)
(* later.                                                                  *)
LEMMA FirstTask ==
  ASSUME IInv, tasks # << >>
  PROVE  /\ Head(tasks) = tasks[1] /\ 1 \in DOMAIN tasks /\ Head(tasks) \in Tasks
         /\ Head(tasks).kind # "init" => nextId # 0
         /\ Head(tasks).kind = "init" => nextId = 0
<1>1. tasks \in Seq(Tasks) /\ Boot
  BY DEF IInv, TypeOK
<1>2. Head(tasks) = tasks[1] /\ 1 \in DOMAIN tasks /\ Head(tasks) \in Tasks
  BY <1>1, TailElements
<1>3. QED
  BY <1>1, <1>2 DEF Boot

(* Initialize: LoadNextBatchId is above every row, and the pipeline is     *)
(* filled from the queue of the new user.                                  *)
LEMMA InitializeStep ==
  ASSUME IInv, Initialize
  PROVE  IInv'
<1> DEFINE u == Head(tasks).user
           r == FillWritePipeline(remote, queue[u])
<1>1. TypeOK /\ Boot /\ Rows
  BY DEF IInv
<1>2. /\ tasks # << >> /\ Head(tasks).kind = "init" /\ tasks' = Tail(tasks)
      /\ syncUser' = u /\ nextId' = LoadNextBatchId(u) /\ Becomes(r)
      /\ UNCHANGED << auth, mainQueue, docUid, strayed, told, running, changes, waiting, queue, outcome, server, faults >>
  BY DEF Initialize, RunTask, app, disk
<1>3. Head(tasks) \in Tasks /\ nextId = 0
  BY <1>2, FirstTask
<1>4. remote = Idle /\ u \in Users
  BY <1>1, <1>2, <1>3 DEF Boot, Tasks
<1> HIDE DEF u
<1>5. queue[u] \in Seq(Batch) /\ Ascending(queue[u])
  BY <1>1, <1>4 DEF TypeOK, Rows
<1>6. RemoteOK(remote, queue[u])
  BY <1>4, <1>5, IdleOK
<1>7. /\ RemoteOK(r, queue[u]) /\ (r.stream = remote.stream \/ ~IsStarted(remote))
      /\ r.closes = remote.closes
  BY <1>5, <1>6, FillOK
<1> HIDE DEF r
<1>8. Moves(remote, r)
  BY <1>7, FillMoves
<1>9. nextId' \in Nat \ {0} /\ Rows'
  <2>1. /\ LoadNextBatchId(u) \in Nat \ {0}
        /\ \A v \in Users : \A i \in DOMAIN queue[v] : queue[v][i].id < LoadNextBatchId(u)
    BY <1>1, NextIdAbove
  <2>2. QED
    BY <2>1, <1>1, <1>2, RowsKept
<1>10. OtherTypes
  BY <1>1, <1>2, <1>4, <1>9 DEF OtherTypes, TypeOK
<1>11. RemoteOK(r, queue'[syncUser'])
  <2>1. queue'[syncUser'] = queue[u]
    BY <1>2
  <2>2. QED
    BY <2>1, <1>7
<1>12. QED
  BY <1>2, <1>8, <1>9, <1>10, <1>11, WorkerStep

(* HandleCredentialChange: the restart empties the pipeline before the     *)
(* queue of the new user fills it.                                         *)
LEMMA HandleCredentialChangeStep ==
  ASSUME IInv, HandleCredentialChange
  PROVE  IInv'
<1> DEFINE u == Head(tasks).user
           r == RestartNetwork(remote, queue[u])
<1>1. TypeOK /\ Boot /\ Rows /\ Stream
  BY DEF IInv
<1>2. /\ tasks # << >> /\ Head(tasks).kind = "user" /\ tasks' = Tail(tasks)
      /\ syncUser' = u /\ (nextId' = LoadNextBatchId(u) \/ nextId' = nextId) /\ Becomes(r)
      /\ UNCHANGED << auth, mainQueue, docUid, strayed, told, running, changes, waiting, queue, outcome, server, faults >>
  BY DEF HandleCredentialChange, RunTask, app, disk
<1>3. Head(tasks) \in Tasks /\ nextId # 0
  BY <1>2, FirstTask
<1>4. u \in Users
  BY <1>2, <1>3 DEF Tasks
<1> HIDE DEF u
<1>5. queue[u] \in Seq(Batch) /\ Ascending(queue[u]) /\ remote \in Remotes /\ StreamOK(remote)
  BY <1>1, <1>4 DEF TypeOK, Rows, Stream, RemoteOK
<1>6. RemoteOK(r, queue[u]) /\ Moves(remote, r)
  BY <1>5, RestartOK
<1> HIDE DEF r
<1>7. nextId' \in Nat \ {0} /\ Rows'
  <2>1. /\ LoadNextBatchId(u) \in Nat \ {0}
        /\ \A v \in Users : \A i \in DOMAIN queue[v] : queue[v][i].id < LoadNextBatchId(u)
    BY <1>1, NextIdAbove
  <2>2. nextId \in Nat \ {0} /\ \A v \in Users : \A i \in DOMAIN queue[v] : queue[v][i].id < nextId
    BY <1>1, <1>3 DEF TypeOK, Rows
  <2>3. QED
    BY <2>1, <2>2, <1>1, <1>2, RowsKept
<1>8. OtherTypes
  BY <1>1, <1>2, <1>4, <1>7 DEF OtherTypes, TypeOK
<1>9. RemoteOK(r, queue'[syncUser'])
  BY <1>2, <1>6
<1>10. QED
  BY <1>2, <1>6, <1>7, <1>8, <1>9, WorkerStep

(* WriteMutations: the new batch has the id nextId, above every row, so    *)
(* the queue stays ascending and the pipeline its prefix.                  *)
LEMMA WriteMutationsStep ==
  ASSUME IInv, WriteMutations
  PROVE  IInv'
<1> DEFINE reg == Head(tasks).reg
           q == queue'[syncUser]
           r == FillWritePipeline(remote, q)
<1>1. TypeOK /\ Boot /\ Rows /\ Stream
  BY DEF IInv
<1>2. /\ tasks # << >> /\ Head(tasks).kind = "write" /\ tasks' = Tail(tasks)
      /\ AddMutationBatch(reg) /\ Becomes(r)
      /\ waiting' = [waiting EXCEPT ![syncUser] = @ \cup {Last(queue'[syncUser])}]
      /\ UNCHANGED << auth, mainQueue, docUid, strayed, told, running, changes, syncUser, outcome, server, faults >>
  BY DEF WriteMutations, RunTask, app
<1>3. Head(tasks) \in Tasks /\ nextId # 0
  BY <1>2, FirstTask
<1>4. reg \in Registrations
  BY <1>2, <1>3 DEF Tasks
<1> HIDE DEF reg
<1>5. /\ Rows' /\ RemoteOK(remote, queue'[syncUser])
      /\ queue' \in [Users -> Seq(Batch)] /\ waiting' \in [Users -> SUBSET Batch]
      /\ nextId' \in Nat \ {0}
  BY <1>1, <1>2, <1>3, <1>4, RowAdded
<1>6. q \in Seq(Batch) /\ Ascending(q) /\ RemoteOK(remote, q)
  BY <1>1, <1>2, <1>5 DEF Rows, TypeOK
<1> HIDE DEF q
<1>7. /\ RemoteOK(r, q) /\ (r.stream = remote.stream \/ ~IsStarted(remote))
      /\ r.closes = remote.closes
  BY <1>6, FillOK
<1> HIDE DEF r
<1>8. Moves(remote, r)
  BY <1>7, FillMoves
<1>9. OtherTypes
  BY <1>1, <1>2, <1>5 DEF OtherTypes, TypeOK
<1>10. RemoteOK(r, queue'[syncUser'])
  <2>1. queue'[syncUser'] = q
    BY <1>2 DEF q
  <2>2. QED
    BY <2>1, <1>7
<1>11. QED
  BY <1>2, <1>3, <1>5, <1>8, <1>9, <1>10, WorkerStep

(* The only live answer finds the stream still waiting for it.             *)
LEMMA LiveAnswer ==
  ASSUME IInv, tasks # << >>, Head(tasks).kind = "resume", Head(tasks).closes = remote.closes
  PROVE  remote.stream = "Starting"
<1> DEFINE c == remote.closes
           T == Hits(tokenRequests, LiveRequest(c))
           M == Hits(mainQueue, LiveBlock(c))
           K == Hits(tasks, LiveTask(c))
<1>1. TypeOK /\ Tokens
  BY DEF IInv
<1>2. /\ Head(tasks) = tasks[1] /\ 1 \in DOMAIN tasks /\ Head(tasks) \in Tasks
  BY FirstTask
<1>3. T \in Nat /\ M \in Nat /\ K \in Nat
  BY <1>1, HitsType DEF TypeOK
<1>4. K # 0
  <2>1. tasks[1] \in LiveTask(c)
    BY <1>2 DEF LiveTask
  <2> DEFINE A == {i \in DOMAIN tasks : tasks[i] \in LiveTask(c)}
  <2>2. IsFiniteSet(A) /\ K = Cardinality(A)
    BY <1>1, HitsType DEF TypeOK, Hits
  <2>3. A # {}
    BY <1>2, <2>1
  <2> HIDE DEF A, K
  <2>4. QED
    BY <2>2, <2>3, FS_EmptySet
<1>5. T + M + K = OneIf(remote.stream = "Starting")
  BY <1>1 DEF Tokens, Live
<1> HIDE DEF T, M, K
<1>6. QED
  BY <1>3, <1>4, <1>5 DEF OneIf

(* ResumeStartWithCredentials: an answer under the current close count     *)
(* finds the stream Starting.                                              *)
LEMMA ResumeStep ==
  ASSUME IInv, ResumeStartWithCredentials
  PROVE  IInv'
<1> DEFINE t == Head(tasks)
           call == [user |-> t.user, requests |-> << Hello >>, answers |-> << >>, status |-> "open"]
           open == [remote EXCEPT !.stream = "Open", !.call = call]
           c == remote.closes
<1>1. TypeOK /\ Boot /\ Rows /\ Stream /\ Tokens
  BY DEF IInv
<1>2. /\ tasks # << >> /\ t.kind = "resume" /\ tasks' = Tail(tasks)
      /\ UNCHANGED << auth, mainQueue, docUid, strayed, told, running, changes, syncUser, nextId, waiting, queue, outcome, server, faults >>
      /\ \/ t.closes # c /\ UNCHANGED << remote, tokenRequests, late >>
         \/ t.closes = c /\ Becomes(Retry(remote))
         \/ t.closes = c /\ Becomes(open)
  BY DEF ResumeStartWithCredentials, RunTask, app, disk, memory
<1>3. t \in Tasks /\ nextId # 0
  BY <1>2, FirstTask
<1>4. t.user \in Users
  BY <1>2, <1>3 DEF Tasks
<1>5. Rows'
  BY <1>1, <1>2 DEF Rows
<1>6. OtherTypes
  BY <1>1, <1>2 DEF OtherTypes, TypeOK
<1>7. /\ tasks' \in Seq(Tasks)
      /\ \A i \in DOMAIN tasks' : tasks'[i].kind # "init"
      /\ \A i \in DOMAIN tasks' : tasks'[i].kind = "resume" => tasks'[i].closes <= c
      /\ Hits(tasks, LiveTask(c)) = Hits(tasks', LiveTask(c)) + OneIf(t \in LiveTask(c))
      /\ Hits(tasks', LiveTask(c)) \in Nat
  BY <1>1, <1>2, TasksRest
<1>8. Boot'
  BY <1>1, <1>2, <1>3, <1>7, BootLater
<1>9. queue'[syncUser'] = queue[syncUser] /\ nextId' # 0
  BY <1>2, <1>3
<1> DEFINE T == Hits(tokenRequests, LiveRequest(c))
           M == Hits(mainQueue, LiveBlock(c))
           K == Hits(tasks, LiveTask(c))
           K1 == Hits(tasks', LiveTask(c))
<1>10. T \in Nat /\ M \in Nat /\ T + M + K = OneIf(remote.stream = "Starting")
  BY <1>1, HitsType DEF TypeOK, Tokens, Live
<1>11. t \in LiveTask(c) <=> t.closes = c
  BY <1>2, <1>3 DEF LiveTask
<1> HIDE DEF t
<1>12. CASE t.closes # c /\ UNCHANGED << remote, tokenRequests, late >>
  <2>1. K = K1
    BY <1>7, <1>11, <1>12 DEF OneIf
  <2>2. Live(c)' = Live(c)
    BY <2>1, <1>2, <1>12 DEF Live
  <2>3. Tokens'
    BY <1>1, <1>2, <1>7, <1>12, <2>2, SameTokens DEF Tokens
  <2>4. TypeOK'
    BY <1>1, <1>2, <1>6, <1>7, <1>12 DEF TypeOK, OtherTypes, auth, server
  <2>5. Stream'
    BY <1>1, <1>9, <1>12 DEF Stream
  <2>6. QED
    BY <1>5, <1>8, <2>3, <2>4, <2>5 DEF IInv
<1>13. CASE t.closes = c /\ Becomes(Retry(remote))
  <2> DEFINE r == Retry(remote)
  <2>1. RemoteOK(r, queue[syncUser]) /\ r.closes = c + 1
    BY <1>1, RetryOK DEF Stream
  <2>2. c \in Nat
    BY <1>1 DEF TypeOK, Remotes
  <2> HIDE DEF r
  <2>3. Moves(remote, r) /\ RemoteOK(r, queue'[syncUser']) /\ r.closes # c
    BY <1>9, <2>1, <2>2 DEF Moves
  <2>4. Becomes(r)
    BY <1>13 DEF r
  <2>5. /\ tasks # << >> /\ tasks' = Tail(tasks)
        /\ UNCHANGED << auth, mainQueue, docUid, strayed, running, changes, server >>
    BY <1>2
  <2>6. QED
    BY <1>5, <1>6, <1>9, <2>3, <2>4, <2>5, WorkerStep
<1>14. CASE t.closes = c /\ Becomes(open)
  <2>1. remote.stream = "Starting"
    BY <1>2, <1>14, LiveAnswer DEF t
  <2>2. /\ RemoteOK(open, queue[syncUser]) /\ open.closes = c /\ open.stream = "Open"
    BY <1>1, <1>4, <2>1, OpenOK DEF Stream, t
  <2> HIDE DEF open
  <2>3. open \in Remotes /\ Len(open.pipeline) <= MaxPendingWrites
    BY <2>2 DEF RemoteOK
  <2>4. remote' = open /\ tokenRequests' = tokenRequests
    BY <1>14, <2>2 DEF Becomes
  <2>5. TypeOK'
    <3>1. tokenRequests' \in Seq(TokenRequest)
      BY <1>1, <2>4 DEF TypeOK
    <3>2. UNCHANGED << auth, mainQueue, docUid, strayed, running, changes, server >>
      BY <1>2
    <3>3. QED
      BY <1>1, <1>6, <1>7, <1>14, <2>3, <3>1, <3>2, BecomesTypes
  <2>6. Tokens'
    <3>1. T + M + K1 = 0
      BY <1>7, <1>10, <1>11, <1>14, <2>1 DEF OneIf
    <3>2. Live(remote.closes)' = 0
      BY <1>2, <2>2, <2>4, <3>1 DEF Live
    <3>3. OneIf(remote'.stream = "Starting") = 0
      BY <2>2, <2>4 DEF OneIf
    <3>4. remote'.closes = c
      BY <2>2, <2>4
    <3>5. QED
      BY <1>1, <1>2, <1>7, <2>4, <3>2, <3>3, <3>4 DEF Tokens
  <2>7. Stream'
    BY <1>9, <2>2, <2>4 DEF Stream
  <2>8. QED
    BY <1>5, <1>8, <2>5, <2>6, <2>7 DEF IInv
<1>15. QED
  BY <1>2, <1>12, <1>13, <1>14

-----------------------------------------------------------------------------
(* Timers, the connectivity monitor and the reads of the stream.           *)

(* A client that has a stream has been initialized.                        *)
LEMMA Awake ==
  ASSUME Boot, remote # Idle
  PROVE  nextId # 0
BY DEF Boot

(* A step that runs no task and leaves the queues alone.                   *)
LEMMA TimerStep ==
  ASSUME IInv, NEW r, Becomes(r), RemoteOK(r, queue[syncUser]), Moves(remote, r), nextId # 0,
         UNCHANGED << worker, told, waiting, disk, server >>, faults' \in 0 .. MaxFaults
  PROVE  IInv'
<1>1. TypeOK /\ Rows
  BY DEF IInv
<1>2. /\ UNCHANGED << auth, mainQueue, docUid, strayed, running, changes, server >>
      /\ UNCHANGED << tasks, syncUser, nextId, told, waiting, queue, outcome >>
  BY DEF worker, disk
<1>3. Rows'
  BY <1>1, <1>2 DEF Rows
<1>4. OtherTypes
  BY <1>1, <1>2 DEF OtherTypes, TypeOK
<1>5. RemoteOK(r, queue'[syncUser'])
  <2>1. queue'[syncUser'] = queue[syncUser]
    BY <1>2
  <2>2. QED
    BY <2>1
<1>6. tasks' = tasks /\ nextId # 0 /\ nextId' # 0
  BY <1>2
<1>7. QED
  BY <1>2, <1>3, <1>4, <1>5, <1>6, WorkerStep

(* BackoffElapsed asks for a token, under the close count of the failed    *)
(* call.                                                                   *)
LEMMA BackoffElapsedStep ==
  ASSUME IInv, BackoffElapsed
  PROVE  IInv'
<1> DEFINE r == [remote EXCEPT !.stream = "Starting"]
           q == queue[syncUser]
<1>1. TypeOK /\ Boot /\ Stream
  BY DEF IInv
<1>2. /\ remote.stream = "Backoff" /\ Becomes(r) /\ UNCHANGED << worker, told, waiting, disk, server >>
      /\ faults' = faults
  BY DEF BackoffElapsed, Timer
<1> HIDE DEF q
<1>3. RemoteOK(remote, q)
  BY <1>1 DEF Stream, q
<1>4. /\ r \in Remotes /\ r.stream = "Starting" /\ r.closes = remote.closes /\ r.call = remote.call
      /\ r.pipeline = remote.pipeline /\ r.handshake = remote.handshake /\ r.idle = remote.idle
  BY <1>3 DEF RemoteOK, Remotes
<1> HIDE DEF r
<1>5. StreamOK(r)
  BY <1>2, <1>3, <1>4 DEF RemoteOK, StreamOK, IsStarted
<1>6. RemoteOK(r, q) /\ Moves(remote, r)
  BY <1>2, <1>3, <1>4, <1>5 DEF RemoteOK, Moves
<1>7. nextId # 0
  BY <1>1, <1>2, Awake, IdleOK
<1>8. faults' \in 0 .. MaxFaults
  BY <1>1, <1>2 DEF TypeOK
<1>9. QED
  BY <1>2, <1>6, <1>7, <1>8, TimerStep DEF q

(* IdleTimeout stops a stream whose pipeline is empty.                     *)
LEMMA IdleTimeoutStep ==
  ASSUME IInv, IdleTimeout
  PROVE  IInv'
<1> DEFINE r == Stop(remote)
           q == queue[syncUser]
<1>1. TypeOK /\ Boot /\ Stream
  BY DEF IInv
<1>2. /\ remote.idle /\ Becomes(r) /\ UNCHANGED << worker, told, waiting, disk, server >>
      /\ faults' = faults
  BY DEF IdleTimeout, Timer
<1> HIDE DEF q
<1>3. RemoteOK(remote, q)
  BY <1>1 DEF Stream, q
<1>4. /\ r \in Remotes /\ r.pipeline = remote.pipeline
      /\ r.stream \in {"Initial", "Error"}
      /\ ~r.handshake /\ ~r.idle /\ r.call = NoCall
      /\ r.closes = IF IsStarted(remote) THEN remote.closes + 1 ELSE remote.closes
      /\ ~IsStarted(remote) => r = remote
  BY <1>3, StopFields DEF RemoteOK
<1> HIDE DEF r
<1>5. RemoteOK(r, q) /\ Moves(remote, r)
  BY <1>3, <1>4, Unstarted DEF RemoteOK, Moves
<1>6. nextId # 0
  BY <1>1, <1>2, Awake, IdleOK
<1>7. faults' \in 0 .. MaxFaults
  BY <1>1, <1>2 DEF TypeOK
<1>8. QED
  BY <1>2, <1>5, <1>6, <1>7, TimerStep DEF q

(* ConnectivityChanged restarts the stream for the same user.              *)
LEMMA ConnectivityChangedStep ==
  ASSUME IInv, ConnectivityChanged
  PROVE  IInv'
<1> DEFINE q == queue[syncUser]
           r == RestartNetwork(remote, q)
<1>1. TypeOK /\ Boot /\ Rows /\ Stream
  BY DEF IInv
<1>2. /\ running /\ \A i \in DOMAIN tasks : tasks[i].kind # "init"
      /\ Becomes(r) /\ UNCHANGED << worker, told, waiting, disk, server >>
      /\ faults < MaxFaults /\ faults' = faults + 1
  BY DEF ConnectivityChanged, Timer
<1>3. remote \in Remotes /\ StreamOK(remote) /\ q \in Seq(Batch) /\ Ascending(q)
  BY <1>1 DEF Stream, RemoteOK, TypeOK, Rows
<1> HIDE DEF q
<1>4. RemoteOK(r, q) /\ Moves(remote, r)
  BY <1>3, RestartOK
<1> HIDE DEF r
<1>5. nextId # 0
  <2>1. tasks # << >> => 1 \in DOMAIN tasks
    BY <1>1 DEF TypeOK
  <2>2. QED
    BY <1>1, <1>2, <2>1 DEF Boot
<1>6. faults' \in 0 .. MaxFaults
  BY <1>1, <1>2, FirestoreAssumption DEF TypeOK
<1>7. QED
  BY <1>2, <1>4, <1>5, <1>6, TimerStep DEF q

(* HandshakeComplete: what is written after the answer to the handshake is *)
(* the pipeline.                                                           *)
LEMMA HandshakeCompleteStep ==
  ASSUME IInv, HandshakeComplete
  PROVE  IInv'
<1> DEFINE r == [Write(remote, remote.pipeline) EXCEPT !.handshake = TRUE, !.call.answers = Tail(@)]
           q == queue[syncUser]
<1>1. TypeOK /\ Boot /\ Stream
  BY DEF IInv
<1>2. /\ remote.call.answers # << >> /\ ~remote.handshake
      /\ Becomes(r) /\ UNCHANGED << worker, told, waiting, disk, server >> /\ faults' = faults
  BY DEF HandshakeComplete
<1> HIDE DEF q
<1>3. RemoteOK(remote, q)
  BY <1>1 DEF Stream, q
<1>4. RemoteOK(r, q) /\ r.closes = remote.closes /\ r.stream = remote.stream
  BY <1>2, <1>3, HandshakeOK
<1> HIDE DEF r
<1>5. Moves(remote, r)
  BY <1>4 DEF Moves
<1>6. nextId # 0
  <2>1. remote # Idle
    BY <1>2 DEF Idle, NoCall
  <2>2. QED
    BY <1>1, <2>1, Awake
<1>7. faults' \in 0 .. MaxFaults
  BY <1>1, <1>2 DEF TypeOK
<1>8. QED
  BY <1>2, <1>4, <1>5, <1>6, <1>7, TimerStep DEF q

(* CallFailed closes the stream and keeps the pipeline, which the retry    *)
(* sends again.                                                            *)
LEMMA CallFailedStep ==
  ASSUME IInv, CallFailed
  PROVE  IInv'
<1> DEFINE r == Retry(remote)
           q == queue[syncUser]
<1>1. TypeOK /\ Boot /\ Stream
  BY DEF IInv
<1>2. /\ remote.call.status = "transient"
      /\ Becomes(r) /\ UNCHANGED << worker, told, waiting, disk, server >> /\ faults' = faults
  BY DEF CallFailed
<1> HIDE DEF q
<1>3. RemoteOK(remote, q)
  BY <1>1 DEF Stream, q
<1>4. RemoteOK(r, q) /\ r.closes = remote.closes + 1
  BY <1>3, RetryOK
<1> HIDE DEF r
<1>5. Moves(remote, r)
  BY <1>4 DEF Moves
<1>6. nextId # 0
  <2>1. remote # Idle
    BY <1>2 DEF Idle, NoCall
  <2>2. QED
    BY <1>1, <2>1, Awake
<1>7. faults' \in 0 .. MaxFaults
  BY <1>1, <1>2 DEF TypeOK
<1>8. QED
  BY <1>2, <1>4, <1>5, <1>6, <1>7, TimerStep DEF q

(* A batch leaves the pipeline and its queue, and the pipeline is filled.  *)
LEMMA LeaveStep ==
  ASSUME IInv, remote.pipeline # << >>, nextId # 0, NEW p \in Remotes, StreamOK(p),
         p.pipeline = Tail(remote.pipeline), Moves(remote, p),
         p.closes = remote.closes => IsStarted(p),
         NEW how \in {"acked", "rejected"}, RemoveBatch(Head(remote.pipeline), how),
         NEW answer \in {"ok", "error"}, NotifyUser(Head(remote.pipeline).id, answer),
         Becomes(FillWritePipeline(p, queue'[syncUser])),
         UNCHANGED << worker, server, faults >>
  PROVE  IInv'
<1> DEFINE q == queue'[syncUser]
           r == FillWritePipeline(p, q)
<1>1. TypeOK /\ Boot /\ Rows /\ Stream
  BY DEF IInv
<1>2. /\ UNCHANGED << auth, mainQueue, docUid, strayed, running, changes, server, tasks, syncUser, nextId, faults >>
  BY DEF worker
<1>3. nextId' = nextId /\ syncUser' = syncUser
  BY <1>2
<1>4. /\ Rows' /\ Prefix(Tail(remote.pipeline), queue'[syncUser])
      /\ queue' \in [Users -> Seq(Batch)] /\ waiting' \in [Users -> SUBSET Batch]
      /\ outcome' \in [Registrations -> {"none", "acked", "rejected"}]
      /\ told' \in [Registrations -> {"none", "ok", "error"}]
  BY <1>1, <1>3, RowRemoved
<1>5. q \in Seq(Batch) /\ Ascending(q)
  BY <1>1, <1>4 DEF TypeOK, Rows
<1>6. Len(Tail(remote.pipeline)) <= MaxPendingWrites
  BY <1>1, FrontRow
<1> HIDE DEF q
<1>7. RemoteOK(p, q)
  BY <1>4, <1>6 DEF RemoteOK, q
<1>8. /\ RemoteOK(r, q) /\ r.closes = p.closes
      /\ r.stream = p.stream \/ ~IsStarted(p)
  BY <1>5, <1>7, FillOK
<1>9. Becomes(r)
  BY DEF r, q
<1> HIDE DEF r
<1>10. Moves(remote, r)
  BY <1>8 DEF Moves
<1>11. OtherTypes
  BY <1>1, <1>2, <1>4 DEF OtherTypes, TypeOK
<1>12. RemoteOK(r, queue'[syncUser'])
  BY <1>3, <1>8 DEF q
<1>13. tasks' = tasks /\ nextId' # 0
  BY <1>2
<1>14. QED
  BY <1>2, <1>4, <1>9, <1>10, <1>11, <1>12, <1>13, WorkerStep

(* MutationResult: pipeline, queue and callbacks lose the same batch.      *)
LEMMA MutationResultStep ==
  ASSUME IInv, MutationResult
  PROVE  IInv'
<1> DEFINE p == [remote EXCEPT !.pipeline = Tail(@), !.call.answers = Tail(@)]
           q == queue'[syncUser]
<1>1. TypeOK /\ Boot /\ Rows /\ Stream
  BY DEF IInv
<1>2. /\ remote.call.answers # << >> /\ remote.handshake
      /\ NotifyUser(Head(remote.pipeline).id, "ok") /\ RemoveBatch(Head(remote.pipeline), "acked")
      /\ Becomes(FillWritePipeline(p, q)) /\ UNCHANGED << worker, server, faults >>
  BY DEF MutationResult
<1>3. /\ remote.pipeline # << >> /\ remote.stream = "Open"
      /\ p \in Remotes /\ StreamOK(p) /\ p.pipeline = Tail(remote.pipeline)
      /\ p.closes = remote.closes /\ p.stream = remote.stream
  BY <1>1, <1>2, PoppedOK DEF Stream
<1> HIDE DEF p
<1>4. Moves(remote, p) /\ IsStarted(p)
  BY <1>3 DEF Moves, IsStarted
<1>5. nextId # 0
  BY <1>1, <1>3, Awake, IdleOK
<1>6. QED
  BY <1>2, <1>3, <1>4, <1>5, LeaveStep

(* HandleWriteError: the same batch leaves pipeline, queue and callbacks,  *)
(* and the stream is closed.                                               *)
LEMMA HandleWriteErrorStep ==
  ASSUME IInv, HandleWriteError
  PROVE  IInv'
<1> DEFINE p == [Close(remote, "Initial") EXCEPT !.pipeline = Tail(@)]
           q == queue'[syncUser]
<1>1. TypeOK /\ Boot /\ Rows /\ Stream
  BY DEF IInv
<1>2. /\ remote.call.status = "permanent"
      /\ NotifyUser(Head(remote.pipeline).id, "error") /\ RemoveBatch(Head(remote.pipeline), "rejected")
      /\ Becomes(FillWritePipeline(p, q)) /\ UNCHANGED << worker, server, faults >>
  BY DEF HandleWriteError
<1>3. /\ remote.pipeline # << >> /\ remote.stream = "Open"
      /\ p \in Remotes /\ StreamOK(p) /\ p.pipeline = Tail(remote.pipeline)
      /\ p.closes = remote.closes + 1
  BY <1>1, <1>2, ClosedOK DEF Stream
<1>4. remote.closes \in Nat
  BY <1>1 DEF TypeOK, Remotes
<1> HIDE DEF p
<1>5. Moves(remote, p) /\ p.closes # remote.closes
  BY <1>3, <1>4 DEF Moves
<1>6. nextId # 0
  BY <1>1, <1>3, Awake, IdleOK
<1>7. QED
  BY <1>2, <1>3, <1>5, <1>6, LeaveStep

-----------------------------------------------------------------------------
(* The server and the network.                                             *)

(* The call changes at its far end.                                        *)
LEMMA FarEndStep ==
  ASSUME IInv, NEW call, remote' = [remote EXCEPT !.call = call],
         RemoteOK(remote', queue[syncUser]),
         remote'.stream = remote.stream, remote'.closes = remote.closes, remote.stream = "Open",
         UNCHANGED << worker, told, tokenRequests, waiting, disk, late >>,
         applied' \cup refused' \subseteq Registrations, faults' \in 0 .. MaxFaults
  PROVE  IInv'
<1>1. TypeOK /\ Boot /\ Rows /\ Tokens
  BY DEF IInv
<1>2. nextId # 0
  BY <1>1, Awake, IdleOK
<1>3. /\ UNCHANGED << accounts, session, signIns, mainQueue, docUid, strayed, running, changes, tasks, syncUser, nextId >>
      /\ UNCHANGED << told, tokenRequests, waiting, queue, outcome, late >>
  BY DEF worker, auth, disk
<1>4. remote' \in Remotes /\ Len(remote'.pipeline) <= MaxPendingWrites
  BY DEF RemoteOK
<1>5. TypeOK'
  BY <1>1, <1>3, <1>4 DEF TypeOK
<1>6. Boot'
  BY <1>1, <1>2, <1>3 DEF Boot
<1>7. Rows'
  BY <1>1, <1>3 DEF Rows
<1>8. Stream'
  <2>1. queue'[syncUser'] = queue[syncUser]
    BY <1>3
  <2>2. QED
    BY <2>1 DEF Stream
<1>9. Tokens'
  BY <1>1, <1>3 DEF Tokens, Live
<1>10. QED
  BY <1>5, <1>6, <1>7, <1>8, <1>9 DEF IInv

(* The server's answer moves the first request to the end of the answers:  *)
(* together they are what they were.                                       *)
LEMMA AnsweredCall ==
  ASSUME TypeOK, remote.call.requests # << >>
  PROVE  /\ Answered \in Calls /\ Answered.status = remote.call.status
         /\ Answered.user = remote.call.user
         /\ Answered.requests = Tail(remote.call.requests)
         /\ Answered.answers = Append(remote.call.answers, Head(remote.call.requests))
         /\ Answered.answers \o Answered.requests = remote.call.answers \o remote.call.requests
         /\ Head(remote.call.requests) \in Messages
<1>1. /\ remote.call \in Calls /\ remote.call.answers \in Seq(Messages)
      /\ remote.call.requests \in Seq(Messages)
  BY CallParts DEF TypeOK
<1>2. PICK a \in Seq(Messages) : a = remote.call.answers
  BY <1>1
<1>3. PICK b \in Seq(Messages) : b = remote.call.requests
  BY <1>1
<1>4. b # << >>
  BY <1>3
<1>5. Append(a, Head(b)) \o Tail(b) = a \o b
  BY <1>4, MoveHead
<1>6. Head(b) \in Messages /\ Tail(b) \in Seq(Messages) /\ Append(a, Head(b)) \in Seq(Messages)
  BY <1>4, HeadTailProperties, AppendProperties
<1>7. Answered = [remote.call EXCEPT !.requests = Tail(b), !.answers = Append(a, Head(b))]
  BY <1>1, <1>2, <1>3 DEF Answered, Calls
<1>8. /\ Answered \in Calls /\ Answered.status = remote.call.status /\ Answered.user = remote.call.user
      /\ Answered.requests = Tail(b) /\ Answered.answers = Append(a, Head(b))
  BY <1>1, <1>6, <1>7 DEF Calls
<1>9. QED
  BY <1>2, <1>3, <1>5, <1>6, <1>8

(* The server answers the first request of the call.                       *)
LEMMA ServerStep ==
  ASSUME IInv, AcceptHandshake \/ Commit
  PROVE  IInv'
<1>1. TypeOK /\ Stream
  BY DEF IInv
<1>2. /\ remote.call.status = "open" /\ remote.call.requests # << >>
      /\ remote' = [remote EXCEPT !.call = Answered]
      /\ UNCHANGED << worker, told, tokenRequests, waiting, disk, late, faults >>
  BY DEF AcceptHandshake, Commit, Serve
<1>3. /\ Answered \in Calls /\ Answered.status = "open"
      /\ Answered.answers \o Answered.requests = remote.call.answers \o remote.call.requests
      /\ Head(remote.call.requests) \in Messages
  BY <1>1, <1>2, AnsweredCall
<1>4. /\ RemoteOK(remote', queue[syncUser]) /\ remote'.stream = remote.stream
      /\ remote'.closes = remote.closes /\ remote.stream = "Open"
  BY <1>1, <1>2, <1>3, ServedOK DEF Stream
<1>5. applied' \cup refused' \subseteq Registrations
  <2>1. applied \cup refused \subseteq Registrations
    BY <1>1 DEF TypeOK
  <2>2. CASE AcceptHandshake
    BY <2>1, <2>2 DEF AcceptHandshake, server
  <2>3. CASE Commit
    <3>1. Head(remote.call.requests) \in Batch
      BY <1>3, <2>3 DEF Commit, Messages
    <3>2. QED
      BY <2>1, <2>3, <3>1 DEF Commit, Batch
  <2>4. QED
    BY <2>2, <2>3
<1>6. faults' \in 0 .. MaxFaults
  BY <1>1, <1>2 DEF TypeOK
<1>7. QED
  BY <1>2, <1>4, <1>5, <1>6, FarEndStep

(* The server refuses the first request of the call.                       *)
LEMMA RefuseStep ==
  ASSUME IInv, Refuse
  PROVE  IInv'
<1> DEFINE call == [remote.call EXCEPT !.status = "permanent"]
<1>1. TypeOK /\ Stream
  BY DEF IInv
<1>2. /\ remote.call.status = "open" /\ remote.call.requests # << >>
      /\ remote' = [remote EXCEPT !.call = call]
      /\ Head(remote.call.requests) # Hello
      /\ refused' = refused \cup {Head(remote.call.requests).reg} /\ applied' = applied
      /\ UNCHANGED << worker, told, tokenRequests, waiting, disk, late, faults >>
  BY DEF Refuse, Serve
<1>3. remote.call \in Calls /\ Head(remote.call.requests) \in Messages
  BY <1>1, <1>2, AnsweredCall DEF TypeOK, Remotes
<1>4. /\ call \in Calls /\ call.status = "permanent" /\ call.requests = remote.call.requests
      /\ call.answers = remote.call.answers
  BY <1>3 DEF Calls
<1> HIDE DEF call
<1>5. /\ RemoteOK(remote', queue[syncUser]) /\ remote'.stream = remote.stream
      /\ remote'.closes = remote.closes /\ remote.stream = "Open"
  BY <1>1, <1>2, <1>4, ServedOK DEF Stream
<1>6. applied' \cup refused' \subseteq Registrations
  <2>1. Head(remote.call.requests) \in Batch
    BY <1>2, <1>3 DEF Messages
  <2>2. QED
    BY <1>1, <1>2, <2>1 DEF TypeOK, Batch
<1>7. faults' \in 0 .. MaxFaults
  BY <1>1, <1>2 DEF TypeOK
<1>8. QED
  BY <1>2, <1>5, <1>6, <1>7, FarEndStep

(* The call breaks.                                                        *)
LEMMA BreakStep ==
  ASSUME IInv, Break
  PROVE  IInv'
<1> DEFINE call == [remote.call EXCEPT !.status = "transient"]
<1>1. TypeOK /\ Stream
  BY DEF IInv
<1>2. /\ remote.call.status = "open" /\ faults < MaxFaults /\ faults' = faults + 1
      /\ remote' = [remote EXCEPT !.call.status = "transient"]
      /\ UNCHANGED << worker, told, tokenRequests, waiting, disk, server, late >>
  BY DEF Break
<1>3. remote \in Remotes /\ remote.call \in Calls
  BY <1>1 DEF TypeOK, Remotes
<1>4. remote' = [remote EXCEPT !.call = call]
  BY <1>2, <1>3 DEF Remotes
<1>5. /\ call \in Calls /\ call.status = "transient" /\ call.requests = remote.call.requests
      /\ call.answers = remote.call.answers
  BY <1>3 DEF Calls
<1> HIDE DEF call
<1>6. /\ RemoteOK(remote', queue[syncUser]) /\ remote'.stream = remote.stream
      /\ remote'.closes = remote.closes /\ remote.stream = "Open"
  <2>1. RemoteOK(remote, queue[syncUser]) /\ remote.call.status = "open"
    BY <1>1, <1>2 DEF Stream
  <2>2. /\ call.answers \o call.requests = remote.call.answers \o remote.call.requests
        /\ call.status \in {"open", "transient", "permanent"} /\ call.status # "permanent"
    BY <1>5
  <2>3. QED
    BY <1>4, <1>5, <2>1, <2>2, ServedOK
<1>7. applied' \cup refused' \subseteq Registrations
  BY <1>1, <1>2 DEF TypeOK, server
<1>8. faults' \in 0 .. MaxFaults
  BY <1>1, <1>2, FirestoreAssumption DEF TypeOK
<1>9. QED
  BY <1>2, <1>4, <1>6, <1>7, <1>8, FarEndStep

(* A write of an abandoned call is applied; the client does not notice.    *)
LEMMA LateCommitStep ==
  ASSUME IInv, NEW r \in Registrations, LateCommit(r)
  PROVE  IInv'
<1>1. /\ UNCHANGED << accounts, session, signIns, mainQueue, docUid, strayed, running, changes, tasks, syncUser, nextId >>
      /\ UNCHANGED << told, tokenRequests, waiting, remote, queue, outcome, refused, faults >>
      /\ late' = late \ {r} /\ applied' = applied \cup {r}
  BY DEF LateCommit, worker, auth, disk
<1>2. TypeOK'
  BY <1>1 DEF IInv, TypeOK
<1>3. Boot' /\ Rows' /\ Stream'
  BY <1>1 DEF IInv, Boot, Rows, Stream
<1>4. Tokens'
  BY <1>1 DEF IInv, Tokens, Live
<1>5. QED
  BY <1>2, <1>3, <1>4 DEF IInv
-----------------------------------------------------------------------------
(* A step that changes nothing.                                            *)
LEMMA StutterInv ==
  ASSUME IInv, UNCHANGED vars
  PROVE  IInv'
<1>1. /\ UNCHANGED << accounts, session, signIns, mainQueue, docUid, strayed, told, running, changes >>
      /\ UNCHANGED << tokenRequests, tasks, syncUser, nextId, waiting, remote, queue, outcome >>
      /\ UNCHANGED << applied, refused, late, faults >>
  BY DEF vars, auth, app, memory, disk, server
<1>2. TypeOK'
  BY <1>1 DEF IInv, TypeOK
<1>3. Boot' /\ Rows' /\ Stream'
  BY <1>1 DEF IInv, Boot, Rows, Stream
<1>4. Tokens'
  BY <1>1 DEF IInv, Tokens, Live
<1>5. QED
  BY <1>2, <1>3, <1>4 DEF IInv

(* Every step of the system keeps the invariant.                           *)
LEMMA NextInv == IInv /\ [Next]_vars => IInv'
<1> SUFFICES ASSUME IInv, [Next]_vars PROVE IInv'
  OBVIOUS
<1>1. CASE FirebaseAuth
  BY <1>1, CreateUserStep, ChangeSessionStep DEF FirebaseAuth
<1>2. ASSUME NEW i \in DOMAIN tokenRequests, Token(i)
      PROVE  IInv'
  BY <1>2, ReadUserStep, AnswerTokenStep DEF Token
<1>3. CASE Main
  BY <1>3, CredentialChangeStep, TokenCallbackStep, KillStep, SaveInfoStep, SetDataStep DEF Main
<1>4. CASE Worker
  BY <1>4, InitializeStep, HandleCredentialChangeStep, WriteMutationsStep, ResumeStep DEF Worker
<1>5. CASE Reads
  BY <1>5, HandshakeCompleteStep, MutationResultStep, CallFailedStep, HandleWriteErrorStep DEF Reads
<1>6. CASE Server
  BY <1>6, ServerStep, RefuseStep DEF Server
<1>7. CASE BackoffElapsed \/ IdleTimeout \/ ConnectivityChanged
  BY <1>7, BackoffElapsedStep, IdleTimeoutStep, ConnectivityChangedStep
<1>8. CASE Break \/ \E r \in Registrations : LateCommit(r)
  BY <1>8, BreakStep, LateCommitStep
<1>9. CASE Kill \/ KillAfterNotify
  BY <1>9, KillStep
<1>10. CASE UNCHANGED vars
  BY <1>10, StutterInv
<1>11. QED
  BY <1>1, <1>2, <1>3, <1>4, <1>5, <1>6, <1>7, <1>8, <1>9, <1>10 DEF Next

(* IInv is an invariant.                                                   *)
THEOREM Invariance == Spec => []IInv
<1>1. QED
  BY InitInv, NextInv, PTL DEF Spec
-----------------------------------------------------------------------------
(* Every variable keeps its type, the pipeline its limit.                  *)
THEOREM TypeCorrect == Spec => []TypeOK
<1>1. IInv => TypeOK
  BY DEF IInv
<1>2. QED
  BY <1>1, Invariance, PTL

(* PipelineIsQueuePrefix: LocalStore always finds the batch that           *)
(* HandleSuccessfulWrite and HandleRejectedWrite remove, at the front of   *)
(* the queue of the current user, whatever tasks, timers, restarts and     *)
(* answers are interleaved (Stream, at the current user).                  *)
THEOREM PipelineFollowsQueue == Spec => []PipelineIsQueuePrefix
<1>1. IInv => PipelineIsQueuePrefix
  <2> SUFFICES ASSUME IInv PROVE PipelineIsQueuePrefix
    OBVIOUS
  <2>1. remote.pipeline \in Seq(Batch) /\ queue[syncUser] \in Seq(Batch)
    BY DEF IInv, TypeOK, Remotes
  <2>2. Prefix(remote.pipeline, queue[syncUser])
    BY DEF IInv, Stream, RemoteOK
  <2>3. QED
    BY <2>1, <2>2, PrefixDef DEF PipelineIsQueuePrefix
<1>2. QED
  BY <1>1, Invariance, PTL

(* AnswersCorrelate: the response that OnWriteStreamMutationResult takes   *)
(* for the first batch of the pipeline is the answer to that batch.        *)
THEOREM AnswersInStep == Spec => []AnswersCorrelate
<1>1. IInv => AnswersCorrelate
  BY DEF IInv, Stream, RemoteOK, StreamOK, AnswersCorrelate
<1>2. QED
  BY <1>1, Invariance, PTL

(* IdleOnlyWhenDone: the idle timer never closes a stream with writes to   *)
(* send.                                                                   *)
THEOREM IdleTimerOnlyWhenDone == Spec => []IdleOnlyWhenDone
<1>1. IInv => IdleOnlyWhenDone
  BY DEF IInv, Stream, RemoteOK, StreamOK, IdleOnlyWhenDone
<1>2. QED
  BY <1>1, Invariance, PTL

(* OneLiveRequest: a stream that is Starting waits for exactly one answer  *)
(* of GetToken, wherever it is on its way, and no other answer passes the  *)
(* check of the close count in ResumeStartWithCredentials.                 *)
THEOREM OneAnswerPerStart == Spec => []OneLiveRequest
<1>1. IInv => OneLiveRequest
  <2> SUFFICES ASSUME IInv PROVE OneLiveRequest
    OBVIOUS
  <2> DEFINE c == remote.closes
  <2>1. TypeOK /\ Live(c) = OneIf(remote.stream = "Starting")
    BY DEF IInv, Tokens
  <2>2. {i \in DOMAIN tokenRequests : tokenRequests[i].closes = c}
          = {i \in DOMAIN tokenRequests : tokenRequests[i] \in LiveRequest(c)}
    <3>1. \A i \in DOMAIN tokenRequests : tokenRequests[i] \in TokenRequest
      BY <2>1, ElementOfSeq DEF TypeOK
    <3>2. QED
      BY <3>1 DEF LiveRequest
  <2>3. {i \in DOMAIN mainQueue : mainQueue[i].kind = "token" /\ mainQueue[i].to.closes = c}
          = {i \in DOMAIN mainQueue : mainQueue[i] \in LiveBlock(c)}
    <3>1. \A i \in DOMAIN mainQueue : mainQueue[i] \in Blocks
      BY <2>1, ElementOfSeq DEF TypeOK
    <3>2. QED
      BY <3>1 DEF LiveBlock
  <2>4. {i \in DOMAIN tasks : tasks[i].kind = "resume" /\ tasks[i].closes = c}
          = {i \in DOMAIN tasks : tasks[i] \in LiveTask(c)}
    <3>1. \A i \in DOMAIN tasks : tasks[i] \in Tasks
      BY <2>1, ElementOfSeq DEF TypeOK
    <3>2. QED
      BY <3>1 DEF LiveTask
  <2>5. LiveRequests = Live(c)
    BY <2>2, <2>3, <2>4 DEF LiveRequests, Live, Hits
  <2>6. QED
    BY <2>1, <2>5 DEF OneLiveRequest, OneIf
<1>2. QED
  BY <1>1, Invariance, PTL

(* CallbacksHaveBatches: the batch ids of all users are different, and     *)
(* every callback waits for a batch that is still queued.                  *)
THEOREM CallbacksWaitForBatches == Spec => []CallbacksHaveBatches
<1>1. IInv => CallbacksHaveBatches
  <2> SUFFICES ASSUME IInv PROVE CallbacksHaveBatches
    OBVIOUS
  <2>1. TypeOK /\ Rows
    BY DEF IInv
  <2>2. ASSUME NEW u \in Users, NEW v \in Users, NEW i \in DOMAIN queue[u], NEW j \in DOMAIN queue[v],
               queue[u][i].id = queue[v][j].id
        PROVE  u = v /\ i = j
    <3>1. u = v
      BY <2>1, <2>2 DEF Rows
    <3>2. queue[u] \in Seq(Batch) /\ i \in Nat /\ j \in Nat
      BY <2>1, <3>1 DEF TypeOK
    <3>3. queue[u][i].id \in Nat
      <4>1. queue[u][i] \in Batch
        BY <3>2, ElementOfSeq
      <4>2. QED
        BY <4>1 DEF Batch
    <3>4. ~(i < j) /\ ~(j < i)
      BY <2>1, <2>2, <3>1, <3>3 DEF Rows, Ascending
    <3>5. QED
      BY <3>1, <3>2, <3>4
  <2>3. \A u \in Users : /\ waiting[u] \subseteq ToSet(queue[u])
                        /\ \A i \in DOMAIN queue[u] : running /\ nextId # 0 => queue[u][i].id < nextId
    BY <2>1 DEF Rows
  <2>4. QED
    BY <2>2, <2>3 DEF CallbacksHaveBatches
<1>2. QED
  BY <1>1, Invariance, PTL
=============================================================================
