-------------------------- MODULE MetalRuntimeProofs ---------------------------
(***************************************************************************)
(* Proofs about MetalRuntime for any clients, prompts, priorities, bounds  *)
(* and faults.                                                             *)
(***************************************************************************)
EXTENDS MetalRuntime, FiniteSetTheorems, Induction

------------------------------------------------------------------------------
(* The invariant *)

\* The rows of the decode under way whose tokens are still to be delivered.
Rows == {open[i].id : i \in DOMAIN open}

\* The requests that the runtime has.
Here == pending \cup active \cup Rows

\* The rows that the packed batch has.
Cached == ToSet(cache.ids)

\* The channel and the queues, and when a decode is under way.
QueueShape ==
    /\ request_rx \in Seq(Clients) /\ Once(request_rx)
    /\ arrival \in Seq(Clients)
    /\ waiting \in Seq(Clients) /\ Once(waiting)
    /\ IsSeq(open) /\ \A i, j \in DOMAIN open : open[i].id = open[j].id => i = j
    /\ open /= <<>> <=> at = "deliver"

\* A client submits once: what is in the channel is not known yet.
Known ==
    /\ ToSet(request_rx) \subseteq called /\ ToSet(arrival) \subseteq called
    /\ Here \subseteq ToSet(arrival) /\ Cached \subseteq ToSet(arrival)
    /\ Here \cap ToSet(request_rx) = {} /\ Cached \cap ToSet(request_rx) = {}
    /\ pending \cap (active \cup Rows \cup Cached) = {}

\* What the plan may rely on until the thread gets to the part in question.  Every
\* active row of the packed batch is decoded, and none is prefilled.
PlanKept ==
    /\ at \in {"activate", "decode"} =>
         /\ step.decode \in Seq(Clients) /\ Once(step.decode)
         /\ ToSet(step.decode) \subseteq active
         /\ active \cap Cached \subseteq ToSet(step.decode)
         /\ step.prefill \cap ToSet(step.decode) = {}
    /\ at = "activate" => /\ \E c \in pending : step.prefill = {c}
                          /\ \A c \in step.prefill : step.budget <= Prompt[c]
    /\ at = "prefill" => step.prefill \subseteq active
    /\ at \in {"activate", "decode", "deliver", "prefill"} =>
         step.budget \in Nat /\ step.prefill \cap Cached = {}
    /\ at \in {"decode", "deliver", "prefill"} =>
         \A c \in step.prefill \cap active : req[c].cursor + step.budget <= Prompt[c]

\* The requests' states.
Fields == {"cursor", "generated", "last", "phase", "kv", "cache_len", "fed"}
States(rs) ==
    /\ rs = [c \in Clients |-> rs[c]]
    /\ \A c \in Clients : /\ DOMAIN rs[c] = Fields /\ IsSeq(rs[c].fed)
                          /\ rs[c].cursor \in Nat /\ rs[c].cursor <= Prompt[c]

\* A packed batch: a row for each of its requests, as long as the batch, the
\* padding in front.
Batch(b) ==
    /\ b = [ids |-> b.ids, len |-> b.len, prev |-> b.prev, pad |-> b.pad, rows |-> b.rows]
    /\ b.ids \in Seq(Clients) /\ b.ids /= <<>> /\ Once(b.ids)
    /\ b.len \in Nat
    /\ \A i \in DOMAIN b.ids : /\ b.pad[i] \in Nat /\ b.pad[i] <= b.len
                               /\ IsSeq(b.rows[i]) /\ Len(b.rows[i]) = b.len

\* A request that decodes and has a row in the batch; the finished ones leave.
Phases ==
    /\ \A c \in active \cap Cached : req[c].phase = "decode"
    /\ at = "deliver" => Rows \subseteq Cached
    /\ \A c \in Rows : req[c].phase \in {"decode", "finished"}

MetalInv ==
    /\ QueueShape /\ Known /\ PlanKept /\ Phases
    /\ States(req) /\ (cache = None \/ Batch(cache))
    /\ TablesAgree /\ RowsAligned

------------------------------------------------------------------------------
(* Lists and orders *)

\* The entries of a list without repetitions, and what is kept of it.
LEMMA KeepFacts ==
    ASSUME NEW S, NEW q \in Seq(S), Once(q), NEW xs
    PROVE  /\ Keeping(q, xs) \in Seq(S) /\ Once(Keeping(q, xs))
           /\ ToSet(Keeping(q, xs)) = ToSet(q) \cap xs
  <1>1. \A s : ToSet(s) = Range(s)
    BY DEF ToSet, Range
  <1> QED  BY <1>1, KeepingProps, Zenon

\* The entries of a list are what it is a list of.
LEMMA ListSubset ==
    ASSUME NEW S, NEW q \in Seq(S)
    PROVE  ToSet(q) \in SUBSET S
  <1>1. \A i \in DOMAIN q : q[i] \in S
    OBVIOUS
  <1> QED  BY <1>1 DEF ToSet

\* The entries of a list are finitely many.
LEMMA ListFinite ==
    ASSUME NEW S, NEW q \in Seq(S)
    PROVE  IsFiniteSet(ToSet(q))
  <1>1. PICK n \in Nat : DOMAIN q = 1..n
    OBVIOUS
  <1>2. IsFiniteSet(1..n)
    BY FS_Interval
  <1>3. q \in Surjection(1..n, ToSet(q))
    BY <1>1 DEF Surjection, ToSet
  <1> QED  BY <1>2, <1>3, FS_Surjection

\* Without repetitions there are as many as the list is long.
LEMMA ListCount ==
    ASSUME NEW S, NEW q \in Seq(S), Once(q)
    PROVE  IsFiniteSet(ToSet(q)) /\ Cardinality(ToSet(q)) = Len(q)
  <1>1. PICK n \in Nat : n = Len(q) /\ DOMAIN q = 1..n
    OBVIOUS
  <1>2. IsFiniteSet(1..n) /\ Cardinality(1..n) = n
    BY FS_Interval
  <1>3. q \in Surjection(1..n, ToSet(q))
    BY <1>1 DEF Surjection, ToSet
  <1>4. q \in Injection(1..n, ToSet(q))
    BY <1>1, <1>3 DEF Injection, IsInjective, Surjection, Once
  <1>5. Cardinality(ToSet(q)) = n
    BY <1>2, <1>3, <1>4, FS_Surjection
  <1> QED  BY <1>1, <1>5, ListFinite

\* Two lists one after the other.
LEMMA ConcatOnce ==
    ASSUME NEW S, NEW p \in Seq(S), NEW q \in Seq(S)
    PROVE  /\ p \o q \in Seq(S) /\ ToSet(p \o q) = ToSet(p) \cup ToSet(q)
           /\ Once(p) /\ Once(q) /\ ToSet(p) \cap ToSet(q) = {} => Once(p \o q)
  <1>1. PICK m \in Nat, n \in Nat : m = Len(p) /\ n = Len(q) /\ DOMAIN p = 1..m /\ DOMAIN q = 1..n
    OBVIOUS
  <1>2. PICK r \in Seq(S) : r = p \o q
    BY ConcatProperties
  <1>3. DOMAIN r = 1..m + n
    BY <1>1, <1>2
  <1>4. \A i \in 1..m : r[i] = p[i]
    BY <1>1, <1>2
  <1>5. \A i \in 1..n : r[m + i] = q[i]
    BY <1>1, <1>2
  <1>6. \A k \in 1..m + n : k \in 1..m \/ \E i \in 1..n : k = m + i
    <2>1. ASSUME NEW k \in 1..m + n, k \notin 1..m PROVE k - m \in 1..n /\ k = m + (k - m)
      BY <2>1
    <2> QED  BY <2>1
  <1>7. ToSet(r) = ToSet(p) \cup ToSet(q)
    <2>1. ASSUME NEW x \in ToSet(r) PROVE x \in ToSet(p) \cup ToSet(q)
      <3>1. PICK k \in 1..m + n : x = r[k]
        BY <1>3, <2>1 DEF ToSet
      <3>2. CASE k \in 1..m
        BY <1>1, <1>4, <3>1, <3>2 DEF ToSet
      <3>3. CASE k \notin 1..m
        <4>1. PICK i \in 1..n : k = m + i
          BY <1>6, <3>3
        <4> QED  BY <1>1, <1>5, <3>1, <4>1 DEF ToSet
      <3> QED  BY <3>2, <3>3
    <2>2. ASSUME NEW i \in 1..m PROVE p[i] \in ToSet(r)
      <3>1. i \in 1..m + n
        OBVIOUS
      <3> QED  BY <1>3, <1>4, <3>1 DEF ToSet
    <2>3. ASSUME NEW i \in 1..n PROVE q[i] \in ToSet(r)
      <3>1. m + i \in 1..m + n
        OBVIOUS
      <3> QED  BY <1>3, <1>5, <3>1 DEF ToSet
    <2> QED  BY <1>1, <2>1, <2>2, <2>3 DEF ToSet
  <1>8. ASSUME Once(p), Once(q), ToSet(p) \cap ToSet(q) = {} PROVE Once(r)
    <2>1. ASSUME NEW k \in 1..m + n, NEW l \in 1..m + n, r[k] = r[l] PROVE k = l
      <3>1. CASE k \in 1..m /\ l \in 1..m
        BY <1>1, <1>4, <1>8, <2>1, <3>1 DEF Once
      <3>2. ASSUME NEW i \in 1..m, NEW j \in 1..n, p[i] = q[j] PROVE FALSE
        <4>1. p[i] \in ToSet(p) /\ q[j] \in ToSet(q)
          BY <1>1 DEF ToSet
        <4> QED  BY <1>8, <3>2, <4>1
      <3>3. CASE k \in 1..m /\ l \notin 1..m
        <4>1. PICK j \in 1..n : l = m + j
          BY <1>6, <3>3
        <4> QED  BY <1>4, <1>5, <2>1, <3>2, <3>3, <4>1
      <3>4. CASE k \notin 1..m /\ l \in 1..m
        <4>1. PICK j \in 1..n : k = m + j
          BY <1>6, <3>4
        <4> QED  BY <1>4, <1>5, <2>1, <3>2, <3>4, <4>1
      <3>5. CASE k \notin 1..m /\ l \notin 1..m
        <4>1. PICK i \in 1..n, j \in 1..n : k = m + i /\ l = m + j
          BY <1>6, <3>5
        <4>2. q[i] = q[j]
          BY <1>5, <2>1, <4>1
        <4>3. i = j
          BY <1>1, <1>8, <4>2 DEF Once
        <4> QED  BY <4>1, <4>3
      <3> QED  BY <3>1, <3>3, <3>4, <3>5
    <2> QED  BY <1>3, <2>1 DEF Once
  <1> QED  BY <1>2, <1>7, <1>8

\* R orders S.
Orders(R, S) ==
    /\ \A c \in S : <<c, c>> \notin R
    /\ \A c, d \in S : c /= d => <<c, d>> \in R \/ <<d, c>> \in R
    /\ \A c, d, e \in S : <<c, d>> \in R /\ <<d, e>> \in R => <<c, e>> \in R

\* A finite set has a first element.
LEMMA FirstExists ==
    ASSUME NEW S, IsFiniteSet(S), S /= {}, NEW R, Orders(R, S)
    PROVE  \E c \in S : \A d \in S \ {c} : <<c, d>> \in R
  <1>n. PICK n \in Nat : ExistsBijection(1..n, S)
    BY FS_CardinalityType
  <1>1. PICK f \in [1..n -> S] : \A x \in S : \E i \in 1..n : f[i] = x
    BY <1>n DEF ExistsBijection, Bijection, Surjection
  <1> DEFINE Best(m) == \E c \in S : \A i \in 1..m : f[i] = c \/ <<c, f[i]>> \in R
             I == {m \in 0..n : Best(m)}
  <1>2. 0 \in I
    OBVIOUS
  <1>3. ASSUME NEW m \in 1..n, m - 1 \in I PROVE m \in I
    <2>1. PICK c \in S : \A i \in 1..m - 1 : f[i] = c \/ <<c, f[i]>> \in R
      BY <1>3
    <2>2. PICK x \in S : x = f[m]
      OBVIOUS
    <2>3. CASE x = c \/ <<c, x>> \in R
      <3>1. \A i \in 1..m : f[i] = c \/ <<c, f[i]>> \in R
        <4>1. ASSUME NEW i \in 1..m PROVE f[i] = c \/ <<c, f[i]>> \in R
          <5>1. i = m \/ i \in 1..m - 1
            OBVIOUS
          <5> QED  BY <2>1, <2>2, <2>3, <5>1
        <4> QED  BY <4>1
      <3> QED  BY <3>1
    <2>4. CASE x /= c /\ <<x, c>> \in R
      <3>1. ASSUME NEW i \in 1..m PROVE f[i] = x \/ <<x, f[i]>> \in R
        <4>1. i = m \/ i \in 1..m - 1
          OBVIOUS
        <4>2. CASE i \in 1..m - 1
          <5>1. f[i] \in S /\ (f[i] = c \/ <<c, f[i]>> \in R)
            BY <2>1, <4>2
          <5> QED  BY <2>4, <5>1 DEF Orders
        <4> QED  BY <2>2, <4>1, <4>2
      <3> QED  BY <3>1
    <2> QED  BY <2>3, <2>4 DEF Orders
  <1>4. n \in I
    <2>1. I \in SUBSET (0..n)
      OBVIOUS
    <2> HIDE DEF I
    <2> QED  BY <1>2, <1>3, <2>1, Upward
  <1>5. PICK c \in S : \A i \in 1..n : f[i] = c \/ <<c, f[i]>> \in R
    BY <1>4
  <1>6. ASSUME NEW d \in S \ {c} PROVE <<c, d>> \in R
    <2>1. PICK i \in 1..n : f[i] = d
      BY <1>1
    <2> QED  BY <1>5, <2>1
  <1> QED  BY <1>6

\* q lists T in the order R.
Sorted(q, T, R) ==
    /\ q \in [1..Cardinality(T) -> T]
    /\ \A i, j \in 1..Cardinality(T) : i < j => <<q[i], q[j]>> \in R

\* A finite set can be sorted.
LEMMA SortedExists ==
    ASSUME NEW S, IsFiniteSet(S), NEW R, Orders(R, S)
    PROVE  \E q : Sorted(q, S, R)
  <1>1. PICK n \in Nat : n = Cardinality(S)
    BY FS_CardinalityType
  <1> DEFINE Sorts(m) == \A T \in SUBSET S : Cardinality(T) = m => \E q : Sorted(q, T, R)
             I == {m \in 0..n : Sorts(m)}
  <1>2. 0 \in I
    <2>1. ASSUME NEW T \in SUBSET S, Cardinality(T) = 0 PROVE \E q : Sorted(q, T, R)
      <3>1. <<>> \in [1..0 -> T]
        OBVIOUS
      <3>2. Sorted(<<>>, T, R)
        BY <2>1, <3>1 DEF Sorted
      <3> QED  BY <3>2
    <2> QED  BY <2>1
  <1>3. ASSUME NEW m \in 1..n, m - 1 \in I PROVE m \in I
    <2>1. ASSUME NEW T \in SUBSET S, Cardinality(T) = m PROVE \E q : Sorted(q, T, R)
      <3>1. IsFiniteSet(T) /\ T /= {} /\ Orders(R, T)
        <4>1. IsFiniteSet(T)
          BY FS_Subset
        <4>2. T /= {}
          BY <2>1, <4>1, FS_EmptySet
        <4>3. Orders(R, T)
          BY DEF Orders
        <4> QED  BY <4>1, <4>2, <4>3
      <3>2. PICK c \in T : \A d \in T \ {c} : <<c, d>> \in R
        BY <3>1, FirstExists
      <3>3. PICK U \in SUBSET S : U = T \ {c}
        OBVIOUS
      <3>4. Cardinality(U) = m - 1
        BY <2>1, <3>1, <3>3, FS_RemoveElement
      <3>5. PICK p : Sorted(p, U, R)
        BY <1>3, <3>4
      <3>6. p \in [1..m - 1 -> U] /\ \A i, j \in 1..m - 1 : i < j => <<p[i], p[j]>> \in R
        BY <3>4, <3>5 DEF Sorted
      <3>7. PICK q : q = [i \in 1..m |-> IF i = 1 THEN c ELSE p[i - 1]]
        OBVIOUS
      <3>8. \A i \in 1..m : i = 1 \/ (i - 1 \in 1..m - 1 /\ q[i] = p[i - 1] /\ q[i] \in U)
        BY <3>6, <3>7
      <3>9. q[1] = c
        BY <3>7
      <3>10. q \in [1..m -> T]
        BY <3>3, <3>7, <3>8, <3>9
      <3>11. ASSUME NEW i \in 1..m, NEW j \in 1..m, i < j PROVE <<q[i], q[j]>> \in R
        <4>1. j - 1 \in 1..m - 1 /\ q[j] = p[j - 1] /\ q[j] \in U
          BY <3>8, <3>11
        <4>2. CASE i = 1
          BY <3>2, <3>3, <3>9, <4>1, <4>2
        <4>3. CASE i /= 1
          <5>1. i - 1 \in 1..m - 1 /\ q[i] = p[i - 1] /\ i - 1 < j - 1
            BY <3>8, <3>11, <4>3
          <5> QED  BY <3>6, <4>1, <5>1
        <4> QED  BY <4>2, <4>3
      <3>12. Sorted(q, T, R)
        BY <2>1, <3>10, <3>11 DEF Sorted
      <3> QED  BY <3>12
    <2> QED  BY <2>1
  <1>4. n \in I
    <2>1. I \in SUBSET (0..n)
      OBVIOUS
    <2> HIDE DEF I
    <2> QED  BY <1>2, <1>3, <2>1, Upward
  <1> QED  BY <1>1, <1>4

\* A sorted list has every element once.
LEMMA SortedLists ==
    ASSUME NEW S, IsFiniteSet(S), NEW R, Orders(R, S), NEW q, Sorted(q, S, R)
    PROVE  q \in Seq(S) /\ Once(q) /\ ToSet(q) = S
  <1>1. PICK n \in Nat : n = Cardinality(S)
    BY FS_CardinalityType
  <1>2. q \in [1..n -> S] /\ \A i, j \in 1..n : i < j => <<q[i], q[j]>> \in R
    BY <1>1 DEF Sorted
  <1>3. ASSUME NEW i \in 1..n, NEW j \in 1..n, q[i] = q[j] PROVE i = j
    <2>1. ASSUME NEW k \in 1..n, NEW l \in 1..n, k < l, q[k] = q[l] PROVE FALSE
      <3>1. <<q[k], q[k]>> \in R /\ q[k] \in S
        BY <1>2, <2>1
      <3> QED  BY <3>1 DEF Orders
    <2>2. ~(i < j) /\ ~(j < i)
      BY <1>3, <2>1
    <2> QED  BY <2>2
  <1>4. q \in Injection(1..n, S)
    BY <1>2, <1>3 DEF Injection, IsInjective
  <1>5. Cardinality(1..n) = n
    BY FS_Interval
  <1>6. q \in Surjection(1..n, S)
    BY <1>1, <1>4, <1>5, FS_Injection
  <1>7. ToSet(q) = S
    BY <1>2, <1>6 DEF Surjection, ToSet
  <1> QED  BY <1>2, <1>3, <1>7 DEF Once

------------------------------------------------------------------------------
(* The plan *)

\* The requests that have arrived.
Arrivals == ToSet(arrival \o request_rx)

\* Where a request arrived tells it apart.
LEMMA ArrivedFacts ==
    ASSUME QueueShape
    PROVE  /\ \A c \in Arrivals : Arrived(c) \in Nat
           /\ \A c, d \in Arrivals : Arrived(c) = Arrived(d) => c = d
           /\ Arrivals = ToSet(arrival) \cup ToSet(request_rx)
           /\ IsFiniteSet(Arrivals) /\ Arrivals \subseteq Clients
  <1>1. PICK all \in Seq(Clients) : all = arrival \o request_rx
    BY ConcatProperties DEF QueueShape
  <1>2. PICK n \in Nat : DOMAIN all = 1..n
    OBVIOUS
  <1>3. Arrivals = {all[i] : i \in 1..n}
    BY <1>1, <1>2 DEF Arrivals, ToSet
  <1>4. ASSUME NEW c \in Arrivals PROVE Arrived(c) \in 1..n /\ all[Arrived(c)] = c
    <2>1. Arrived(c) = CHOOSE i \in DOMAIN all : all[i] = c
      BY <1>1, Zenon DEF Arrived
    <2>2. \E i \in DOMAIN all : all[i] = c
      BY <1>2, <1>3, <1>4
    <2>3. Arrived(c) \in DOMAIN all /\ all[Arrived(c)] = c
      BY <2>1, <2>2, Zenon
    <2> QED  BY <1>2, <2>3
  <1>5. \A c, d \in Arrivals : Arrived(c) = Arrived(d) => c = d
    BY <1>4, Zenon
  <1>6. \A c \in Arrivals : Arrived(c) \in Nat
    <2>1. \A k \in 1..n : k \in Nat
      OBVIOUS
    <2> QED  BY <1>4, <2>1, Zenon
  <1>7. IsFiniteSet(Arrivals)
    BY <1>1, ListFinite, Zenon DEF Arrivals
  <1>8. Arrivals \subseteq Clients
    BY <1>2, <1>3
  <1>9. Arrivals = ToSet(arrival) \cup ToSet(request_rx)
    BY ConcatOnce DEF Arrivals, QueueShape
  <1> QED  BY <1>5, <1>6, <1>7, <1>8, <1>9

EarlierPairs == {r \in Arrivals \X Arrivals : Earlier(r[1], r[2])}
BeforePairs == {r \in Arrivals \X Arrivals : Before(r[1], r[2])}

LEMMA PairFacts ==
    /\ \A c, d \in Arrivals : <<c, d>> \in EarlierPairs <=> Earlier(c, d)
    /\ \A c, d \in Arrivals : <<c, d>> \in BeforePairs <=> Before(c, d)
  BY DEF EarlierPairs, BeforePairs

\* The arrival order, and the priorities with the arrival order among equals
\* (compare_priority_waiting, compare_decode_order), are orders.
LEMMA OrderFacts ==
    ASSUME QueueShape, NEW S \in SUBSET Arrivals
    PROVE  Orders(EarlierPairs, S) /\ Orders(BeforePairs, S)
  <1>1. \A c \in S : Arrived(c) \in Nat /\ Priority[c] \in Nat
    BY ArrivedFacts, MetalAssumption
  <1>2. \A c, d \in S : Arrived(c) = Arrived(d) => c = d
    BY ArrivedFacts
  <1>3. /\ \A c, d \in S : <<c, d>> \in EarlierPairs <=> Arrived(c) < Arrived(d)
        /\ \A c, d \in S : <<c, d>> \in BeforePairs <=>
              \/ Priority[c] > Priority[d]
              \/ Priority[c] = Priority[d] /\ Arrived(c) < Arrived(d)
    BY PairFacts DEF Earlier, Before
  <1>4. Orders(EarlierPairs, S)
    BY <1>1, <1>2, <1>3 DEF Orders
  <1>5. Orders(BeforePairs, S)
    <2>1. \A c \in S : <<c, c>> \notin BeforePairs
      BY <1>1, <1>3
    <2>2. \A c, d \in S : c /= d => <<c, d>> \in BeforePairs \/ <<d, c>> \in BeforePairs
      BY <1>1, <1>2, <1>3
    <2>3. \A c, d, e \in S : <<c, d>> \in BeforePairs /\ <<d, e>> \in BeforePairs => <<c, e>> \in BeforePairs
      BY <1>1, <1>3
    <2> QED  BY <2>1, <2>2, <2>3, Zenon DEF Orders
  <1> QED  BY <1>4, <1>5

\* The first of a set of requests is one of them.
LEMMA FirstIs ==
    ASSUME QueueShape, NEW S \in SUBSET Arrivals, S /= {}
    PROVE  First(S, Earlier) \in S /\ First(S, Before) \in S
  <1>1. IsFiniteSet(S)
    BY ArrivedFacts, FS_Subset
  <1>2. \E c \in S : \A d \in S \ {c} : <<c, d>> \in EarlierPairs
    BY <1>1, OrderFacts, FirstExists
  <1>3. \E c \in S : \A d \in S \ {c} : <<c, d>> \in BeforePairs
    BY <1>1, OrderFacts, FirstExists
  <1>4. \E c \in S : \A d \in S \ {c} : Earlier(c, d)
    BY <1>2, PairFacts
  <1>5. \E c \in S : \A d \in S \ {c} : Before(c, d)
    BY <1>3, PairFacts
  <1>6. First(S, Earlier) \in S
    BY <1>4, Zenon DEF First
  <1>7. First(S, Before) \in S
    BY <1>5, Zenon DEF First
  <1> QED  BY <1>6, <1>7

\* build_decode_rows lists the decoding requests, each once.
LEMMA DecodeRowsIs ==
    ASSUME QueueShape, NEW running \in SUBSET Arrivals
    PROVE  /\ DecodeRows(running) \in Seq(Clients) /\ Once(DecodeRows(running))
           /\ ToSet(DecodeRows(running)) = {c \in running : req[c].phase = "decode"}
  <1>1. PICK S \in SUBSET Arrivals : S = {c \in running : req[c].phase = "decode"}
    OBVIOUS
  <1>2. IsFiniteSet(S) /\ Orders(BeforePairs, S)
    BY ArrivedFacts, FS_Subset, OrderFacts
  <1>3. PICK n \in Nat : n = Cardinality(S)
    BY <1>2, FS_CardinalityType
  <1>4. DecodeRows(running) = CHOOSE q \in [1..n -> S] : \A i, j \in DOMAIN q : i < j => Before(q[i], q[j])
    BY <1>1, <1>3, Zenon DEF DecodeRows
  <1>5. PICK p : Sorted(p, S, BeforePairs)
    BY <1>2, SortedExists
  <1>6. ASSUME NEW q \in [1..n -> S]
        PROVE  (\A i, j \in DOMAIN q : i < j => Before(q[i], q[j])) <=> Sorted(q, S, BeforePairs)
    <2>1. DOMAIN q = 1..n
      OBVIOUS
    <2>2. \A i, j \in 1..n : <<q[i], q[j]>> \in BeforePairs <=> Before(q[i], q[j])
      <3>1. \A i \in 1..n : q[i] \in Arrivals
        OBVIOUS
      <3> QED  BY <3>1, PairFacts
    <2> QED  BY <1>3, <2>1, <2>2, Zenon DEF Sorted
  <1>7. p \in [1..n -> S]
    BY <1>3, <1>5 DEF Sorted
  <1>8. \E q \in [1..n -> S] : \A i, j \in DOMAIN q : i < j => Before(q[i], q[j])
    BY <1>5, <1>6, <1>7, Zenon
  <1>9. PICK q \in [1..n -> S] : q = DecodeRows(running) /\ \A i, j \in DOMAIN q : i < j => Before(q[i], q[j])
    BY <1>4, <1>8, Zenon
  <1>10. Sorted(q, S, BeforePairs)
    BY <1>6, <1>9, Zenon
  <1>11. q \in Seq(S) /\ Once(q) /\ ToSet(q) = S
    BY <1>2, <1>10, SortedLists
  <1>12. q \in Seq(Clients)
    <2>1. S \subseteq Clients
      BY ArrivedFacts
    <2> QED  BY <1>9, <2>1
  <1> QED  BY <1>1, <1>9, <1>11, <1>12

\* build_prefill_rows takes one request at most: one that is prefilling, or one of the queue.
LEMMA PrefillRowIs ==
    ASSUME QueueShape, NEW running \in SUBSET Arrivals, NEW queue \in SUBSET Arrivals,
           NEW in, NEW cap, NEW row, row = PrefillRow(running, queue, in, cap), row /= {}
    PROVE  /\ ~(cap <= 0)
           /\ \E c \in Arrivals : /\ row = {c}
                                  /\ (c \in running /\ req[c].phase = "prefill") \/ c \in queue
  <1>1. PICK S \in SUBSET Arrivals : S = {c \in running : req[c].phase = "prefill"}
    OBVIOUS
  <1>2. row = IF cap <= 0 THEN {}
              ELSE IF S # {} THEN {First(S, Earlier)}
              ELSE IF Cardinality(in) < MaxRunning /\ queue # {} THEN {First(queue, Before)} ELSE {}
    BY <1>1, Zenon DEF PrefillRow
  <1>3. CASE S /= {}
    <2>1. First(S, Earlier) \in S
      BY <1>3, FirstIs
    <2>2. ~(cap <= 0) /\ row = {First(S, Earlier)}
      BY <1>2, <1>3, Zenon
    <2> QED  BY <1>1, <2>1, <2>2
  <1>4. CASE S = {}
    <2>1. ~(cap <= 0) /\ queue /= {} /\ row = {First(queue, Before)}
      BY <1>2, <1>4, Zenon
    <2>2. First(queue, Before) \in queue
      BY <2>1, FirstIs
    <2> QED  BY <2>1, <2>2
  <1> QED  BY <1>3, <1>4

\* What a plan promises.
Promised(p, running, queue) ==
    /\ p.decode \in Seq(Clients) /\ Once(p.decode)
    /\ ToSet(p.decode) = {c \in running : req[c].phase = "decode"}
    /\ p.budget \in Nat
    /\ p.prefill = {} \/ \E c \in Arrivals : p.prefill = {c}
    /\ \A c \in p.prefill : \/ /\ c \in running /\ req[c].phase = "prefill"
                               /\ req[c].cursor + p.budget <= Prompt[c]
                            \/ /\ c \in queue /\ p.budget <= Prompt[c]

\* The plan keeps it.
LEMMA PlanIs ==
    ASSUME QueueShape, States(req), NEW running \in SUBSET Arrivals, NEW queue \in SUBSET Arrivals,
           queue \cap running = {}, NEW in, NEW p, p = Plan(running, queue, in)
    PROVE  Promised(p, running, queue)
  <1> USE DEF Promised
  <1>1. PICK decode \in Seq(Clients) : decode = DecodeRows(running)
    BY DecodeRowsIs
  <1>2. PICK cap \in Int : cap = MaxBatchTokens - Len(decode)
    <2>1. PICK l \in Nat : l = Len(decode)
      OBVIOUS
    <2>2. PICK m \in Nat : m = MaxBatchTokens
      BY MetalAssumption
    <2>3. m - l \in Int
      OBVIOUS
    <2> QED  BY <2>1, <2>2, <2>3
  <1>3. PICK row : row = PrefillRow(running, queue, in, cap)
    OBVIOUS
  <1> DEFINE progress(c) == IF c \in running THEN req[c].cursor ELSE 0
             left == {Prompt[c] - progress(c) : c \in row}
  <1>4. p = [decode |-> decode, prefill |-> row,
             budget |-> IF row = {} THEN 0 ELSE Least(cap, Min(left))]
    BY <1>1, <1>2, <1>3, Zenon DEF Plan
  <1>5. p.decode = decode /\ p.prefill = row /\ p.budget = IF row = {} THEN 0 ELSE Least(cap, Min(left))
    BY <1>4
  <1> HIDE DEF left
  <1>6. CASE row = {}
    BY <1>1, <1>5, <1>6, DecodeRowsIs
  <1>7. CASE row /= {}
    <2>1. PICK c \in Arrivals : /\ row = {c} /\ ~(cap <= 0)
                                /\ (c \in running /\ req[c].phase = "prefill") \/ c \in queue
      BY <1>3, <1>7, PrefillRowIs
    <2>2. c \in Clients
      BY ArrivedFacts
    <2>3. PICK k \in Nat : k = progress(c) /\ k <= Prompt[c]
      BY <2>2, MetalAssumption DEF States
    <2>4. PICK m \in Nat : m = Prompt[c] - k
      BY <2>2, <2>3, MetalAssumption
    <2>5. left = {m}
      BY <2>1, <2>3, <2>4 DEF left
    <2>6. Min(left) = m
      <3>1. \E x \in left : \A y \in left : x <= y
        BY <2>5
      <3>2. Min(left) \in left
        BY <3>1, Zenon DEF Min
      <3> QED  BY <2>5, <3>2
    <2>7. p.budget \in Nat /\ p.budget <= m
      BY <1>5, <1>7, <2>1, <2>6 DEF Least
    <2>8. k + p.budget <= Prompt[c] /\ p.budget <= Prompt[c]
      BY <2>2, <2>3, <2>4, <2>7, MetalAssumption
    <2>9. (c \in running => k = req[c].cursor)
      BY <2>3
    <2> HIDE DEF progress
    <2>10. \A d \in row : \/ /\ d \in running /\ req[d].phase = "prefill"
                             /\ req[d].cursor + p.budget <= Prompt[d]
                          \/ /\ d \in queue /\ p.budget <= Prompt[d]
      BY <2>1, <2>8, <2>9
    <2> QED  BY <1>1, <1>5, <2>1, <2>7, <2>10, DecodeRowsIs
  <1> QED  BY <1>6, <1>7

------------------------------------------------------------------------------
(* The steps *)

\* The request being activated.
Activating == IF at = "activate" THEN step.prefill ELSE {}

\* TablesAgree without abbreviations of its own.
Agree ==
    /\ requests = Here
    /\ admitted = active \cup Rows \cup Activating
    /\ ToSet(waiting) = pending \ Activating
    /\ waiting_count = Len(request_rx) + Cardinality(pending)
    /\ session \subseteq active \cup Rows /\ Cardinality(session) <= 1

LEMMA AgreeIs == (TablesAgree <=> Agree) /\ (TablesAgree' <=> Agree')
  BY Zenon DEF TablesAgree, Agree, Activating, Here, Rows

\* The pending requests are finitely many.
LEMMA PendingFinite ==
    ASSUME QueueShape, Known
    PROVE  IsFiniteSet(pending) /\ Cardinality(pending) \in Nat
  <1>1. IsFiniteSet(ToSet(arrival))
    BY ListFinite DEF QueueShape
  <1>2. pending \in SUBSET ToSet(arrival)
    BY DEF Known, Here
  <1> QED  BY <1>1, <1>2, FS_Subset, FS_CardinalityType

\* Before and after a decode nothing is open.
LEMMA NothingOpen ==
    ASSUME QueueShape, at /= "deliver"
    PROVE  open = <<>> /\ Rows = {}
  BY DEF QueueShape, Rows

\* The set of rows in the batch is that of its identifiers; no batch has none.
LEMMA NoneCached == cache = None => Cached = {}
  BY DEF Cached, None, ToSet

\* Where the thread goes after it planned.
LEMMA FromPlanIs ==
    ASSUME NEW p, NEW running, p.prefill = {} \/ \E c : p.prefill = {c}
    PROVE  /\ FromPlan(p, running) \in {"loop", "again", "activate", "decode", "prefill"}
           /\ FromPlan(p, running) = "activate" <=> ~(p.prefill \subseteq running)
           /\ FromPlan(p, running) = "activate" => p.prefill \cap running = {}
  <1>1. p = NoStep => p.prefill = {}
    BY DEF NoStep
  <1> QED  BY <1>1 DEF FromPlan, FromActivate, FromDecode

\* What is reaped and what is drained make up the channel and the pending requests.
LEMMA ReapedCount ==
    ASSUME QueueShape, Known, waiting_count = Len(request_rx) + Cardinality(pending)
    PROVE  waiting_count - Reaped
             = Cardinality((pending \cup (ToSet(request_rx) \cap (Clients \ closed))) \ closed)
  <1>1. PICK Q \in SUBSET Clients : Q = ToSet(request_rx)
    BY ListSubset DEF QueueShape
  <1>2. IsFiniteSet(Q) /\ Cardinality(Q) = Len(request_rx)
    BY <1>1, ListCount DEF QueueShape
  <1>3. PICK K : K = Keeping(request_rx, closed)
    OBVIOUS
  <1>4. K \in Seq(Clients) /\ Once(K) /\ ToSet(K) = Q \cap closed
    BY <1>1, <1>3, KeepFacts DEF QueueShape
  <1>5. Len(K) = Cardinality(Q \cap closed)
    BY <1>4, ListCount
  <1>6. PICK P : P = pending /\ IsFiniteSet(P)
    BY PendingFinite
  <1>7. P \cap Q = {}
    BY <1>1, <1>6 DEF Known, Here
  <1>8. /\ IsFiniteSet(Q \ closed) /\ Cardinality(Q \ closed) = Cardinality(Q) - Cardinality(Q \cap closed)
        /\ IsFiniteSet(P \ closed) /\ Cardinality(P \ closed) = Cardinality(P) - Cardinality(P \cap closed)
    BY <1>2, <1>6, FS_Difference
  <1>9. (P \cup (Q \cap (Clients \ closed))) \ closed = (P \ closed) \cup (Q \ closed)
    BY <1>1
  <1>10. Cardinality((P \ closed) \cup (Q \ closed)) = Cardinality(P \ closed) + Cardinality(Q \ closed)
    <2>1. (P \ closed) \cap (Q \ closed) = {}
      BY <1>7
    <2>2. Cardinality((P \ closed) \cap (Q \ closed)) = 0
      BY <2>1, FS_EmptySet
    <2>3. Cardinality(P \ closed) \in Nat /\ Cardinality(Q \ closed) \in Nat
      BY <1>8, FS_CardinalityType
    <2>4. Cardinality((P \ closed) \cup (Q \ closed))
            = Cardinality(P \ closed) + Cardinality(Q \ closed) - Cardinality((P \ closed) \cap (Q \ closed))
      BY <1>8, FS_Union
    <2> QED  BY <2>2, <2>3, <2>4
  <1>11. PICK a \in Nat, b \in Nat, d \in Nat, e \in Nat :
            a = Cardinality(Q) /\ b = Cardinality(Q \cap closed) /\ d = Cardinality(P) /\ e = Cardinality(P \cap closed)
    BY <1>2, <1>6, FS_Intersection, FS_CardinalityType
  <1>12. Reaped = b + e
    BY <1>3, <1>5, <1>6, <1>11 DEF Reaped
  <1>13. waiting_count = a + d
    BY <1>2, <1>6, <1>11
  <1>14. Cardinality((P \cup (Q \cap (Clients \ closed))) \ closed) = (d - e) + (a - b)
    BY <1>8, <1>9, <1>10, <1>11
  <1>15. (a + d) - (b + e) = (d - e) + (a - b)
    OBVIOUS
  <1> QED  BY <1>1, <1>6, <1>12, <1>13, <1>14, <1>15

\* One turn of the loop.
LEMMA TurnKeeps ==
    ASSUME MetalInv, Turn
    PROVE  MetalInv'
  <1> USE DEF MetalInv
  <1>1. at \in {"loop", "again"} /\ at /= "deliver" /\ at /= "activate" /\ open = <<>> /\ Rows = {}
    BY NothingOpen, Zenon DEF Turn
  <1>2. Activating = {}
    BY <1>1 DEF Activating
  <1>3. Agree
    BY AgreeIs
  <1>4. PICK fresh, running, queue, p, new :
          /\ fresh = Keeping(request_rx, Clients \ closed) /\ running = active \ closed
          /\ queue = ToSet(waiting \o fresh) \ closed /\ p = Plan(running, queue, admitted \ closed)
          /\ new = p.prefill \ running
    OBVIOUS
  <1>5. /\ request_rx' = <<>> /\ arrival' = arrival \o fresh /\ waiting_count' = waiting_count - Reaped
        /\ waiting' = Keeping(waiting \o fresh, Clients \ (closed \cup new))
        /\ requests' = (requests \cup ToSet(fresh)) \ closed /\ admitted' = (admitted \ closed) \cup new
        /\ pending' = (pending \cup ToSet(fresh)) \ closed /\ active' = running
        /\ session' = session \ closed /\ step' = p /\ at' = FromPlan(p, running)
        /\ called' = called /\ req' = req /\ cache' = cache /\ open' = open
    BY <1>4, Zenon DEF Turn
  <1>6. fresh \in Seq(Clients) /\ Once(fresh) /\ ToSet(fresh) = ToSet(request_rx) \cap (Clients \ closed)
    BY <1>4, KeepFacts DEF QueueShape
  <1>7. ToSet(waiting) = pending
    BY <1>2, <1>3 DEF Agree
  <1>8. PICK all : all = waiting \o fresh
    OBVIOUS
  <1>9. all \in Seq(Clients) /\ Once(all) /\ ToSet(all) = pending \cup ToSet(fresh)
    <2>1. ToSet(waiting) \cap ToSet(fresh) = {}
      BY <1>6, <1>7 DEF Known, Here
    <2> QED  BY <1>6, <1>7, <1>8, <2>1, ConcatOnce DEF QueueShape
  <1>10. queue = pending'
    BY <1>4, <1>5, <1>8, <1>9
  <1>11. running \in SUBSET Arrivals /\ queue \in SUBSET Arrivals /\ queue \cap running = {}
    <2>1. Arrivals = ToSet(arrival) \cup ToSet(request_rx)
      BY ArrivedFacts
    <2>2. queue \subseteq pending \cup ToSet(request_rx) /\ running \subseteq active
      BY <1>4, <1>6, <1>8, <1>9
    <2> QED  BY <2>1, <2>2 DEF Known, Here
  <1>12. /\ p.decode \in Seq(Clients) /\ Once(p.decode)
         /\ ToSet(p.decode) = {c \in running : req[c].phase = "decode"}
         /\ p.budget \in Nat
         /\ p.prefill = {} \/ \E c \in Arrivals : p.prefill = {c}
         /\ \A c \in p.prefill : \/ /\ c \in running /\ req[c].phase = "prefill"
                                    /\ req[c].cursor + p.budget <= Prompt[c]
                                 \/ /\ c \in queue /\ p.budget <= Prompt[c]
    <2>1. QueueShape /\ States(req)
      OBVIOUS
    <2>2. Promised(p, running, queue)
      BY <1>4, <1>11, <2>1, PlanIs
    <2> QED  BY <2>2 DEF Promised
  <1>13. /\ at' \in {"loop", "again", "activate", "decode", "prefill"}
         /\ at' = "activate" <=> ~(p.prefill \subseteq running)
         /\ at' = "activate" => p.prefill \cap running = {}
    <2>1. p.prefill = {} \/ \E c : p.prefill = {c}
      BY <1>12, Zenon
    <2> QED  BY <1>5, <2>1, FromPlanIs, Zenon
  <1>14. Rows' = {} /\ Cached' = Cached
    BY <1>1, <1>5 DEF Rows, Cached
  <1>15. Activating' = new
    <2>1. CASE at' = "activate"
      BY <1>4, <1>5, <1>13, <2>1 DEF Activating
    <2>2. CASE at' /= "activate"
      BY <1>4, <1>5, <1>13, <2>2 DEF Activating
    <2> QED  BY <2>1, <2>2
  <1>16. ToSet(waiting') = pending' \ new /\ waiting' \in Seq(Clients) /\ Once(waiting')
    <2>1. waiting' \in Seq(Clients) /\ Once(waiting') /\ ToSet(waiting') = ToSet(all) \cap (Clients \ (closed \cup new))
      BY <1>5, <1>8, <1>9, KeepFacts
    <2>2. ToSet(all) \subseteq Clients
      BY <1>9, ListSubset
    <2> QED  BY <1>5, <1>9, <2>1, <2>2
  <1>17. QueueShape'
    <2>1. Once(request_rx') /\ request_rx' \in Seq(Clients)
      BY <1>5 DEF Once
    <2>2. arrival' \in Seq(Clients)
      BY <1>5, <1>6, ConcatOnce DEF QueueShape
    <2>3. IsSeq(open') /\ \A i, j \in DOMAIN open' : open'[i].id = open'[j].id => i = j
      BY <1>5 DEF QueueShape
    <2>4. (open' /= <<>> <=> at' = "deliver")
      BY <1>1, <1>5, <1>13
    <2> QED  BY <1>16, <2>1, <2>2, <2>3, <2>4 DEF QueueShape
  <1>18. Known'
    <2>1. ToSet(request_rx') = {}
      BY <1>5 DEF ToSet
    <2>2. ToSet(arrival') = ToSet(arrival) \cup ToSet(fresh)
      BY <1>5, <1>6, ConcatOnce DEF QueueShape
    <2>3. Here' = pending' \cup active'
      BY <1>14 DEF Here
    <2>4. pending' \subseteq pending \cup ToSet(fresh) /\ active' \subseteq active /\ ToSet(fresh) \subseteq ToSet(request_rx)
      BY <1>4, <1>5, <1>6
    <2> QED  BY <1>5, <1>14, <2>1, <2>2, <2>3, <2>4 DEF Known, Here
  <1>19. PlanKept'
    <2>1. active' \cap Cached' \subseteq ToSet(p.decode)
      BY <1>4, <1>5, <1>12, <1>14 DEF Phases
    <2>2. p.prefill \cap ToSet(p.decode) = {}
      BY <1>11, <1>12
    <2>3. queue \cap Cached = {}
      BY <1>5, <1>6, <1>10 DEF Known
    <2>4. p.prefill \cap Cached' = {}
      BY <1>4, <1>12, <1>14, <2>3 DEF Phases
    <2>5. ASSUME at' = "activate"
          PROVE (\E c \in pending' : p.prefill = {c}) /\ \A c \in p.prefill : p.budget <= Prompt[c]
      BY <1>10, <1>12, <1>13, <2>5
    <2>6. ASSUME at' /= "activate"
          PROVE p.prefill \subseteq active' /\ \A c \in p.prefill : req[c].cursor + p.budget <= Prompt[c]
      BY <1>5, <1>11, <1>12, <1>13, <2>6
    <2>7. ToSet(p.decode) \subseteq active'
      BY <1>5, <1>12
    <2> QED  BY <1>5, <1>12, <1>13, <2>1, <2>2, <2>4, <2>5, <2>6, <2>7 DEF PlanKept
  <1>20. Phases'
    BY <1>4, <1>5, <1>13, <1>14 DEF Phases
  <1>21. Agree'
    <2>1. requests' = Here'
      BY <1>1, <1>3, <1>4, <1>5, <1>14 DEF Agree, Here
    <2>2. admitted' = active' \cup Rows' \cup Activating'
      BY <1>1, <1>2, <1>3, <1>4, <1>5, <1>14, <1>15 DEF Agree
    <2>3. ToSet(waiting') = pending' \ Activating'
      BY <1>15, <1>16
    <2>4. waiting_count' = Len(request_rx') + Cardinality(pending')
      <3>1. waiting_count' = Cardinality(pending')
        BY <1>3, <1>5, <1>6, ReapedCount DEF Agree
      <3>2. Cardinality(pending') \in Nat
        BY <1>10, <1>11, ArrivedFacts, FS_Subset, FS_CardinalityType
      <3>3. Len(request_rx') = 0
        BY <1>5
      <3> QED  BY <3>1, <3>2, <3>3
    <2>5. session' \subseteq active' \cup Rows'
      BY <1>1, <1>3, <1>4, <1>5, <1>14 DEF Agree
    <2>6. Cardinality(session') <= 1
      <3>1. IsFiniteSet(session)
        <4>1. session \in SUBSET ToSet(arrival)
          BY <1>3 DEF Agree, Known, Here
        <4> QED  BY <4>1, ListFinite, FS_Subset DEF QueueShape
      <3>2. Cardinality(session') <= Cardinality(session) /\ Cardinality(session) \in Nat /\ Cardinality(session') \in Nat
        <4>1. session' \in SUBSET session
          BY <1>5
        <4> QED  BY <3>1, <4>1, FS_Subset, FS_CardinalityType
      <3> QED  BY <1>3, <3>2 DEF Agree
    <2> QED  BY <2>1, <2>2, <2>3, <2>4, <2>5, <2>6 DEF Agree
  <1>22. TablesAgree'
    BY <1>21, AgreeIs
  <1>23. States(req)' /\ (cache = None \/ Batch(cache))'
    BY <1>5
  <1>24. RowsAligned'
    BY <1>4, <1>5, Zenon DEF RowsAligned
  <1> QED  BY <1>17, <1>18, <1>19, <1>20, <1>22, <1>23, <1>24

\* Any part of the sessions there are is one at most.
LEMMA FewSessions ==
    ASSUME QueueShape, Known, Agree, NEW T \in SUBSET session
    PROVE  Cardinality(T) <= 1
  <1>1. IsFiniteSet(session)
    <2>1. session \in SUBSET ToSet(arrival)
      BY DEF Agree, Known, Here
    <2> QED  BY <2>1, ListFinite, FS_Subset DEF QueueShape
  <1>2. Cardinality(T) <= Cardinality(session) /\ Cardinality(session) \in Nat /\ Cardinality(T) \in Nat
    BY <1>1, FS_Subset, FS_CardinalityType
  <1> QED  BY <1>2 DEF Agree

\* A new entry at the end of a list.
LEMMA AppendOnce ==
    ASSUME NEW S, NEW q \in Seq(S), NEW x \in S
    PROVE  /\ Append(q, x) \in Seq(S) /\ Len(Append(q, x)) = Len(q) + 1
           /\ ToSet(Append(q, x)) = ToSet(q) \cup {x}
           /\ Once(q) /\ x \notin ToSet(q) => Once(Append(q, x))
  <1>1. PICK n \in Nat : n = Len(q) /\ DOMAIN q = 1..n
    OBVIOUS
  <1>2. PICK r \in Seq(S) : r = Append(q, x)
    BY AppendProperties
  <1>3. Len(r) = n + 1 /\ DOMAIN r = 1..n + 1 /\ r[n + 1] = x
    BY <1>1, <1>2
  <1>4. \A i \in 1..n : r[i] = q[i]
    BY <1>1, <1>2
  <1>5. \A k \in 1..n + 1 : k \in 1..n \/ k = n + 1
    OBVIOUS
  <1>6. n + 1 \in 1..n + 1 /\ \A k \in 1..n : k \in 1..n + 1
    OBVIOUS
  <1>7. ToSet(r) = ToSet(q) \cup {x}
    BY <1>1, <1>3, <1>4, <1>5, <1>6 DEF ToSet
  <1>8. ASSUME Once(q), x \notin ToSet(q) PROVE Once(r)
    <2>1. \A i \in 1..n : q[i] /= x
      BY <1>1, <1>8 DEF ToSet
    <2> QED  BY <1>1, <1>3, <1>4, <1>5, <1>8, <2>1 DEF Once
  <1> QED  BY <1>1, <1>2, <1>3, <1>7, <1>8

\* A client submits its request.
LEMMA SubmitKeeps ==
    ASSUME MetalInv, NEW c \in Clients, Submit(c)
    PROVE  MetalInv'
  <1> USE DEF MetalInv
  <1>1. /\ c \notin called /\ called' = called \cup {c} /\ request_rx' = Append(request_rx, c)
        /\ waiting_count' = waiting_count + 1
        /\ arrival' = arrival /\ waiting' = waiting /\ requests' = requests /\ admitted' = admitted
        /\ pending' = pending /\ active' = active /\ req' = req /\ session' = session /\ cache' = cache
        /\ open' = open /\ at' = at /\ step' = step
    BY Zenon DEF Submit, tables
  <1>2. Rows' = Rows /\ Cached' = Cached /\ Here' = Here /\ Activating' = Activating
    BY <1>1 DEF Rows, Cached, Here, Activating
  <1>3. c \notin ToSet(request_rx)
    BY <1>1 DEF Known
  <1>4. /\ request_rx' \in Seq(Clients) /\ Len(request_rx') = Len(request_rx) + 1
        /\ ToSet(request_rx') = ToSet(request_rx) \cup {c} /\ Once(request_rx')
    BY <1>1, <1>3, AppendOnce DEF QueueShape
  <1>5. QueueShape'
    BY <1>1, <1>4 DEF QueueShape
  <1>6. Known'
    BY <1>1, <1>2, <1>4 DEF Known
  <1>7. PlanKept'
    BY <1>1, <1>2 DEF PlanKept
  <1>8. Phases'
    BY <1>1, <1>2 DEF Phases
  <1>9. Agree'
    <2>1. Agree
      BY AgreeIs
    <2>2. Len(request_rx) \in Nat /\ Cardinality(pending) \in Nat
      BY PendingFinite DEF QueueShape
    <2> QED  BY <1>1, <1>2, <1>4, <2>1, <2>2 DEF Agree
  <1>10. TablesAgree'
    BY <1>9, AgreeIs
  <1>11. States(req)' /\ (cache = None \/ Batch(cache))'
    BY <1>1
  <1>12. RowsAligned'
    BY <1>1, Zenon DEF RowsAligned
  <1> QED  BY <1>5, <1>6, <1>7, <1>8, <1>10, <1>11, <1>12

\* What else happens leaves all of it alone.
LEMMA NothingKeeps ==
    ASSUME MetalInv,
           UNCHANGED <<called, request_rx, waiting_count, arrival, waiting, requests, admitted, pending,
                       active, req, session, cache, open, at, step>>
    PROVE  MetalInv'
  <1> USE DEF MetalInv
  <1>1. /\ called' = called /\ request_rx' = request_rx /\ waiting_count' = waiting_count
        /\ arrival' = arrival /\ waiting' = waiting /\ requests' = requests /\ admitted' = admitted
        /\ pending' = pending /\ active' = active /\ req' = req /\ session' = session /\ cache' = cache
        /\ open' = open /\ at' = at /\ step' = step
    OBVIOUS
  <1>2. Rows' = Rows /\ Cached' = Cached /\ Here' = Here /\ Activating' = Activating
    BY <1>1 DEF Rows, Cached, Here, Activating
  <1>3. QueueShape' /\ Known'
    BY <1>1, <1>2 DEF QueueShape, Known
  <1>4. PlanKept' /\ Phases'
    BY <1>1, <1>2 DEF PlanKept, Phases
  <1>5. Agree'
    BY <1>1, <1>2, AgreeIs DEF Agree
  <1>6. TablesAgree'
    BY <1>5, AgreeIs
  <1>7. States(req)' /\ (cache = None \/ Batch(cache))'
    BY <1>1
  <1>8. RowsAligned'
    BY <1>1, Zenon DEF RowsAligned
  <1> QED  BY <1>3, <1>4, <1>6, <1>7, <1>8

LEMMA HangUpKeeps ==
    ASSUME MetalInv, NEW c \in Clients, HangUp(c)
    PROVE  MetalInv'
  BY NothingKeeps DEF HangUp, clientVars, tables

\* Where the thread goes after an activation and after a decode.
LEMMA FromActivateIs ==
    ASSUME NEW s, NEW running
    PROVE  /\ FromActivate(s, running) \in {"decode", "prefill", "loop"}
           /\ FromActivate(s, running) = "prefill" => s.prefill \subseteq running
           /\ FromDecode(s, running) \in {"prefill", "loop"}
           /\ FromDecode(s, running) = "prefill" => s.prefill \subseteq running
  BY DEF FromActivate, FromDecode

\* The admitted request becomes active, or leaves.
LEMMA ActivateKeeps ==
    ASSUME MetalInv, Activate
    PROVE  MetalInv'
  <1> USE DEF MetalInv
  <1>1. PICK c \in step.prefill :
          /\ at = "activate" /\ pending' = pending \ {c} /\ waiting_count' = waiting_count - 1
          /\ \/ /\ active' = active \cup {c} /\ req' = [req EXCEPT ![c] = NewRequest]
                /\ UNCHANGED <<requests, admitted, session>>
             \/ Gone({c}) /\ UNCHANGED <<active, req>>
          /\ at' = FromActivate(step, active')
          /\ UNCHANGED <<clientVars, arrival, waiting, cache, open, step>>
    BY Zenon DEF Activate
  <1>2. /\ called' = called /\ request_rx' = request_rx /\ arrival' = arrival /\ waiting' = waiting
        /\ cache' = cache /\ open' = open /\ step' = step
    BY <1>1 DEF clientVars
  <1>3. open = <<>> /\ Rows = {} /\ Rows' = {} /\ Cached' = Cached
    BY <1>1, <1>2, NothingOpen DEF Rows, Cached
  <1>4. step.prefill = {c} /\ c \in pending /\ c \notin active /\ c \notin Cached /\ Activating = {c}
    BY <1>1 DEF PlanKept, Known, Activating
  <1>5. c \in Clients /\ active' \subseteq active \cup {c} /\ active \subseteq active'
    <2>1. c \in Clients
      <3>1. c \in ToSet(arrival)
        BY <1>4 DEF Known, Here
      <3> QED  BY <3>1, ListSubset DEF QueueShape
    <2> QED  BY <1>1, <2>1
  <1>6. at' \in {"decode", "prefill", "loop"} /\ (at' = "prefill" => step.prefill \subseteq active')
    BY <1>1, FromActivateIs
  <1>7. Activating' = {}
    BY <1>6 DEF Activating
  <1>8. Agree
    BY AgreeIs
  <1>9. QueueShape'
    BY <1>2, <1>3, <1>6 DEF QueueShape
  <1>10. Known'
    BY <1>1, <1>2, <1>3, <1>4, <1>5 DEF Known, Here
  <1>11. req = [d \in Clients |-> req[d]] /\ \A d \in Clients : d /= c => req'[d] = req[d]
    BY <1>1 DEF States
  <1>12. c \in active' => req'[c] = NewRequest
    BY <1>1, <1>4, <1>5, <1>11
  <1>13. PlanKept'
    <2>1. active' \cap Cached' \subseteq ToSet(step'.decode) /\ ToSet(step'.decode) \subseteq active'
      BY <1>1, <1>2, <1>3, <1>4, <1>5 DEF PlanKept
    <2>2. \A d \in step'.prefill \cap active' : req'[d].cursor + step'.budget <= Prompt[d]
      <3>1. c \in active' => req'[c].cursor = 0
        BY <1>12 DEF NewRequest
      <3>2. step.budget <= Prompt[c] /\ step.budget \in Nat
        BY <1>1 DEF PlanKept
      <3> QED  BY <1>2, <1>4, <3>1, <3>2
    <2> QED  BY <1>1, <1>2, <1>3, <1>6, <2>1, <2>2 DEF PlanKept
  <1>14. Phases'
    <2>1. active \subseteq Clients
      <3>1. active \subseteq ToSet(arrival)
        BY DEF Known, Here
      <3> QED  BY <3>1, ListSubset DEF QueueShape
    <2>2. ASSUME NEW d \in active' \cap Cached' PROVE req'[d].phase = "decode"
      <3>1. d \in active \cap Cached /\ d /= c
        BY <1>3, <1>4, <1>5
      <3> QED  BY <1>11, <2>1, <3>1 DEF Phases
    <2> QED  BY <1>3, <1>6, <2>2 DEF Phases
  <1>15. Agree'
    <2>1. waiting_count' = Len(request_rx') + Cardinality(pending')
      <3>1. IsFiniteSet(pending) /\ Cardinality(pending) \in Nat /\ Len(request_rx) \in Nat
        BY PendingFinite DEF QueueShape
      <3>2. Cardinality(pending') = Cardinality(pending) - 1
        BY <1>1, <1>4, <3>1, FS_RemoveElement
      <3> QED  BY <1>1, <1>2, <1>8, <3>1, <3>2 DEF Agree
    <2>2. ToSet(waiting') = pending' \ Activating'
      BY <1>1, <1>2, <1>4, <1>7, <1>8 DEF Agree
    <2>3. Cardinality(session') <= 1
      <3>1. session' \in SUBSET session
        BY <1>1 DEF Gone
      <3> QED  BY <1>8, <3>1, FewSessions
    <2>4. requests' = Here' /\ admitted' = active' \cup Rows' \cup Activating' /\ session' \subseteq active' \cup Rows'
      <3>1. requests = pending \cup active /\ admitted = active \cup {c} /\ session \subseteq active
        BY <1>3, <1>4, <1>8 DEF Agree, Here
      <3>2. CASE active' = active \cup {c} /\ UNCHANGED <<requests, admitted, session>>
        BY <1>1, <1>3, <1>4, <1>7, <3>1, <3>2 DEF Here
      <3>3. CASE Gone({c}) /\ active' = active
        BY <1>1, <1>3, <1>4, <1>7, <3>1, <3>3 DEF Here, Gone
      <3> QED  BY <1>1, <3>2, <3>3
    <2> QED  BY <2>1, <2>2, <2>3, <2>4 DEF Agree
  <1>16. TablesAgree'
    BY <1>15, AgreeIs
  <1>17. States(req')
    <2>1. /\ DOMAIN NewRequest = Fields /\ IsSeq(NewRequest.fed) /\ NewRequest.cursor = 0
          /\ NewRequest.kv = <<>> /\ NewRequest.fed = <<>> /\ NewRequest.cache_len = 0
      <3>1. <<>> \in Seq({})
        OBVIOUS
      <3> QED  BY <3>1 DEF NewRequest, Fields, IsSeq
    <2>2. req' = [d \in Clients |-> req'[d]]
      BY <1>1, <1>11
    <2>3. \A d \in Clients : req'[d] = req[d] \/ req'[d] = NewRequest
      BY <1>1, <1>5, <1>11
    <2>4. ASSUME NEW d \in Clients
          PROVE  /\ DOMAIN req'[d] = Fields /\ IsSeq(req'[d].fed)
                 /\ req'[d].cursor \in Nat /\ req'[d].cursor <= Prompt[d]
      <3>1. CASE req'[d] = req[d]
        BY <3>1 DEF States
      <3>2. CASE req'[d] = NewRequest
        <4>1. Prompt[d] \in Nat
          BY MetalAssumption
        <4> QED  BY <2>1, <3>2, <4>1
      <3> QED  BY <2>3, <3>1, <3>2
    <2> QED  BY <2>2, <2>4, Zenon DEF States
  <1>18. RowsAligned'
    <2>1. Cached \subseteq Clients /\ active \subseteq Clients
      <3>1. Cached \subseteq ToSet(arrival) /\ active \subseteq ToSet(arrival)
        BY DEF Known, Here
      <3> QED  BY <3>1, ListSubset DEF QueueShape
    <2>2. \A i \in DOMAIN cache.ids : cache.ids[i] \in Clients /\ req'[cache.ids[i]] = req[cache.ids[i]]
      <3>1. \A i \in DOMAIN cache.ids : cache.ids[i] \in Cached
        BY DEF Cached, ToSet
      <3> QED  BY <1>4, <1>11, <2>1, <3>1
    <2>3. ASSUME NEW d \in active', d \notin ToSet(cache.ids)
          PROVE  req'[d].kv = req'[d].fed /\ req'[d].cache_len = Len(req'[d].fed)
      <3>1. CASE d = c
        BY <1>12, <2>3, <3>1 DEF NewRequest
      <3>2. CASE d /= c
        BY <1>5, <1>11, <2>1, <2>3, <3>2 DEF RowsAligned
      <3> QED  BY <3>1, <3>2
    <2> QED  BY <1>2, <2>2, <2>3 DEF RowsAligned
  <1>19. (cache = None \/ Batch(cache))'
    BY <1>2
  <1> QED  BY <1>9, <1>10, <1>13, <1>14, <1>16, <1>17, <1>18, <1>19

------------------------------------------------------------------------------
(* Rows *)

\* Two lists are the same if they are so entry by entry.
LEMMA SameList ==
    ASSUME NEW p, NEW q, IsSeq(p), IsSeq(q), Len(p) = Len(q), \A i \in 1..Len(p) : p[i] = q[i]
    PROVE  p = q
  <1>1. PICK S : p \in Seq(S)
    BY DEF IsSeq
  <1>2. PICK T : q \in Seq(T)
    BY DEF IsSeq
  <1>3. PICK U : U = S \cup T
    OBVIOUS
  <1>4. p \in Seq(U) /\ q \in Seq(U)
    BY <1>1, <1>2, <1>3
  <1> QED  BY <1>4, SeqEqual

\* q is row, which has l entries, without the first n.
Suffix(q, row, l, n) == IsSeq(q) /\ Len(q) = l - n /\ \A i \in 1..l - n : q[i] = row[n + i]

\* Strip drops the padding.
LEMMA StripIs ==
    ASSUME NEW row, IsSeq(row), NEW l \in Nat, l = Len(row), NEW n \in Nat, n <= l
    PROVE  Suffix(Strip(row, n), row, l, n)
  <1>1. PICK S : row \in Seq(S)
    BY DEF IsSeq
  <1>3. n + 1 \in Int /\ l \in Int /\ \A i \in n + 1..l : row[i] \in S
    BY <1>1
  <1>4. PICK q : q = Strip(row, n)
    OBVIOUS
  <1>5. q = SubSeq(row, n + 1, l)
    BY <1>4 DEF Strip
  <1>6. /\ q \in Seq(S) /\ Len(q) = IF n + 1 <= l THEN l - (n + 1) + 1 ELSE 0
        /\ \A i \in 1..l - (n + 1) + 1 : q[i] = row[(n + 1) + i - 1]
    BY <1>3, <1>5, SubSeqProperties
  <1>7. l - (n + 1) + 1 = l - n /\ (IF n + 1 <= l THEN l - (n + 1) + 1 ELSE 0) = l - n
    OBVIOUS
  <1>8. \A i \in 1..l - n : (n + 1) + i - 1 = n + i
    OBVIOUS
  <1>9. IsSeq(q)
    BY <1>6 DEF IsSeq
  <1> QED  BY <1>4, <1>6, <1>7, <1>8, <1>9 DEF Suffix

\* Dropping some columns and then the rest of the padding.
LEMMA StripTwice ==
    ASSUME NEW row, IsSeq(row), NEW m \in Nat, NEW n \in Nat, m <= n, n <= Len(row)
    PROVE  Strip(Strip(row, m), n - m) = Strip(row, n)
  <1>1. PICK l \in Nat : l = Len(row)
    BY SeqFacts
  <1>2. PICK p : p = Strip(row, m)
    OBVIOUS
  <1>a. m <= l /\ n <= l
    BY <1>1
  <1>3. IsSeq(p) /\ Len(p) = l - m /\ \A i \in 1..l - m : p[i] = row[m + i]
    <2>9. Suffix(p, row, l, m)
      BY <1>1, <1>2, <1>a, StripIs
    <2> QED  BY <1>1, <1>2, <1>a, <2>9 DEF Suffix
  <1>4. PICK k \in Nat : k = n - m /\ k <= l - m
    BY <1>a
  <1>b. l - m \in Nat
    BY <1>a
  <1>5. PICK q : q = Strip(p, k)
    OBVIOUS
  <1>6. IsSeq(q) /\ Len(q) = (l - m) - k /\ \A i \in 1..(l - m) - k : q[i] = p[k + i]
    <2>1. PICK w \in Nat : w = l - m
      BY <1>b
    <2>2. Len(p) = w /\ k <= w
      BY <1>3, <1>4, <2>1
    <2>3. IsSeq(q) /\ Len(q) = w - k /\ \A i \in 1..w - k : q[i] = p[k + i]
      <3>9. Suffix(q, p, w, k)
        BY <1>3, <1>5, <2>2, StripIs
      <3> QED  BY <1>3, <1>5, <2>2, <3>9 DEF Suffix
    <2> QED  BY <2>1, <2>3
  <1>7. PICK r : r = Strip(row, n)
    OBVIOUS
  <1>8. IsSeq(r) /\ Len(r) = l - n /\ \A i \in 1..l - n : r[i] = row[n + i]
    <2>9. Suffix(r, row, l, n)
      BY <1>1, <1>7, <1>a, StripIs
    <2> QED  BY <1>1, <1>7, <1>a, <2>9 DEF Suffix
  <1>9. (l - m) - k = l - n
    BY <1>4
  <1>10. \A i \in 1..l - n : k + i \in 1..l - m /\ m + (k + i) = n + i
    BY <1>4
  <1>11. \A i \in 1..l - n : q[i] = r[i]
    BY <1>3, <1>6, <1>8, <1>9, <1>10
  <1>12. q = r
    BY <1>6, <1>8, <1>9, <1>11, SameList
  <1> QED  BY <1>2, <1>4, <1>5, <1>7, <1>12

\* A column at the end.
LEMMA StripAppend ==
    ASSUME NEW row, IsSeq(row), NEW n \in Nat, n <= Len(row), NEW x
    PROVE  /\ IsSeq(Append(row, x)) /\ Len(Append(row, x)) = Len(row) + 1
           /\ Strip(Append(row, x), n) = Append(Strip(row, n), x)
  <1>1. PICK l \in Nat : l = Len(row)
    BY SeqFacts
  <1>2. PICK p : p = Append(row, x)
    OBVIOUS
  <1>3. IsSeq(p) /\ DOMAIN p = 1..l + 1 /\ p[l + 1] = x /\ \A i \in 1..l : p[i] = row[i]
    BY <1>1, <1>2, SeqFacts
  <1>4. Len(p) = l + 1
    <2>1. Len(p) \in Nat /\ DOMAIN p = 1..Len(p)
      BY <1>3, SeqFacts
    <2> QED  BY <1>3, <2>1
  <1>5. PICK q : q = Strip(row, n)
    OBVIOUS
  <1>c. n <= l
    BY <1>1
  <1>a. PICK k \in Nat : k = l - n
    <2>1. l - n \in Nat
      BY <1>c
    <2> QED  BY <2>1
  <1>6. IsSeq(q) /\ Len(q) = k /\ \A i \in 1..l - n : q[i] = row[n + i]
    <2>9. Suffix(q, row, l, n)
      BY <1>1, <1>5, <1>a, <1>c, StripIs
    <2> QED  BY <1>1, <1>5, <1>a, <1>c, <2>9 DEF Suffix
  <1>7. PICK r : r = Append(q, x)
    OBVIOUS
  <1>b. IsSeq(r) /\ DOMAIN r = 1..k + 1 /\ r[k + 1] = x /\ \A i \in 1..k : r[i] = q[i]
    BY <1>6, <1>7, SeqFacts
  <1>8. IsSeq(r) /\ DOMAIN r = 1..(l - n) + 1 /\ r[(l - n) + 1] = x /\ \A i \in 1..l - n : r[i] = q[i]
    BY <1>a, <1>b
  <1>9. Len(r) = (l - n) + 1
    <2>1. Len(r) \in Nat /\ DOMAIN r = 1..Len(r)
      BY <1>8, SeqFacts
    <2>2. l - n \in Nat
      BY <1>1
    <2> QED  BY <1>8, <2>1, <2>2
  <1>10. PICK s : s = Strip(p, n)
    OBVIOUS
  <1>11. IsSeq(s) /\ Len(s) = (l + 1) - n /\ \A i \in 1..(l + 1) - n : s[i] = p[n + i]
    <2>1. n <= l + 1 /\ l + 1 \in Nat
      BY <1>1
    <2>9. Suffix(s, p, l + 1, n)
      BY <1>3, <1>4, <1>10, <2>1, StripIs
    <2> QED  BY <1>3, <1>4, <1>10, <2>1, <2>9 DEF Suffix
  <1>12. ASSUME NEW i \in 1..(l + 1) - n PROVE s[i] = r[i]
    <2>1. CASE i \in 1..l - n
      <3>1. n + i \in 1..l
        BY <2>1
      <3> QED  BY <1>3, <1>6, <1>8, <1>11, <2>1, <3>1
    <2>2. CASE i = (l - n) + 1
      <3>1. n + i = l + 1
        BY <2>2
      <3> QED  BY <1>3, <1>8, <1>11, <2>2, <3>1
    <2>3. i \in 1..l - n \/ i = (l - n) + 1
      OBVIOUS
    <2> QED  BY <2>1, <2>2, <2>3
  <1>13. Len(s) = Len(r)
    BY <1>1, <1>9, <1>11
  <1>14. s = r
    BY <1>8, <1>11, <1>12, <1>13, SameList
  <1> QED  BY <1>1, <1>2, <1>3, <1>4, <1>5, <1>7, <1>10, <1>14

\* The row of a request that has its tokens in its own arrays: padding, then these.
LEMMA OwnRowIs ==
    ASSUME NEW r, IsSeq(r.kv), r.cache_len = Len(r.kv), NEW len \in Nat, r.cache_len <= len
    PROVE  /\ len - r.cache_len \in Nat /\ len - r.cache_len <= len
           /\ IsSeq(OwnRow(r, len)) /\ Len(OwnRow(r, len)) = len
           /\ Strip(OwnRow(r, len), len - r.cache_len) = r.kv
  <1>q. PICK q : q = r.kv
    OBVIOUS
  <1>1. PICK l \in Nat : l = Len(q) /\ q = r.kv /\ l = r.cache_len /\ IsSeq(q)
    BY <1>q, SeqFacts
  <1>2. PICK n \in Nat : n = len - l /\ n <= len
    <2>1. l <= len
      BY <1>1
    <2>2. len - l \in Nat /\ len - l <= len
      BY <2>1
    <2> QED  BY <2>2
  <1>3. PICK p : p = Padding(n)
    OBVIOUS
  <1>4. IsSeq(p) /\ DOMAIN p = 1..n
    <2>1. p = [i \in 1..n |-> p[i]]
      BY <1>3 DEF Padding
    <2> QED  BY <2>1, FunctionIsSeq
  <1>5. SubSeq(q, 1, l) = q
    <2>1. PICK S : q \in Seq(S)
      BY <1>1 DEF IsSeq
    <2> QED  BY <1>1, <2>1
  <1>6. PICK T : p \in Seq(T) /\ q \in Seq(T)
    <2>1. PICK A, B : p \in Seq(A) /\ q \in Seq(B)
      BY <1>1, <1>4 DEF IsSeq
    <2>2. p \in Seq(A \cup B) /\ q \in Seq(A \cup B)
      BY <2>1
    <2> QED  BY <2>2
  <1>7. PICK row : row = p \o q
    OBVIOUS
  <1>8. Len(p) = n
    BY <1>4, <1>6
  <1>9. row \in Seq(T) /\ Len(row) = n + l /\ \A i \in 1..n + l : row[i] = IF i <= n THEN p[i] ELSE q[i - n]
    <2>1. /\ row \in Seq(T) /\ Len(row) = Len(p) + Len(q)
          /\ \A i \in 1..Len(p) + Len(q) : row[i] = IF i <= Len(p) THEN p[i] ELSE q[i - Len(p)]
      BY <1>6, <1>7, ConcatProperties
    <2> QED  BY <1>1, <1>8, <2>1
  <1>10. n + l = len /\ IsSeq(row)
    BY <1>2, <1>9 DEF IsSeq
  <1>11. row = OwnRow(r, len)
    BY <1>1, <1>2, <1>3, <1>5, <1>7 DEF OwnRow
  <1>12. PICK s : s = Strip(row, n)
    OBVIOUS
  <1>13. IsSeq(s) /\ Len(s) = l /\ \A i \in 1..l : s[i] = row[n + i]
    <2>1. PICK w \in Nat : w = n + l /\ n <= w /\ w - n = l
      OBVIOUS
    <2>2. IsSeq(s) /\ Len(s) = w - n /\ \A i \in 1..w - n : s[i] = row[n + i]
      <3>9. Suffix(s, row, w, n)
        BY <1>9, <1>10, <1>12, <2>1, StripIs
      <3> QED  BY <1>9, <1>10, <1>12, <2>1, <3>9 DEF Suffix
    <2> QED  BY <2>1, <2>2
  <1>14. \A i \in 1..l : s[i] = q[i]
    <2>1. \A i \in 1..l : n + i \in 1..n + l /\ ~(n + i <= n) /\ (n + i) - n = i
      OBVIOUS
    <2> QED  BY <1>9, <1>13, <2>1
  <1>15. s = q
    BY <1>1, <1>13, <1>14, SameList
  <1> QED  BY <1>1, <1>2, <1>9, <1>10, <1>11, <1>12, <1>15

------------------------------------------------------------------------------
(* The packed batch *)

\* The places of the rows to keep.
LEMMA IndicesIs ==
    ASSUME NEW n \in Nat, NEW ids, DOMAIN ids = 1..n, NEW keep, NEW ix, ix = Indices(ids, keep)
    PROVE  /\ ix \in Seq(1..n) /\ Once(ix)
           /\ ToSet(ix) = {i \in 1..n : ids[i] \in keep}
  <1>1. PICK all : all = [i \in 1..n |-> i]
    OBVIOUS
  <1>2. all \in Seq(1..n) /\ Once(all) /\ ToSet(all) = 1..n
    BY <1>1 DEF Once, ToSet
  <1>3. PICK xs : xs = {i \in 1..n : ids[i] \in keep}
    OBVIOUS
  <1>4. ix = Keeping(all, xs)
    BY <1>1, <1>3 DEF Indices
  <1>5. ix \in Seq(1..n) /\ Once(ix) /\ ToSet(ix) = ToSet(all) \cap xs
    BY <1>2, <1>4, KeepFacts
  <1> QED  BY <1>2, <1>3, <1>5

\* Row i of s is row k of b with fewer columns of padding.
SameRow(s, i, b, k) ==
    /\ s.ids[i] = b.ids[k] /\ Strip(s.rows[i], s.pad[i]) = Strip(b.rows[k], b.pad[k])
    /\ s.len - s.pad[i] = b.len - b.pad[k]

\* s is what is left of the batch b when the rows not in keep go.
Remains(s, b, keep) ==
    /\ Batch(s) /\ ToSet(s.ids) = ToSet(b.ids) \cap keep
    /\ \A i \in DOMAIN s.ids : \E k \in DOMAIN b.ids : SameRow(s, i, b, k)

\* retain_rows drops whole columns that are padding in every row that stays.
LEMMA RetainIs ==
    ASSUME NEW b, Batch(b), NEW keep, ToSet(b.ids) \cap keep /= {}, NEW ix, ix = Indices(b.ids, keep)
    PROVE  Retain(b, ix).ids = Picked(b.ids, ix) /\ Remains(Retain(b, ix), b, keep)
  <1>1. PICK n \in Nat : DOMAIN b.ids = 1..n /\ n = Len(b.ids)
    BY DEF Batch
  <1>2. ix \in Seq(1..n) /\ Once(ix) /\ ToSet(ix) = {i \in 1..n : b.ids[i] \in keep}
    BY <1>1, IndicesIs
  <1>3. b.ids \in Seq(Clients) /\ Once(b.ids) /\ b.ids \in [1..n -> Clients]
    BY <1>1 DEF Batch
  <1>4. CASE ix = [i \in 1..n |-> i]
    <2>1. Retain(b, ix) = b
      BY <1>1, <1>4 DEF Retain
    <2>2. Picked(b.ids, ix) = b.ids
      BY <1>3, <1>4 DEF Picked
    <2>3. ToSet(b.ids) \subseteq keep
      <3>1. ToSet(ix) = 1..n
        BY <1>4 DEF ToSet
      <3>2. \A i \in 1..n : b.ids[i] \in keep
        BY <1>2, <3>1
      <3> QED  BY <1>1, <3>2 DEF ToSet
    <2>4. \A i \in DOMAIN b.ids : SameRow(b, i, b, i)
      BY DEF SameRow
    <2> QED  BY <2>1, <2>2, <2>3, <2>4 DEF Remains
  <1>5. CASE ix /= [i \in 1..n |-> i]
    <2>1. PICK m \in Nat : DOMAIN ix = 1..m /\ m = Len(ix) /\ ix \in [1..m -> 1..n]
      BY <1>2
    <2>2. m >= 1
      <3>1. PICK x \in ToSet(b.ids) : x \in keep
        OBVIOUS
      <3>2. PICK i \in 1..n : b.ids[i] = x
        BY <1>1, <3>1 DEF ToSet
      <3>3. i \in ToSet(ix)
        BY <1>2, <3>1, <3>2
      <3>4. PICK j \in 1..m : ix[j] = i
        BY <2>1, <3>3 DEF ToSet
      <3> QED  BY <3>4
    <2>3. PICK pads : pads = ToSet(Picked(b.pad, ix))
      OBVIOUS
    <2>4. pads = {b.pad[ix[i]] : i \in 1..m}
      BY <2>1, <2>3 DEF ToSet, Picked
    <2>5. \A k \in 1..n : b.pad[k] \in Nat /\ b.pad[k] <= b.len /\ IsSeq(b.rows[k]) /\ Len(b.rows[k]) = b.len
      BY <1>1 DEF Batch
    <2>6. \A i \in 1..m : ix[i] \in 1..n
      BY <2>1
    <2>7. pads \in SUBSET Nat /\ pads /= {}
      <3>1. 1 \in 1..m
        BY <2>2
      <3> QED  BY <2>4, <2>5, <2>6, <3>1
    <2>8. \E x \in pads : \A y \in pads : x <= y
      BY <2>7, HasLeast
    <2>9. PICK cut \in pads : cut = Min(pads) /\ \A y \in pads : cut <= y
      BY <2>8, Zenon DEF Min
    <2>10. cut \in Nat /\ b.len \in Nat /\ \A i \in 1..m : cut <= b.pad[ix[i]]
      BY <2>4, <2>7, <2>9 DEF Batch
    <2>11. PICK s : s = [ids |-> Picked(b.ids, ix), len |-> b.len - cut,
                         prev |-> IF b.prev = <<>> THEN <<>> ELSE Picked(b.prev, ix),
                         pad |-> [i \in DOMAIN ix |-> b.pad[ix[i]] - cut],
                         rows |-> [i \in DOMAIN ix |-> Strip(b.rows[ix[i]], cut)]]
      OBVIOUS
    <2>12. s = Retain(b, ix)
      BY <1>1, <1>5, <2>3, <2>9, <2>11, Zenon DEF Retain
    <2>13. /\ s.ids = [i \in 1..m |-> b.ids[ix[i]]] /\ s.len = b.len - cut
           /\ s.ids = Picked(b.ids, ix)
           /\ \A i \in 1..m : s.pad[i] = b.pad[ix[i]] - cut /\ s.rows[i] = Strip(b.rows[ix[i]], cut)
      BY <2>1, <2>11 DEF Picked
    <2>14. s = [ids |-> s.ids, len |-> s.len, prev |-> s.prev, pad |-> s.pad, rows |-> s.rows]
      BY <2>11
    <2>15. DOMAIN s.ids = 1..m /\ s.ids \in Seq(Clients) /\ s.ids /= <<>>
      <3>1. s.ids \in [1..m -> Clients]
        BY <1>3, <2>6, <2>13
      <3> QED  BY <2>2, <3>1
    <2>16. Once(s.ids)
      <3>1. ASSUME NEW i \in 1..m, NEW j \in 1..m, s.ids[i] = s.ids[j] PROVE i = j
        <4>1. b.ids[ix[i]] = b.ids[ix[j]]
          BY <2>13, <3>1
        <4>2. ix[i] = ix[j]
          BY <1>1, <1>3, <2>6, <4>1 DEF Once
        <4> QED  BY <1>2, <2>1, <4>2 DEF Once
      <3> QED  BY <2>15, <3>1 DEF Once
    <2>17. ASSUME NEW i \in 1..m
           PROVE  /\ s.pad[i] \in Nat /\ s.pad[i] <= s.len /\ IsSeq(s.rows[i]) /\ Len(s.rows[i]) = s.len
                  /\ SameRow(s, i, b, ix[i])
      <3>1. PICK k \in 1..n : k = ix[i]
        BY <2>6
      <3>r. PICK row : row = b.rows[k]
        OBVIOUS
      <3>2. PICK pad \in Nat, len \in Nat :
              /\ pad = b.pad[k] /\ len = b.len /\ row = b.rows[k] /\ pad <= len /\ cut <= pad
              /\ IsSeq(row) /\ Len(row) = len
        BY <2>5, <2>10, <3>1, <3>r
      <3>3. s.pad[i] = pad - cut /\ s.len = len - cut /\ s.rows[i] = Strip(row, cut) /\ s.ids[i] = b.ids[k]
        BY <2>13, <3>1, <3>2
      <3>4. cut <= len /\ len - cut \in Nat /\ pad - cut \in Nat /\ pad - cut <= len - cut
        <4>1. cut \in Nat /\ cut <= pad /\ pad <= len
          BY <2>10, <3>2
        <4>2. \A x, y, z \in Nat : x <= y /\ y <= z =>
                x <= z /\ z - x \in Nat /\ y - x \in Nat /\ y - x <= z - x
          OBVIOUS
        <4> QED  BY <4>1, <4>2
      <3>5. IsSeq(Strip(row, cut)) /\ Len(Strip(row, cut)) = len - cut
        <4>1. Suffix(Strip(row, cut), row, len, cut)
          BY <2>10, <3>2, <3>4, StripIs
        <4> QED  BY <4>1 DEF Suffix
      <3>6. Strip(Strip(row, cut), pad - cut) = Strip(row, pad)
        BY <2>10, <3>2, StripTwice
      <3>7. (len - cut) - (pad - cut) = len - pad
        BY <2>10
      <3>8. SameRow(s, i, b, k)
        BY <3>2, <3>3, <3>6, <3>7 DEF SameRow
      <3> QED  BY <3>1, <3>3, <3>4, <3>5, <3>8
    <2>18. s.len \in Nat
      <3>1. 1 \in 1..m
        BY <2>2
      <3>2. cut <= b.pad[ix[1]] /\ b.pad[ix[1]] \in Nat /\ b.pad[ix[1]] <= b.len
        BY <2>5, <2>6, <2>10, <3>1
      <3> QED  BY <2>10, <2>13, <3>2
    <2>19. Batch(s)
      BY <2>14, <2>15, <2>16, <2>17, <2>18, Zenon DEF Batch
    <2>20. ToSet(s.ids) = ToSet(b.ids) \cap keep
      <3>1. ASSUME NEW x \in ToSet(s.ids) PROVE x \in ToSet(b.ids) \cap keep
        <4>1. PICK i \in 1..m : x = b.ids[ix[i]]
          BY <2>13, <2>15, <3>1 DEF ToSet
        <4>2. ix[i] \in ToSet(ix)
          BY <2>1 DEF ToSet
        <4> QED  BY <1>1, <1>2, <4>1, <4>2 DEF ToSet
      <3>2. ASSUME NEW x \in ToSet(b.ids) \cap keep PROVE x \in ToSet(s.ids)
        <4>1. PICK k \in 1..n : x = b.ids[k]
          BY <1>1, <3>2 DEF ToSet
        <4>2. k \in ToSet(ix)
          BY <1>2, <3>2, <4>1
        <4>3. PICK i \in 1..m : ix[i] = k
          BY <2>1, <4>2 DEF ToSet
        <4>4. s.ids[i] = x
          BY <2>13, <4>1, <4>3
        <4> QED  BY <2>15, <4>4 DEF ToSet
      <3> QED  BY <3>1, <3>2
    <2>21. \A i \in DOMAIN s.ids : \E k \in DOMAIN b.ids : SameRow(s, i, b, k)
      BY <1>1, <2>6, <2>15, <2>17, Zenon
    <2> QED  BY <2>12, <2>13, <2>19, <2>20, <2>21, Zenon DEF Remains
  <1> QED  BY <1>4, <1>5

------------------------------------------------------------------------------
(* Decoding and prefilling *)

\* Some of the active requests leave, the batch with all that are rows of it.
LEMMA LeaveKeeps ==
    ASSUME MetalInv, NEW D \in SUBSET active, at \in {"decode", "prefill"},
           active' = active \ D, requests' = requests \ D, admitted' = admitted \ D,
           session' \subseteq session, session' \cap D = {},
           cache' = cache \/ (cache' = None /\ active \cap Cached \subseteq D),
           at' = "loop" \/ (at' = "prefill" /\ step.prefill \subseteq active'),
           UNCHANGED <<called, request_rx, waiting_count, arrival, waiting, pending, req, open, step>>
    PROVE  MetalInv'
  <1> USE DEF MetalInv
  <1>1. /\ called' = called /\ request_rx' = request_rx /\ waiting_count' = waiting_count
        /\ arrival' = arrival /\ waiting' = waiting /\ pending' = pending /\ req' = req /\ open' = open
        /\ step' = step
    OBVIOUS
  <1>2. open = <<>> /\ Rows = {} /\ Rows' = {} /\ Activating = {} /\ Activating' = {} /\ at' /= "deliver"
    BY <1>1, NothingOpen DEF Rows, Activating
  <1>3. Agree
    BY AgreeIs
  <1>4. Cached' \subseteq Cached
    <2>1. CASE cache' = cache
      BY <2>1 DEF Cached
    <2>2. CASE cache' = None
      BY <2>2 DEF Cached, None, ToSet
    <2> QED  BY <2>1, <2>2
  <1>5. QueueShape'
    BY <1>1, <1>2 DEF QueueShape
  <1>6. pending \cap active = {}
    BY DEF Known
  <1>7. Known'
    BY <1>1, <1>2, <1>4 DEF Known, Here
  <1>8. PlanKept'
    BY <1>1, <1>2, <1>4 DEF PlanKept
  <1>9. Phases'
    BY <1>1, <1>2, <1>4 DEF Phases
  <1>10. Agree'
    <2>1. requests' = Here'
      BY <1>1, <1>2, <1>3, <1>6 DEF Agree, Here
    <2>2. admitted' = active' \cup Rows' \cup Activating'
      BY <1>2, <1>3 DEF Agree
    <2>3. session' \subseteq active' \cup Rows'
      BY <1>2, <1>3 DEF Agree
    <2>4. Cardinality(session') <= 1
      BY <1>3, FewSessions
    <2> QED  BY <1>1, <1>2, <1>3, <2>1, <2>2, <2>3, <2>4 DEF Agree
  <1>11. TablesAgree'
    BY <1>10, AgreeIs
  <1>12. States(req)' /\ (cache = None \/ Batch(cache))'
    BY <1>1
  <1>13. RowsAligned'
    <2>1. CASE cache' = cache
      BY <1>1, <2>1, Zenon DEF RowsAligned
    <2>2. CASE cache' = None /\ active \cap Cached \subseteq D
      <3>1. DOMAIN cache'.ids = {}
        BY <2>2 DEF None
      <3>2. \A c \in active' : req'[c].kv = req'[c].fed /\ req'[c].cache_len = Len(req'[c].fed)
        BY <1>1, <2>2, Zenon DEF RowsAligned, Cached
      <3> QED  BY <3>1, <3>2, Zenon DEF RowsAligned
    <2> QED  BY <2>1, <2>2
  <1> QED  BY <1>5, <1>7, <1>8, <1>9, <1>11, <1>12, <1>13

LEMMA DecodeFailsKeeps ==
    ASSUME MetalInv, DecodeFails
    PROVE  MetalInv'
  <1>1. PICK D : D = ToSet(step.decode)
    OBVIOUS
  <1>2. /\ at = "decode" /\ Gone(D) /\ active' = active \ D /\ cache' = None
        /\ at' = FromDecode(step, active')
        /\ UNCHANGED <<called, request_rx, waiting_count, arrival, waiting, pending, req, open, step>>
    BY <1>1, Zenon DEF DecodeFails, clientVars
  <1>3. D \in SUBSET active /\ active \cap Cached \subseteq D
    BY <1>1, <1>2 DEF MetalInv, PlanKept
  <1>4. at' = "loop" \/ (at' = "prefill" /\ step.prefill \subseteq active')
    BY <1>2, FromActivateIs
  <1>5. requests' = requests \ D /\ admitted' = admitted \ D /\ session' \subseteq session /\ session' \cap D = {}
    BY <1>2 DEF Gone
  <1> QED  BY <1>2, <1>3, <1>4, <1>5, LeaveKeeps

LEMMA PrefillFailsKeeps ==
    ASSUME MetalInv, PrefillFails
    PROVE  MetalInv'
  <1>1. PICK c \in step.prefill :
          /\ at = "prefill" /\ requests' = requests \ {c} /\ admitted' = admitted \ {c}
          /\ session' = session \ active /\ active' = active \ {c} /\ at' = "loop"
          /\ UNCHANGED <<called, request_rx, waiting_count, arrival, waiting, pending, req, cache, open, step>>
    BY Zenon DEF PrefillFails, clientVars
  <1>2. {c} \in SUBSET active
    BY <1>1 DEF MetalInv, PlanKept
  <1> QED  BY <1>1, <1>2, LeaveKeeps

\* A request's state, with the tokens it was fed in its own arrays.
Own(r, c) ==
    /\ DOMAIN r = Fields /\ IsSeq(r.fed) /\ r.cursor \in Nat /\ r.cursor <= Prompt[c]
    /\ r.kv = r.fed /\ r.cache_len = Len(r.fed)

\* A chunk of the prompt goes into the request's own arrays.
LEMMA FedIs ==
    ASSUME MetalInv, at = "prefill", NEW c \in step.prefill
    PROVE  c \in Clients /\ c \in active /\ c \notin Cached /\ Own(Fed(c), c)
  <1> USE DEF MetalInv
  <1>1. c \in active /\ c \notin Cached /\ step.budget \in Nat /\ req[c].cursor + step.budget <= Prompt[c]
    BY DEF PlanKept
  <1>2. c \in Clients
    <2>1. ToSet(arrival) \subseteq Clients
      BY ListSubset DEF QueueShape
    <2> QED  BY <1>1, <2>1 DEF Known, Here
  <1>3. PICK r : r = req[c]
    OBVIOUS
  <1>4. DOMAIN r = Fields /\ IsSeq(r.fed) /\ r.cursor \in Nat /\ r.kv = r.fed /\ r.cache_len = Len(r.fed)
    BY <1>1, <1>2, <1>3 DEF States, RowsAligned, Cached
  <1>a. PICK q : q = r.fed
    OBVIOUS
  <1>5. PICK n \in Nat, b \in Nat : q = r.fed /\ IsSeq(q) /\ n = Len(q) /\ b = step.budget
    BY <1>1, <1>4, <1>a, SeqFacts
  <1>6. PICK chunk : chunk = [i \in 1..step.budget |-> <<c, r.cursor + i>>]
    OBVIOUS
  <1>7. chunk = [i \in 1..b |-> chunk[i]] /\ DOMAIN chunk = 1..b
    BY <1>5, <1>6
  <1>8. IsSeq(chunk) /\ Len(chunk) = b
    <2>1. IsSeq(chunk)
      BY <1>7, FunctionIsSeq
    <2>2. DOMAIN chunk = 1..Len(chunk) /\ Len(chunk) \in Nat
      BY <2>1, SeqFacts
    <2> QED  BY <1>7, <2>1, <2>2
  <1>9. SubSeq(q, 1, n) = q
    BY <1>5 DEF IsSeq
  <1>10. PICK S, T : q \in Seq(S) /\ chunk \in Seq(T)
    BY <1>5, <1>8 DEF IsSeq
  <1>11. q \o chunk \in Seq(S \cup T) /\ Len(q \o chunk) = n + b
    <2>1. q \in Seq(S \cup T) /\ chunk \in Seq(S \cup T)
      BY <1>10
    <2>2. q \o chunk \in Seq(S \cup T) /\ Len(q \o chunk) = Len(q) + Len(chunk)
      BY <2>1, ConcatProperties
    <2> QED  BY <1>5, <1>8, <2>2
  <1>12. PICK x : x = Fed(c)
    OBVIOUS
  <1>13. x = [r EXCEPT !.cursor = @ + step.budget, !.cache_len = @ + step.budget,
                       !.kv = SubSeq(@, 1, r.cache_len) \o chunk, !.fed = @ \o chunk]
    BY <1>3, <1>6, <1>12, Zenon DEF Fed
  <1>14. /\ DOMAIN x = Fields /\ x.cursor = r.cursor + step.budget /\ x.cache_len = r.cache_len + step.budget
         /\ x.kv = SubSeq(r.kv, 1, r.cache_len) \o chunk /\ x.fed = r.fed \o chunk
    BY <1>4, <1>13 DEF Fields
  <1>15. x.kv = q \o chunk /\ x.fed = q \o chunk
    BY <1>4, <1>5, <1>9, <1>14
  <1>16. IsSeq(x.fed) /\ x.cache_len = Len(x.fed)
    BY <1>4, <1>5, <1>11, <1>14, <1>15 DEF IsSeq
  <1>17. x.cursor \in Nat /\ x.cursor <= Prompt[c]
    BY <1>1, <1>3, <1>4, <1>14
  <1> QED  BY <1>1, <1>2, <1>12, <1>14, <1>15, <1>16, <1>17 DEF Own

\* record_sampled_token leaves the arrays alone.
LEMMA RecordIs ==
    ASSUME NEW r, DOMAIN r = Fields, NEW c, NEW token, NEW x, x = Record(c, r, token)
    PROVE  /\ DOMAIN x = Fields /\ x.fed = r.fed /\ x.kv = r.kv /\ x.cache_len = r.cache_len
           /\ x.cursor = r.cursor /\ x.phase \in {"decode", "finished"}
  BY DEF Record, Fields

\* What a chunk does to the request c: its state becomes x, and it leaves if it is in E.
LEMMA ChunkKeeps ==
    ASSUME MetalInv, at = "prefill", at' = "loop", NEW c \in step.prefill, NEW E \in SUBSET {c},
           NEW x, x = Fed(c) \/ \E token : x = Record(c, Fed(c), token), req' = [req EXCEPT ![c] = x],
           requests' = requests \ E, admitted' = admitted \ E, active' = active \ E,
           session' \subseteq (session \ active) \cup ({c} \ E),
           UNCHANGED <<called, request_rx, waiting_count, arrival, waiting, pending, cache, open, step>>
    PROVE  MetalInv'
  <1> USE DEF MetalInv
  <1>1. /\ called' = called /\ request_rx' = request_rx /\ waiting_count' = waiting_count
        /\ arrival' = arrival /\ waiting' = waiting /\ pending' = pending /\ cache' = cache
        /\ open' = open /\ step' = step
    OBVIOUS
  <1>2. open = <<>> /\ Rows = {} /\ Rows' = {} /\ Activating = {} /\ Activating' = {}
    BY <1>1, NothingOpen DEF Rows, Activating
  <1>3. Agree
    BY AgreeIs
  <1>4. c \in Clients /\ c \in active /\ c \notin Cached /\ Own(Fed(c), c)
    BY FedIs
  <1>5. Own(x, c)
    BY <1>4, RecordIs DEF Own
  <1>6. req'[c] = x /\ (\A d \in Clients : d /= c => req'[d] = req[d]) /\ req' = [d \in Clients |-> req'[d]]
    BY <1>4 DEF States
  <1>7. Cached' = Cached
    BY <1>1 DEF Cached
  <1>8. active \subseteq Clients /\ Cached \subseteq Clients
    <2>1. ToSet(arrival) \subseteq Clients
      BY ListSubset DEF QueueShape
    <2> QED  BY <2>1 DEF Known, Here
  <1>9. QueueShape'
    BY <1>1, <1>2 DEF QueueShape
  <1>10. Known'
    BY <1>1, <1>2, <1>7 DEF Known, Here
  <1>11. PlanKept'
    BY DEF PlanKept
  <1>12. Phases'
    BY <1>2, <1>4, <1>6, <1>7, <1>8 DEF Phases
  <1>13. States(req)'
    <2>1. ASSUME NEW d \in Clients
          PROVE  /\ DOMAIN req'[d] = Fields /\ IsSeq(req'[d].fed)
                 /\ req'[d].cursor \in Nat /\ req'[d].cursor <= Prompt[d]
      <3>1. CASE d = c
        BY <1>5, <1>6, <3>1 DEF Own
      <3>2. CASE d /= c
        BY <1>6, <3>2 DEF States
      <3> QED  BY <3>1, <3>2
    <2> QED  BY <1>6, <2>1 DEF States
  <1>14. Agree'
    <2>1. pending \cap active = {}
      BY DEF Known
    <2>2. requests' = Here' /\ admitted' = active' \cup Rows' \cup Activating'
      BY <1>1, <1>2, <1>3, <1>4, <2>1 DEF Agree, Here
    <2>3. session \subseteq active
      BY <1>2, <1>3 DEF Agree
    <2>4. session' \subseteq {c} /\ session' \subseteq active' \cup Rows'
      BY <1>4, <2>3
    <2>5. Cardinality(session') <= 1
      <3>1. IsFiniteSet({c}) /\ Cardinality({c}) = 1
        BY FS_Singleton
      <3> QED  BY <2>4, <3>1, FS_Subset, FS_CardinalityType
    <2> QED  BY <1>1, <1>2, <1>3, <2>2, <2>4, <2>5 DEF Agree
  <1>15. TablesAgree'
    BY <1>14, AgreeIs
  <1>16. RowsAligned'
    <2>1. \A i \in DOMAIN cache.ids : cache.ids[i] \in Cached
      BY DEF Cached, ToSet
    <2>2. \A i \in DOMAIN cache.ids : req'[cache.ids[i]] = req[cache.ids[i]]
      BY <1>4, <1>6, <1>8, <2>1
    <2>3. \A i \in DOMAIN cache'.ids :
             /\ Strip(cache'.rows[i], cache'.pad[i]) = req'[cache'.ids[i]].fed
             /\ req'[cache'.ids[i]].cache_len = cache'.len - cache'.pad[i] /\ Len(cache'.rows[i]) = cache'.len
      <3>1. \A i \in DOMAIN cache.ids :
               /\ Strip(cache.rows[i], cache.pad[i]) = req[cache.ids[i]].fed
               /\ req[cache.ids[i]].cache_len = cache.len - cache.pad[i] /\ Len(cache.rows[i]) = cache.len
        BY Zenon DEF RowsAligned
      <3> QED  BY <1>1, <2>2, <3>1
    <2>4. ASSUME NEW d \in active', d \notin Cached
          PROVE  req'[d].kv = req'[d].fed /\ req'[d].cache_len = Len(req'[d].fed)
      <3>1. CASE d = c
        BY <1>5, <1>6, <3>1 DEF Own
      <3>2. CASE d /= c
        BY <1>6, <1>8, <2>4, <3>2 DEF RowsAligned, Cached
      <3> QED  BY <3>1, <3>2
    <2>5. \A d \in active' : d \notin ToSet(cache'.ids) => req'[d].kv = req'[d].fed /\ req'[d].cache_len = Len(req'[d].fed)
      BY <1>1, <2>4 DEF Cached
    <2> QED  BY <2>3, <2>5, Zenon DEF RowsAligned
  <1>17. (cache = None \/ Batch(cache))'
    BY <1>1
  <1> QED  BY <1>9, <1>10, <1>11, <1>12, <1>13, <1>15, <1>16, <1>17

LEMMA PrefillKeeps ==
    ASSUME MetalInv, Prefill
    PROVE  MetalInv'
  <1>1. PICK c \in step.prefill :
          /\ at = "prefill" /\ at' = "loop"
          /\ \/ /\ req' = [req EXCEPT ![c] = Fed(c)] /\ session' = (session \ active) \cup {c}
                /\ UNCHANGED <<requests, admitted, active>>
             \/ \E token :
                  /\ req' = [req EXCEPT ![c] = Record(c, Fed(c), token)]
                  /\ \/ /\ requests' = requests \ {c} /\ admitted' = admitted \ {c}
                        /\ session' = session \ active /\ active' = active \ {c}
                     \/ session' = (session \ active) \cup {c} /\ UNCHANGED <<requests, admitted, active>>
          /\ UNCHANGED <<called, request_rx, waiting_count, arrival, waiting, pending, cache, open, step>>
    BY Zenon DEF Prefill, clientVars
  <1>2. PICK x : /\ req' = [req EXCEPT ![c] = x]
                 /\ x = Fed(c) \/ \E token : x = Record(c, Fed(c), token)
                 /\ \/ /\ requests' = requests \ {c} /\ admitted' = admitted \ {c}
                       /\ session' = session \ active /\ active' = active \ {c}
                    \/ session' = (session \ active) \cup {c} /\ UNCHANGED <<requests, admitted, active>>
    BY <1>1
  <1>3. CASE /\ requests' = requests \ {c} /\ admitted' = admitted \ {c}
             /\ session' = session \ active /\ active' = active \ {c}
    <2>1. session' \subseteq (session \ active) \cup ({c} \ {c})
      BY <1>3
    <2> QED  BY <1>1, <1>2, <1>3, <2>1, ChunkKeeps
  <1>4. CASE session' = (session \ active) \cup {c} /\ UNCHANGED <<requests, admitted, active>>
    <2>1. /\ session' \subseteq (session \ active) \cup ({c} \ {}) /\ requests' = requests \ {}
          /\ admitted' = admitted \ {} /\ active' = active \ {}
      BY <1>4
    <2> QED  BY <1>1, <1>2, <2>1, ChunkKeeps
  <1> QED  BY <1>2, <1>3, <1>4

\* RowsAligned, for a batch and for the requests outside of it.
Aligned(b, rs) ==
    \A i \in DOMAIN b.ids : /\ Strip(b.rows[i], b.pad[i]) = rs[b.ids[i]].fed
                            /\ rs[b.ids[i]].cache_len = b.len - b.pad[i] /\ Len(b.rows[i]) = b.len
Apart(b, rs, running) ==
    \A c \in running : c \notin ToSet(b.ids) => rs[c].kv = rs[c].fed /\ rs[c].cache_len = Len(rs[c].fed)

LEMMA AlignedIs ==
    /\ RowsAligned <=> Aligned(cache, req) /\ Apart(cache, req, active)
    /\ RowsAligned' <=> Aligned(cache', req') /\ Apart(cache', req', active')
  BY Zenon DEF RowsAligned, Aligned, Apart

\* What is left of a batch is as well aligned as the batch was.
LEMMA RemainsAligned ==
    ASSUME NEW b, NEW rs, Aligned(b, rs), NEW s, NEW keep, Remains(s, b, keep)
    PROVE  Aligned(s, rs)
  <1>1. ASSUME NEW i \in DOMAIN s.ids
        PROVE  /\ Strip(s.rows[i], s.pad[i]) = rs[s.ids[i]].fed
               /\ rs[s.ids[i]].cache_len = s.len - s.pad[i] /\ Len(s.rows[i]) = s.len
    <2>1. PICK k \in DOMAIN b.ids : SameRow(s, i, b, k)
      BY DEF Remains
    <2>2. /\ Strip(b.rows[k], b.pad[k]) = rs[b.ids[k]].fed /\ rs[b.ids[k]].cache_len = b.len - b.pad[k]
      BY Zenon DEF Aligned
    <2>3. Len(s.rows[i]) = s.len
      BY Zenon DEF Remains, Batch
    <2>4. /\ s.ids[i] = b.ids[k] /\ Strip(s.rows[i], s.pad[i]) = Strip(b.rows[k], b.pad[k])
          /\ s.len - s.pad[i] = b.len - b.pad[k]
      BY <2>1, Zenon DEF SameRow
    <2> QED  BY <2>2, <2>3, <2>4, Zenon
  <1> QED  BY <1>1, Zenon DEF Aligned

\* Mid-batch compaction: the batch has the rows that go on, and no other.
LEMMA CompactedIs ==
    ASSUME Batch(cache), Aligned(cache, req), NEW running, NEW b, b = Compacted(running)
    PROVE  /\ ToSet(b.ids) = Cached \cap running /\ Aligned(b, req)
           /\ b = None \/ Batch(b)
  <1>1. PICK keep : keep = Cached \cap running
    OBVIOUS
  <1>2. CASE keep = {}
    <2>1. b = None
      BY <1>1, <1>2 DEF Compacted, Cached
    <2> QED  BY <1>1, <1>2, <2>1 DEF None, ToSet, Aligned
  <1>3. CASE keep /= {}
    <2>1. b = Retain(cache, Indices(cache.ids, keep))
      BY <1>1, <1>3 DEF Compacted, Cached
    <2>2. ToSet(cache.ids) \cap keep = keep
      BY <1>1 DEF Cached
    <2>3. Remains(b, cache, keep)
      BY <1>3, <2>1, <2>2, RetainIs
    <2>4. Aligned(b, req)
      BY <2>3, RemainsAligned
    <2> QED  BY <1>1, <2>2, <2>3, <2>4 DEF Remains
  <1> QED  BY <1>2, <1>3

\* The rows left when the first one has its token.
LEMMA OpenTail ==
    ASSUME QueueShape, at = "deliver", NEW c, c = Head(open).id, open' = Tail(open)
    PROVE  /\ c \in Rows /\ Rows' = Rows \ {c}
           /\ IsSeq(open') /\ \A i, j \in DOMAIN open' : open'[i].id = open'[j].id => i = j
           /\ open' = <<>> <=> Len(open) = 1
  <1>1. PICK n \in Nat \ {0} :
          /\ n = Len(open) /\ DOMAIN open = 1..n /\ c = open[1].id /\ IsSeq(open')
          /\ DOMAIN open' = 1..n - 1 /\ \A i \in 1..n - 1 : open'[i] = open[i + 1]
    BY TailFacts DEF QueueShape
  <1>2. \A i \in 1..n - 1 : i + 1 \in 1..n /\ i + 1 /= 1
    OBVIOUS
  <1>3. \A i \in 1..n : i /= 1 => i - 1 \in 1..n - 1 /\ (i - 1) + 1 = i
    OBVIOUS
  <1>4. \A i, j \in 1..n : open[i].id = open[j].id => i = j
    BY <1>1 DEF QueueShape
  <1>5. 1 \in 1..n
    OBVIOUS
  <1>6. c \in Rows
    BY <1>1, <1>5 DEF Rows
  <1>7. Rows' \subseteq Rows \ {c}
    <2>1. ASSUME NEW x \in Rows' PROVE x \in Rows \ {c}
      <3>1. PICK i \in 1..n - 1 : x = open'[i].id
        BY <1>1, <2>1 DEF Rows
      <3>2. x = open[i + 1].id /\ i + 1 \in 1..n /\ i + 1 /= 1
        BY <1>1, <1>2, <3>1
      <3> QED  BY <1>1, <1>4, <1>5, <3>2 DEF Rows
    <2> QED  BY <2>1
  <1>8. Rows \ {c} \subseteq Rows'
    <2>1. ASSUME NEW x \in Rows \ {c} PROVE x \in Rows'
      <3>1. PICK i \in 1..n : x = open[i].id
        BY <1>1, <2>1 DEF Rows
      <3>2. i /= 1
        BY <1>1, <2>1, <3>1
      <3>3. i - 1 \in 1..n - 1 /\ open'[i - 1] = open[i]
        BY <1>1, <1>3, <3>2
      <3> QED  BY <1>1, <3>1, <3>3 DEF Rows
    <2> QED  BY <2>1
  <1>9. ASSUME NEW i \in 1..n - 1, NEW j \in 1..n - 1, open'[i].id = open'[j].id PROVE i = j
    <2>1. open[i + 1].id = open[j + 1].id /\ i + 1 \in 1..n /\ j + 1 \in 1..n
      BY <1>1, <1>2, <1>9
    <2>2. i + 1 = j + 1
      BY <1>4, <2>1
    <2> QED  BY <2>2
  <1>10. open' = <<>> <=> n = 1
    <2>1. open' = <<>> <=> 1..n - 1 = {}
      BY <1>1 DEF IsSeq
    <2> QED  BY <2>1
  <1> QED  BY <1>1, <1>6, <1>7, <1>8, <1>9, <1>10

LEMMA DeliverKeeps ==
    ASSUME MetalInv, Deliver
    PROVE  MetalInv'
  <1> USE DEF MetalInv
  <1>1. PICK c : c = Head(open).id
    OBVIOUS
  <1>2. /\ at = "deliver" /\ req' = req /\ open' = Tail(open)
        /\ called' = called /\ request_rx' = request_rx /\ waiting_count' = waiting_count
        /\ arrival' = arrival /\ waiting' = waiting /\ pending' = pending /\ step' = step
    BY DEF Deliver, clientVars
  <1>3. \/ Gone({c}) /\ active' = active \ {c}
        \/ /\ req[c].phase /= "finished" /\ active' = active \cup {c}
           /\ UNCHANGED <<requests, admitted, session>>
    <2>1. Keep(c, Head(open).token) \/ Lose(c)
      BY <1>1, Zenon DEF Deliver
    <2>2. CASE Keep(c, Head(open).token)
      BY <1>2, <2>2 DEF Keep
    <2> QED  BY <2>1, <2>2 DEF Lose
  <1>4. IF Len(open) = 1 THEN cache' = Compacted(active') /\ at' = FromDecode(step, active')
        ELSE UNCHANGED <<cache, at>>
    BY Zenon DEF Deliver
  <1>5. /\ c \in Rows /\ Rows' = Rows \ {c}
        /\ IsSeq(open') /\ \A i, j \in DOMAIN open' : open'[i].id = open'[j].id => i = j
        /\ open' = <<>> <=> Len(open) = 1
    BY <1>1, <1>2, OpenTail
  <1>6. c \in Cached /\ Batch(cache)
    BY <1>2, <1>5, NoneCached DEF Phases
  <1>7. Aligned(cache, req) /\ Apart(cache, req, active)
    BY AlignedIs
  <1>8. /\ Cached' \subseteq Cached /\ active' \cap Cached \subseteq Cached' /\ Aligned(cache', req)
        /\ cache' = None \/ Batch(cache')
        /\ at' \in {"deliver", "prefill", "loop"}
        /\ at' = "prefill" => step.prefill \subseteq active'
        /\ at' = "deliver" <=> open' /= <<>>
        /\ at' = "deliver" => Cached' = Cached
    <2>1. CASE Len(open) = 1
      <3>1. cache' = Compacted(active') /\ at' = FromDecode(step, active')
        BY <1>4, <2>1
      <3>2. /\ ToSet(cache'.ids) = Cached \cap active' /\ Aligned(cache', req)
            /\ cache' = None \/ Batch(cache')
        BY <1>6, <1>7, <3>1, CompactedIs
      <3>3. at' \in {"prefill", "loop"} /\ (at' = "prefill" => step.prefill \subseteq active')
        BY <3>1, FromActivateIs
      <3> QED  BY <1>5, <2>1, <3>2, <3>3 DEF Cached
    <2>2. CASE Len(open) /= 1
      BY <1>2, <1>4, <1>5, <1>6, <1>7, <2>2 DEF Cached
    <2> QED  BY <2>1, <2>2
  <1>9. Activating = {} /\ Activating' = {}
    BY <1>2, <1>8 DEF Activating
  <1>10. Agree
    BY AgreeIs
  <1>11. c \notin pending /\ c \notin step.prefill
    BY <1>2, <1>5, <1>6 DEF Known, PlanKept
  <1>12. QueueShape'
    BY <1>2, <1>5, <1>8 DEF QueueShape
  <1>13. Known'
    <2>1. active' \subseteq active \cup Rows /\ Rows' \subseteq Rows
      BY <1>3, <1>5
    <2>2. Here' \subseteq Here /\ pending' \cap (active' \cup Rows' \cup Cached') = {}
      BY <1>2, <1>8, <2>1 DEF Known, Here
    <2> QED  BY <1>2, <1>8, <2>2 DEF Known
  <1>14. PlanKept'
    <2>1. step.prefill \cap active' \subseteq step.prefill \cap active
      BY <1>3, <1>11
    <2>2. step.budget \in Nat /\ step.prefill \cap Cached' = {}
      BY <1>2, <1>8 DEF PlanKept
    <2>3. \A d \in step.prefill \cap active' : req[d].cursor + step.budget <= Prompt[d]
      BY <1>2, <2>1 DEF PlanKept
    <2> QED  BY <1>2, <1>8, <2>2, <2>3 DEF PlanKept
  <1>15. Phases'
    <2>1. \A d \in active' \cap Cached' : req[d].phase = "decode"
      BY <1>3, <1>5, <1>8 DEF Phases, Gone
    <2>2. at' = "deliver" => Rows' \subseteq Cached'
      BY <1>2, <1>5, <1>8 DEF Phases
    <2> QED  BY <1>2, <1>5, <2>1, <2>2 DEF Phases
  <1>16. Agree'
    <2>1. CASE Gone({c}) /\ active' = active \ {c}
      <3>1. requests' = requests \ {c} /\ admitted' = admitted \ {c} /\ session' = session \ {c}
        BY <2>1 DEF Gone
      <3>2. requests' = Here' /\ admitted' = active' \cup Rows' \cup Activating'
        BY <1>2, <1>5, <1>9, <1>10, <1>11, <2>1, <3>1 DEF Agree, Here
      <3>3. session' \subseteq active' \cup Rows'
        BY <1>5, <1>10, <2>1, <3>1 DEF Agree
      <3>4. Cardinality(session') <= 1
        BY <1>10, <3>1, FewSessions
      <3> QED  BY <1>2, <1>9, <1>10, <3>2, <3>3, <3>4 DEF Agree
    <2>2. CASE active' = active \cup {c} /\ UNCHANGED <<requests, admitted, session>>
      <3>1. active' \cup Rows' = active \cup Rows
        BY <1>5, <2>2
      <3> QED  BY <1>2, <1>9, <1>10, <2>2, <3>1 DEF Agree, Here
    <2> QED  BY <1>3, <2>1, <2>2
  <1>17. TablesAgree'
    BY <1>16, AgreeIs
  <1>18. RowsAligned'
    <2>1. ASSUME NEW d \in active', d \notin Cached' PROVE d \in active /\ d \notin Cached
      BY <1>3, <1>6, <1>8, <2>1
    <2>2. Apart(cache', req, active')
      BY <1>7, <2>1 DEF Apart, Cached
    <2>3. Aligned(cache', req') /\ Apart(cache', req', active')
      BY <1>2, <1>8, <2>2
    <2> QED  BY <2>3, AlignedIs
  <1>19. States(req)' /\ (cache = None \/ Batch(cache))'
    BY <1>2, <1>8
  <1> QED  BY <1>12, <1>13, <1>14, <1>15, <1>17, <1>18, <1>19

\* rs is req but for where the tokens of the requests are kept.
SameButArrays(rs) ==
    /\ States(rs)
    /\ \A c \in Clients : /\ rs[c].fed = req[c].fed /\ rs[c].cursor = req[c].cursor
                          /\ rs[c].phase = req[c].phase

\* The requests whose rows are synced back have their tokens in their own
\* arrays; the others are left alone.
LEMMA SyncedIs ==
    ASSUME States(req), cache = None \/ Batch(cache), Aligned(cache, req), NEW here,
           NEW rs, rs = Synced(cache, here, req)
    PROVE  /\ SameButArrays(rs)
           /\ \A c \in Clients : IF c \in Cached \cap here
                                 THEN rs[c].kv = req[c].fed /\ rs[c].cache_len = Len(req[c].fed)
                                 ELSE rs[c] = req[c]
  <1> DEFINE keep == ToSet(cache.ids) \cap here
             s == Retain(cache, Indices(cache.ids, keep))
             i(c) == CHOOSE k \in DOMAIN s.ids : s.ids[k] = c
             own(c) == Strip(s.rows[i(c)], s.pad[i(c)])
  <1>a. rs = IF keep = {} THEN req
             ELSE [c \in Clients |-> IF c \in keep
                                     THEN [req[c] EXCEPT !.kv = own(c), !.cache_len = Len(own(c))]
                                     ELSE req[c]]
    BY Zenon DEF Synced
  <1>1. keep = Cached \cap here /\ keep \subseteq ToSet(cache.ids)
    BY DEF Cached
  <1>b. s = Retain(cache, Indices(cache.ids, keep))
    OBVIOUS
  <1> HIDE DEF keep, s
  <1>2. CASE keep = {}
    <2>1. rs = req
      BY <1>a, <1>2
    <2> QED  BY <1>1, <1>2, <2>1 DEF SameButArrays
  <1>3. CASE keep /= {}
    <2>1. Batch(cache) /\ ToSet(cache.ids) \cap keep = keep
      BY <1>1, <1>3, NoneCached DEF Cached
    <2>3. Remains(s, cache, keep) /\ Aligned(s, req)
      BY <1>3, <1>b, <2>1, RetainIs, RemainsAligned
    <2>5. rs = [c \in Clients |-> IF c \in keep
                                  THEN [req[c] EXCEPT !.kv = own(c), !.cache_len = Len(own(c))]
                                  ELSE req[c]]
      BY <1>3, <1>a, Zenon
    <2>6. ASSUME NEW c \in keep PROVE own(c) = req[c].fed
      <3>1. c \in ToSet(s.ids)
        BY <2>1, <2>3 DEF Remains
      <3>2. \E k \in DOMAIN s.ids : s.ids[k] = c
        BY <3>1 DEF ToSet
      <3>3. i(c) \in DOMAIN s.ids /\ s.ids[i(c)] = c
        BY <3>2, Zenon
      <3> HIDE DEF i
      <3>4. Strip(s.rows[i(c)], s.pad[i(c)]) = req[s.ids[i(c)]].fed
        BY <2>3, <3>3, Zenon DEF Aligned
      <3> QED  BY <3>3, <3>4
    <2> HIDE DEF own
    <2>7. \A c \in Clients : c \notin keep => rs[c] = req[c]
      BY <2>5
    <2>8. ASSUME NEW c \in Clients, c \in keep
          PROVE  /\ DOMAIN rs[c] = Fields /\ rs[c].fed = req[c].fed /\ rs[c].cursor = req[c].cursor
                 /\ rs[c].phase = req[c].phase
                 /\ rs[c].kv = req[c].fed /\ rs[c].cache_len = Len(req[c].fed)
      <3>1. rs[c] = [req[c] EXCEPT !.kv = own(c), !.cache_len = Len(own(c))]
        BY <2>5, <2>8
      <3>2. own(c) = req[c].fed
        BY <2>6, <2>8
      <3>3. DOMAIN req[c] = Fields
        BY DEF States
      <3> QED  BY <3>1, <3>2, <3>3 DEF Fields
    <2>9. \A c \in Clients : /\ DOMAIN rs[c] = Fields /\ rs[c].fed = req[c].fed
                             /\ rs[c].cursor = req[c].cursor /\ rs[c].phase = req[c].phase
      BY <2>7, <2>8 DEF States
    <2>10. rs = [c \in Clients |-> rs[c]]
      BY <2>5
    <2>11. States(rs)
      BY <2>9, <2>10 DEF States
    <2> QED  BY <1>1, <2>7, <2>8, <2>9, <2>11 DEF SameButArrays
  <1> QED  BY <1>2, <1>3

\* A batch of new rows.
LEMMA BuildIs ==
    ASSUME NEW ids \in Seq(Clients), Once(ids), ids /= <<>>, NEW rs, States(rs),
           \A c \in ToSet(ids) : rs[c].kv = rs[c].fed /\ rs[c].cache_len = Len(rs[c].fed),
           NEW b, b = Build(ids, rs)
    PROVE  b.ids = ids /\ Batch(b) /\ Aligned(b, rs)
  <1>1. PICK n \in Nat \ {0} : DOMAIN ids = 1..n /\ n = Len(ids) /\ \A i \in 1..n : ids[i] \in Clients
    OBVIOUS
  <1>2. \A i \in 1..n : /\ ids[i] \in ToSet(ids) /\ IsSeq(rs[ids[i]].fed) /\ rs[ids[i]].kv = rs[ids[i]].fed
                        /\ rs[ids[i]].cache_len = Len(rs[ids[i]].fed) /\ rs[ids[i]].cache_len \in Nat
    <2>1. \A i \in 1..n : ids[i] \in ToSet(ids)
      BY <1>1 DEF ToSet
    <2>2. \A i \in 1..n : IsSeq(rs[ids[i]].fed)
      BY <1>1 DEF States
    <2>3. \A i \in 1..n : Len(rs[ids[i]].fed) \in Nat
      BY <2>2, SeqFacts
    <2> QED  BY <2>1, <2>2, <2>3
  <1>3. PICK lens : lens = {rs[c].cache_len : c \in ToSet(ids)}
    OBVIOUS
  <1>4. \E x \in lens : \A y \in lens : x >= y
    <2>1. PICK f : f = [i \in 1..n |-> rs[ids[i]].cache_len]
      OBVIOUS
    <2>2. lens = {f[i] : i \in 1..n} /\ \A i \in 1..n : f[i] \in Nat
      BY <1>1, <1>2, <1>3, <2>1 DEF ToSet
    <2>3. DEFINE To(m) == \E k \in 1..n : \A j \in 1..m : f[k] >= f[j]
                 I == {m \in 0..n : To(m)}
    <2>4. 0 \in I
      OBVIOUS
    <2>5. ASSUME NEW m \in 1..n, m - 1 \in I PROVE m \in I
      <3>1. PICK k \in 1..n : \A j \in 1..m - 1 : f[k] >= f[j]
        BY <2>5
      <3>2. \A j \in 1..m : j \in 1..m - 1 \/ j = m
        OBVIOUS
      <3>3. f[k] \in Nat /\ f[m] \in Nat /\ \A j \in 1..m - 1 : f[j] \in Nat
        BY <2>2
      <3>4. CASE f[k] >= f[m]
        BY <3>1, <3>2, <3>4
      <3>5. CASE ~(f[k] >= f[m])
        <4>1. \A j \in 1..m : f[m] >= f[j]
          BY <3>1, <3>2, <3>3, <3>5
        <4> QED  BY <4>1
      <3> QED  BY <3>4, <3>5
    <2>6. n \in I
      <3> HIDE DEF I
      <3>1. I \in SUBSET (0..n)
        BY DEF I
      <3> QED  BY <2>4, <2>5, <3>1, Upward
    <2>7. PICK k \in 1..n : \A j \in 1..n : f[k] >= f[j]
      BY <2>6
    <2> QED  BY <2>2, <2>7
  <1>5. PICK len \in lens : len = Max(lens) /\ \A y \in lens : len >= y
    BY <1>4, Zenon DEF Max
  <1>6. len \in Nat /\ \A i \in 1..n : rs[ids[i]].cache_len <= len
    <2>1. \A i \in 1..n : rs[ids[i]].cache_len \in lens
      BY <1>2, <1>3
    <2>2. PICK c \in ToSet(ids) : len = rs[c].cache_len
      BY <1>3, <1>5
    <2>3. PICK i \in 1..n : c = ids[i]
      BY <1>1, <2>2 DEF ToSet
    <2>4. len \in Nat
      BY <1>2, <2>2, <2>3
    <2> QED  BY <1>2, <1>5, <2>1, <2>4
  <1>7. b = [ids |-> ids, len |-> len, prev |-> <<>>,
             pad  |-> [i \in DOMAIN ids |-> len - rs[ids[i]].cache_len],
             rows |-> [i \in DOMAIN ids |-> OwnRow(rs[ids[i]], len)]]
    BY <1>3, <1>5, Zenon DEF Build
  <1>8. /\ b.ids = ids /\ b.len = len
        /\ \A i \in 1..n : b.pad[i] = len - rs[ids[i]].cache_len /\ b.rows[i] = OwnRow(rs[ids[i]], len)
    BY <1>1, <1>7
  <1>9. b = [ids |-> b.ids, len |-> b.len, prev |-> b.prev, pad |-> b.pad, rows |-> b.rows]
    BY <1>7
  <1>10. ASSUME NEW i \in 1..n
         PROVE  /\ b.pad[i] \in Nat /\ b.pad[i] <= len /\ IsSeq(b.rows[i]) /\ Len(b.rows[i]) = len
                /\ Strip(b.rows[i], b.pad[i]) = rs[ids[i]].fed /\ rs[ids[i]].cache_len = len - b.pad[i]
    <2>1. PICK r : r = rs[ids[i]]
      OBVIOUS
    <2>2. IsSeq(r.kv) /\ r.cache_len = Len(r.kv) /\ r.cache_len \in Nat /\ r.kv = r.fed
      BY <1>2, <2>1
    <2>3. r.cache_len <= len
      BY <1>6, <2>1
    <2>4. /\ len - r.cache_len \in Nat /\ len - r.cache_len <= len
          /\ IsSeq(OwnRow(r, len)) /\ Len(OwnRow(r, len)) = len
          /\ Strip(OwnRow(r, len), len - r.cache_len) = r.kv
      BY <1>6, <2>2, <2>3, OwnRowIs
    <2>5. b.pad[i] = len - r.cache_len /\ b.rows[i] = OwnRow(r, len)
      BY <1>8, <2>1
    <2>6. len - (len - r.cache_len) = r.cache_len
      BY <1>6, <2>2
    <2> QED  BY <2>1, <2>2, <2>4, <2>5, <2>6
  <1>11. Batch(b)
    BY <1>1, <1>6, <1>8, <1>9, <1>10 DEF Batch
  <1>12. Aligned(b, rs)
    BY <1>1, <1>8, <1>10 DEF Aligned
  <1> QED  BY <1>8, <1>11, <1>12

\* A batch that grows: its rows stay, the new ones come after them.
LEMMA AdmitIs ==
    ASSUME NEW b, Batch(b), NEW rs, Aligned(b, rs), States(rs),
           NEW ids \in Seq(Clients), Once(ids), IsStrictPrefix(b.ids, ids),
           \A i \in Len(b.ids) + 1..Len(ids) : rs[ids[i]].cache_len <= b.len,
           \A c \in ToSet(ids) : c \notin ToSet(b.ids) =>
               rs[c].kv = rs[c].fed /\ rs[c].cache_len = Len(rs[c].fed),
           NEW a, a = Admit(b, ids, rs)
    PROVE  a.ids = ids /\ Batch(a) /\ Aligned(a, rs)
  <1>1. PICK n \in Nat : DOMAIN ids = 1..n /\ n = Len(ids) /\ \A i \in 1..n : ids[i] \in Clients
    OBVIOUS
  <1>2. PICK m \in Nat \ {0} : DOMAIN b.ids = 1..m /\ m = Len(b.ids)
    BY DEF Batch
  <1>3. m <= n /\ SubSeq(b.ids, 1, m) = SubSeq(ids, 1, m)
    BY <1>1, <1>2 DEF IsStrictPrefix, IsPrefix
  <1>4. \A i \in 1..m : ids[i] = b.ids[i]
    <2>1. b.ids \in Seq(Clients)
      BY DEF Batch
    <2>2. ASSUME NEW i \in 1..m PROVE ids[i] = b.ids[i]
      <3>1. SubSeq(ids, 1, m)[i] = ids[i]
        BY <1>1, <1>3
      <3>2. SubSeq(b.ids, 1, m)[i] = b.ids[i]
        BY <1>2, <2>1
      <3> QED  BY <1>3, <3>1, <3>2
    <2> QED  BY <2>2
  <1>5. ASSUME NEW i \in 1..n, ~(i <= m) PROVE ids[i] \in ToSet(ids) /\ ids[i] \notin ToSet(b.ids)
    <2>1. ids[i] \in ToSet(ids)
      BY <1>1 DEF ToSet
    <2>2. ASSUME NEW j \in 1..m, b.ids[j] = ids[i] PROVE FALSE
      <3>1. ids[j] = ids[i] /\ j \in 1..n
        BY <1>3, <1>4, <2>2
      <3>2. j = i
        BY <1>1, <3>1 DEF Once
      <3> QED  BY <1>5, <3>2
    <2> QED  BY <1>2, <2>1, <2>2 DEF ToSet
  <1>6. b = [ids |-> b.ids, len |-> b.len, prev |-> b.prev, pad |-> b.pad, rows |-> b.rows] /\ b.len \in Nat
    BY DEF Batch
  <1> DEFINE row(i) == IF i <= Len(b.ids) THEN b.rows[i] ELSE OwnRow(rs[ids[i]], b.len)
             pad(i) == IF i <= Len(b.ids) THEN b.pad[i] ELSE b.len - rs[ids[i]].cache_len
  <1>7. a = [b EXCEPT !.ids = ids, !.prev = <<>>,
                      !.rows = [i \in DOMAIN ids |-> row(i)], !.pad = [i \in DOMAIN ids |-> pad(i)]]
    BY Zenon DEF Admit
  <1> HIDE DEF row, pad
  <1>8. a = [ids |-> ids, len |-> b.len, prev |-> <<>>, pad |-> [i \in DOMAIN ids |-> pad(i)],
             rows |-> [i \in DOMAIN ids |-> row(i)]]
    BY <1>6, <1>7
  <1>9. a.ids = ids /\ a.len = b.len /\ \A i \in 1..n : a.pad[i] = pad(i) /\ a.rows[i] = row(i)
    BY <1>1, <1>8
  <1>10. ASSUME NEW i \in 1..n
         PROVE  /\ pad(i) \in Nat /\ pad(i) <= b.len /\ IsSeq(row(i)) /\ Len(row(i)) = b.len
                /\ Strip(row(i), pad(i)) = rs[ids[i]].fed /\ rs[ids[i]].cache_len = b.len - pad(i)
    <2>1. CASE i <= m
      <3>1. i \in DOMAIN b.ids /\ ids[i] = b.ids[i]
        BY <1>2, <1>4, <2>1
      <3>2. row(i) = b.rows[i] /\ pad(i) = b.pad[i]
        BY <1>2, <2>1 DEF row, pad
      <3>3. b.pad[i] \in Nat /\ b.pad[i] <= b.len /\ IsSeq(b.rows[i]) /\ Len(b.rows[i]) = b.len
        BY <3>1 DEF Batch
      <3>4. Strip(b.rows[i], b.pad[i]) = rs[b.ids[i]].fed /\ rs[b.ids[i]].cache_len = b.len - b.pad[i]
        BY <3>1 DEF Aligned
      <3> QED  BY <3>1, <3>2, <3>3, <3>4
    <2>2. CASE ~(i <= m)
      <3>1. PICK r : r = rs[ids[i]]
        OBVIOUS
      <3>2. r.kv = r.fed /\ r.cache_len = Len(r.fed) /\ r.cache_len <= b.len
        <4>1. i \in m + 1..n
          BY <2>2
        <4> QED  BY <1>1, <1>2, <1>5, <2>2, <3>1, <4>1
      <3>3. IsSeq(r.fed) /\ r.cache_len \in Nat
        BY <1>1, <3>1, <3>2, SeqFacts DEF States
      <3>4. /\ b.len - r.cache_len \in Nat /\ b.len - r.cache_len <= b.len
            /\ IsSeq(OwnRow(r, b.len)) /\ Len(OwnRow(r, b.len)) = b.len
            /\ Strip(OwnRow(r, b.len), b.len - r.cache_len) = r.kv
        BY <1>6, <3>2, <3>3, OwnRowIs
      <3>5. row(i) = OwnRow(r, b.len) /\ pad(i) = b.len - r.cache_len
        BY <1>2, <2>2, <3>1 DEF row, pad
      <3>6. b.len - (b.len - r.cache_len) = r.cache_len
        BY <1>6, <3>3
      <3> QED  BY <3>1, <3>2, <3>4, <3>5, <3>6
    <2> QED  BY <2>1, <2>2
  <1>11. ids /= <<>>
    BY <1>1, <1>3
  <1>12. a = [ids |-> a.ids, len |-> a.len, prev |-> a.prev, pad |-> a.pad, rows |-> a.rows]
    BY <1>8
  <1>13. Batch(a)
    BY <1>1, <1>6, <1>9, <1>10, <1>11, <1>12 DEF Batch
  <1>14. Aligned(a, rs)
    BY <1>1, <1>9, <1>10 DEF Aligned
  <1> QED  BY <1>9, <1>13, <1>14

\* The batch that execute_qwen35_packed_decode_batch decodes, and the requests'
\* states then.
LEMMA AdjustedIs ==
    ASSUME MetalInv, at = "decode", NEW ids \in Seq(Clients), Once(ids), ids /= <<>>,
           ToSet(ids) \subseteq ToSet(step.decode), NEW a, a = Adjusted(ids)
    PROVE  /\ a.batch.ids = ids /\ Batch(a.batch) /\ Aligned(a.batch, a.rs) /\ SameButArrays(a.rs)
           /\ \A c \in active \ ToSet(step.decode) : a.rs[c] = req[c]
  <1> USE DEF MetalInv
  <1>1. Aligned(cache, req) /\ Apart(cache, req, active)
    BY AlignedIs
  <1>2. ToSet(step.decode) \subseteq active /\ active \cap Cached \subseteq ToSet(step.decode)
    BY DEF PlanKept
  <1>3. ToSet(ids) \subseteq Clients
    BY ListSubset
  <1>4. SameButArrays(req)
    BY DEF SameButArrays
  <1>5. \A c \in ToSet(ids) : c \notin ToSet(cache.ids) => req[c].kv = req[c].fed /\ req[c].cache_len = Len(req[c].fed)
    BY <1>1, <1>2 DEF Apart
  <1>6. CASE retained_row_indices(ids)
    <2>1. PICK ix : ix = Indices(cache.ids, ToSet(ids))
      OBVIOUS
    <2>2. ids = Picked(cache.ids, ix)
      BY <1>6, <2>1 DEF retained_row_indices
    <2>3. a = [batch |-> Retain(cache, ix), rs |-> req, drained |-> {}]
      BY <1>6, <2>1, Zenon DEF Adjusted
    <2>4. PICK n \in Nat : DOMAIN cache.ids = 1..n
      <3>1. CASE cache = None
        <4>1. DOMAIN cache.ids = 1..0
          BY <3>1 DEF None
        <4> QED  BY <4>1
      <3>2. CASE Batch(cache)
        BY <3>2 DEF Batch
      <3> QED  BY <3>1, <3>2
    <2>5. ix \in Seq(1..n)
      BY <2>1, <2>4, IndicesIs
    <2>6. DOMAIN ix = DOMAIN ids /\ 1 \in DOMAIN ids
      BY <2>2 DEF Picked
    <2>7. ix[1] \in 1..n /\ ids[1] = cache.ids[ix[1]]
      BY <2>2, <2>5, <2>6 DEF Picked
    <2>8. ids[1] \in ToSet(cache.ids) \cap ToSet(ids)
      BY <2>4, <2>6, <2>7 DEF ToSet
    <2>9. Batch(cache)
      BY <2>8, NoneCached DEF Cached
    <2>10. Retain(cache, ix).ids = ids /\ Remains(Retain(cache, ix), cache, ToSet(ids))
      BY <2>1, <2>2, <2>8, <2>9, RetainIs
    <2>11. Batch(Retain(cache, ix)) /\ Aligned(Retain(cache, ix), req)
      BY <1>1, <2>10, RemainsAligned DEF Remains
    <2>12. a.batch = Retain(cache, ix) /\ a.rs = req
      BY <2>3
    <2> QED  BY <1>4, <2>10, <2>11, <2>12
  <1>7. CASE ~retained_row_indices(ids) /\ admit_row_indices(ids)
    <2>1. a.batch = Admit(cache, ids, req) /\ a.rs = req
      <3>1. a = [batch |-> Admit(cache, ids, req), rs |-> req, drained |-> ToSet(ids) \ ToSet(cache.ids)]
        BY <1>7, Zenon DEF Adjusted
      <3> QED  BY <3>1
    <2>2. /\ cache /= None /\ IsStrictPrefix(cache.ids, ids)
          /\ \A i \in Len(cache.ids) + 1..Len(ids) : req[ids[i]].cache_len <= cache.len
      BY <1>7, Zenon DEF admit_row_indices
    <2>3. Batch(cache)
      BY <2>2
    <2>4. PICK g : g = Admit(cache, ids, req)
      OBVIOUS
    <2>5. g.ids = ids /\ Batch(g) /\ Aligned(g, req)
      BY <1>1, <1>5, <2>2, <2>3, <2>4, AdmitIs
    <2> QED  BY <1>4, <2>1, <2>4, <2>5
  <1>8. CASE ~retained_row_indices(ids) /\ ~admit_row_indices(ids)
    <2>1. PICK here : here = ToSet(ids) \cup (active \ ToSet(step.decode))
      OBVIOUS
    <2>2. PICK rs : rs = Synced(cache, here, req)
      OBVIOUS
    <2>3. a.batch = Build(ids, rs) /\ a.rs = rs
      <3>1. a = [batch |-> Build(ids, rs), rs |-> rs, drained |-> ToSet(ids)]
        BY <1>8, <2>1, <2>2, Zenon DEF Adjusted
      <3> QED  BY <3>1
    <2>4. /\ SameButArrays(rs)
          /\ \A c \in Clients : IF c \in Cached \cap here
                                THEN rs[c].kv = req[c].fed /\ rs[c].cache_len = Len(req[c].fed)
                                ELSE rs[c] = req[c]
      BY <1>1, <2>2, SyncedIs
    <2>5. \A c \in ToSet(ids) : rs[c].kv = rs[c].fed /\ rs[c].cache_len = Len(rs[c].fed)
      <3>1. ASSUME NEW c \in ToSet(ids) PROVE rs[c].kv = rs[c].fed /\ rs[c].cache_len = Len(rs[c].fed)
        <4>1. c \in Clients /\ c \in here
          BY <1>3, <2>1
        <4>2. rs[c].fed = req[c].fed
          BY <2>4, <4>1 DEF SameButArrays
        <4>3. CASE c \in Cached
          BY <2>4, <4>1, <4>2, <4>3
        <4>4. CASE c \notin Cached
          BY <1>5, <2>4, <4>1, <4>4 DEF Cached
        <4> QED  BY <4>3, <4>4
      <3> QED  BY <3>1
    <2>6. PICK b : b = Build(ids, rs)
      OBVIOUS
    <2>7. b.ids = ids /\ Batch(b) /\ Aligned(b, rs)
      BY <2>4, <2>5, <2>6, BuildIs DEF SameButArrays
    <2>8. \A c \in active \ ToSet(step.decode) : rs[c] = req[c]
      <3>1. active \subseteq Clients
        <4>1. ToSet(arrival) \subseteq Clients
          BY ListSubset DEF QueueShape
        <4> QED  BY <4>1 DEF Known, Here
      <3> QED  BY <1>2, <2>4, <3>1
    <2> QED  BY <2>3, <2>4, <2>6, <2>7, <2>8
  <1> QED  BY <1>6, <1>7, <1>8

\* A forward pass: every row of the batch and its request get the same token,
\* and the rows stay those of the batch.
LEMMA ForwardIs ==
    ASSUME NEW b, Batch(b), NEW rs, States(rs), Aligned(b, rs), NEW f, f = Forward(b, rs)
    PROVE  /\ f.batch.ids = b.ids /\ Batch(f.batch) /\ Aligned(f.batch, f.rs) /\ States(f.rs)
           /\ IsSeq(f.open) /\ DOMAIN f.open = DOMAIN b.ids /\ \A k \in DOMAIN b.ids : f.open[k].id = b.ids[k]
           /\ \A c \in Clients : c \notin ToSet(b.ids) => f.rs[c] = rs[c]
           /\ \A c \in ToSet(b.ids) : f.rs[c].phase \in {"decode", "finished"}
  <1> DEFINE input == Input(b, rs)
             rows == [i \in DOMAIN b.ids |-> Append(b.rows[i], input[i])]
             sampled == [i \in DOMAIN b.ids |-> Sampled(Strip(rows[i], b.pad[i]))]
             tokens == Returned(b, sampled)
             next == [b EXCEPT !.rows = rows, !.len = @ + 1,
                               !.prev = IF qwen35_can_batch_sample(b.ids) THEN sampled ELSE <<>>]
             i(c) == CHOOSE k \in DOMAIN b.ids : b.ids[k] = c
             fed(c) == [rs[c] EXCEPT !.fed = Append(@, input[i(c)]), !.cache_len = next.len - b.pad[i(c)]]
             opened == [k \in DOMAIN b.ids |-> [id |-> b.ids[k], token |-> tokens[k]]]
             states == [c \in Clients |-> IF c \in ToSet(b.ids) THEN Record(c, fed(c), tokens[i(c)]) ELSE rs[c]]
  <1>1. f = [batch |-> next, open |-> opened, rs |-> states]
    BY Zenon DEF Forward
  <1>2. PICK n \in Nat : DOMAIN b.ids = 1..n
    BY DEF Batch
  <1>3. IsSeq(opened)
    <2>1. opened = [k \in 1..n |-> opened[k]]
      BY <1>2
    <2> HIDE DEF opened
    <2> QED  BY <2>1, FunctionIsSeq
  <1>4. DOMAIN opened = DOMAIN b.ids /\ \A k \in DOMAIN b.ids : opened[k].id = b.ids[k]
    OBVIOUS
  <1>5. /\ next.ids = b.ids /\ next.len = b.len + 1 /\ next.pad = b.pad /\ next.rows = rows
        /\ next = [ids |-> next.ids, len |-> next.len, prev |-> next.prev, pad |-> next.pad, rows |-> next.rows]
    <2> HIDE DEF rows, sampled
    <2>1. b = [ids |-> b.ids, len |-> b.len, prev |-> b.prev, pad |-> b.pad, rows |-> b.rows]
      BY DEF Batch
    <2>2. PICK prev : prev = IF qwen35_can_batch_sample(b.ids) THEN sampled ELSE <<>>
      OBVIOUS
    <2>3. next = [b EXCEPT !.rows = rows, !.len = @ + 1, !.prev = prev]
      BY <2>2
    <2> HIDE DEF next
    <2>4. next = [ids |-> b.ids, len |-> b.len + 1, prev |-> prev, pad |-> b.pad, rows |-> rows]
      BY <2>1, <2>3
    <2> QED  BY <2>4
  <1>6. \A k \in DOMAIN b.ids : rows[k] = Append(b.rows[k], input[k])
    OBVIOUS
  <1>7. states = [c \in Clients |-> states[c]]
    OBVIOUS
  <1>8. \A c \in Clients : c \notin ToSet(b.ids) => states[c] = rs[c]
    OBVIOUS
  <1>9. \A c \in Clients : c \in ToSet(b.ids) => states[c] = Record(c, fed(c), tokens[i(c)])
    OBVIOUS
  <1>10. \A c : fed(c) = [rs[c] EXCEPT !.fed = Append(@, input[i(c)]), !.cache_len = next.len - b.pad[i(c)]]
    OBVIOUS
  <1> HIDE DEF opened, states, fed, next, tokens, sampled, rows, input
  <1>11. b.ids \in Seq(Clients) /\ Once(b.ids) /\ b.len \in Nat /\ b.ids /= <<>>
    BY DEF Batch
  <1>12. ASSUME NEW k \in DOMAIN b.ids, NEW c, c = b.ids[k]
         PROVE  /\ c \in Clients /\ c \in ToSet(b.ids)
                /\ DOMAIN states[c] = Fields /\ states[c].fed = Append(rs[c].fed, input[k])
                /\ states[c].cache_len = (b.len + 1) - b.pad[k] /\ states[c].cursor = rs[c].cursor
                /\ states[c].phase \in {"decode", "finished"} /\ IsSeq(states[c].fed)
    <2>1. c \in Clients /\ c \in ToSet(b.ids)
      BY <1>2, <1>11, <1>12 DEF ToSet
    <2>2. \A j \in DOMAIN b.ids : b.ids[j] = c => j = k
      BY <1>11, <1>12 DEF Once
    <2>3. i(c) = k
      BY <1>12, <2>2
    <2> HIDE DEF i
    <2>4. fed(c) = [rs[c] EXCEPT !.fed = Append(@, input[k]), !.cache_len = next.len - b.pad[k]]
      BY <1>10, <2>3
    <2>5. DOMAIN rs[c] = Fields /\ IsSeq(rs[c].fed)
      BY <2>1 DEF States
    <2>6. /\ DOMAIN fed(c) = Fields /\ fed(c).fed = Append(rs[c].fed, input[k])
          /\ fed(c).cache_len = next.len - b.pad[k] /\ fed(c).cursor = rs[c].cursor
      BY <2>4, <2>5 DEF Fields
    <2>7. PICK t : t = tokens[k]
      OBVIOUS
    <2>8. states[c] = Record(c, fed(c), t)
      BY <1>9, <2>1, <2>3, <2>7
    <2>9. /\ DOMAIN states[c] = Fields /\ states[c].fed = fed(c).fed /\ states[c].cache_len = fed(c).cache_len
          /\ states[c].cursor = fed(c).cursor /\ states[c].phase \in {"decode", "finished"}
      BY <2>6, <2>8, RecordIs
    <2>10. IsSeq(Append(rs[c].fed, input[k]))
      BY <2>5, SeqFacts
    <2>11. states[c].cache_len = (b.len + 1) - b.pad[k]
      <3>1. states[c].cache_len = next.len - b.pad[k]
        BY <2>6, <2>9
      <3> QED  BY <1>5, <3>1
    <2>12. states[c].fed = Append(rs[c].fed, input[k]) /\ states[c].cursor = rs[c].cursor
      BY <2>6, <2>9
    <2>13. IsSeq(states[c].fed)
      BY <2>10, <2>12
    <2> QED  BY <2>1, <2>9, <2>11, <2>12, <2>13
  <1>13. ASSUME NEW k \in DOMAIN b.ids
         PROVE  /\ next.pad[k] \in Nat /\ next.pad[k] <= next.len
                /\ IsSeq(next.rows[k]) /\ Len(next.rows[k]) = next.len
                /\ Strip(next.rows[k], next.pad[k]) = Append(rs[b.ids[k]].fed, input[k])
    <2>1. PICK row : row = b.rows[k]
      OBVIOUS
    <2>2. PICK pad : pad = b.pad[k]
      OBVIOUS
    <2>3. pad \in Nat /\ pad <= b.len /\ IsSeq(row) /\ Len(row) = b.len
      BY <2>1, <2>2 DEF Batch
    <2>4. /\ IsSeq(Append(row, input[k])) /\ Len(Append(row, input[k])) = b.len + 1
          /\ Strip(Append(row, input[k]), pad) = Append(Strip(row, pad), input[k])
      BY <2>3, StripAppend
    <2>5. Strip(row, pad) = rs[b.ids[k]].fed
      BY <2>1, <2>2 DEF Aligned
    <2>6. next.rows[k] = Append(row, input[k]) /\ next.pad[k] = pad
      BY <1>5, <1>6, <2>1, <2>2
    <2>7. pad <= b.len + 1
      BY <1>11, <2>3
    <2> QED  BY <1>5, <2>3, <2>4, <2>5, <2>6, <2>7
  <1>14. Batch(next)
    <2>1. next.len \in Nat
      BY <1>5, <1>11
    <2> QED  BY <1>5, <1>11, <1>13, <2>1, Zenon DEF Batch
  <1>15. Aligned(next, states)
    <2>1. ASSUME NEW k \in DOMAIN next.ids
          PROVE  /\ Strip(next.rows[k], next.pad[k]) = states[next.ids[k]].fed
                 /\ states[next.ids[k]].cache_len = next.len - next.pad[k] /\ Len(next.rows[k]) = next.len
      <3>1. PICK c : c = b.ids[k] /\ c = next.ids[k] /\ k \in DOMAIN b.ids
        BY <1>5
      <3>2. /\ states[c].fed = Append(rs[c].fed, input[k]) /\ states[c].cache_len = (b.len + 1) - b.pad[k]
        BY <1>12, <3>1
      <3>3. Strip(next.rows[k], next.pad[k]) = Append(rs[c].fed, input[k]) /\ Len(next.rows[k]) = next.len
        BY <1>13, <3>1
      <3>4. next.len - next.pad[k] = (b.len + 1) - b.pad[k]
        BY <1>5
      <3> QED  BY <3>1, <3>2, <3>3, <3>4, Zenon
    <2> QED  BY <2>1, Zenon DEF Aligned
  <1>16. States(states)
    <2>1. ASSUME NEW c \in Clients
          PROVE  /\ DOMAIN states[c] = Fields /\ IsSeq(states[c].fed)
                 /\ states[c].cursor \in Nat /\ states[c].cursor <= Prompt[c]
      <3>1. CASE c \in ToSet(b.ids)
        <4>1. PICK k \in DOMAIN b.ids : c = b.ids[k]
          BY <3>1 DEF ToSet
        <4>2. DOMAIN states[c] = Fields /\ states[c].cursor = rs[c].cursor /\ IsSeq(states[c].fed)
          BY <1>12, <4>1
        <4> QED  BY <4>2 DEF States
      <3>2. CASE c \notin ToSet(b.ids)
        BY <1>8, <3>2 DEF States
      <3> QED  BY <3>1, <3>2
    <2> QED  BY <1>7, <2>1 DEF States
  <1>17. ASSUME NEW c \in ToSet(b.ids) PROVE states[c].phase \in {"decode", "finished"}
    <2>1. PICK k \in DOMAIN b.ids : c = b.ids[k]
      BY DEF ToSet
    <2> QED  BY <1>12, <2>1
  <1>18. f.batch = next /\ f.open = opened /\ f.rs = states
    BY <1>1
  <1> QED  BY <1>3, <1>4, <1>5, <1>8, <1>14, <1>15, <1>16, <1>17, <1>18

LEMMA DecodeKeeps ==
    ASSUME MetalInv, Decode
    PROVE  MetalInv'
  <1> USE DEF MetalInv
  <1>1. PICK D, ids, a, f :
          /\ D = ToSet(step.decode) /\ ids = Keeping(step.decode, Clients \ closed)
          /\ a = Adjusted(ids) /\ f = Forward(a.batch, a.rs)
    OBVIOUS
  <1>2. /\ at = "decode" /\ active' = active \ D
        /\ requests' = requests \ (D \cap closed) /\ admitted' = admitted \ (D \cap closed)
        /\ called' = called /\ request_rx' = request_rx /\ waiting_count' = waiting_count
        /\ arrival' = arrival /\ waiting' = waiting /\ pending' = pending /\ step' = step
    BY <1>1, Zenon DEF Decode, clientVars
  <1>3. \/ /\ ids = <<>> /\ cache' = None /\ session' = session \ (D \cap closed)
           /\ at' = FromDecode(step, active') /\ req' = req /\ open' = open
        \/ /\ ids /= <<>> /\ cache' = f.batch /\ req' = f.rs /\ open' = f.open /\ at' = "deliver"
           /\ session' \subseteq session \ (D \cap closed)
    <2>1. PICK gone, finished :
            /\ gone = D \cap closed /\ finished = {c \in ToSet(ids) : f.rs[c].phase = "finished"}
      OBVIOUS
    <2>2. IF ids = <<>>
          THEN /\ cache' = None /\ session' = session \ gone
               /\ at' = FromDecode(step, active') /\ UNCHANGED <<req, open>>
          ELSE /\ cache' = f.batch /\ req' = f.rs /\ open' = f.open /\ at' = "deliver"
               /\ session' = session \ (gone \cup a.drained \cup finished)
      BY <1>1, <2>1, Zenon DEF Decode
    <2>3. CASE ids = <<>>
      BY <2>1, <2>2, <2>3
    <2>4. CASE ids /= <<>>
      <3>1. session' \subseteq session \ gone
        BY <2>2, <2>4
      <3> QED  BY <2>1, <2>2, <2>4, <3>1, Zenon
    <2> QED  BY <2>3, <2>4
  <1>4. /\ D \subseteq active /\ active \cap Cached \subseteq D
        /\ step.decode \in Seq(Clients) /\ Once(step.decode) /\ step.prefill \cap D = {}
    BY <1>1, <1>2 DEF PlanKept
  <1>5. D \subseteq Clients
    BY <1>1, <1>4, ListSubset
  <1>6. ids \in Seq(Clients) /\ Once(ids) /\ ToSet(ids) = D \ closed
    BY <1>1, <1>4, <1>5, KeepFacts
  <1>7. CASE ids = <<>>
    <2>1. D \cap closed = D
      BY <1>6, <1>7 DEF ToSet
    <2>2. /\ cache' = None /\ session' = session \ D /\ at' = FromDecode(step, active') /\ req' = req /\ open' = open
      BY <1>3, <1>7, <2>1
    <2>3. at' = "loop" \/ (at' = "prefill" /\ step.prefill \subseteq active')
      BY <2>2, FromActivateIs
    <2> QED  BY <1>2, <1>4, <2>1, <2>2, <2>3, LeaveKeeps
  <1>8. CASE ids /= <<>>
    <2>1. /\ cache' = f.batch /\ req' = f.rs /\ open' = f.open /\ at' = "deliver"
          /\ session' \subseteq session \ (D \cap closed)
      BY <1>3, <1>8
    <2>2. /\ a.batch.ids = ids /\ Batch(a.batch) /\ Aligned(a.batch, a.rs) /\ SameButArrays(a.rs)
          /\ \A c \in active \ D : a.rs[c] = req[c]
      <3>1. ToSet(ids) \subseteq ToSet(step.decode)
        BY <1>1, <1>6
      <3>2. a = Adjusted(ids)
        BY <1>1
      <3>3. /\ a.batch.ids = ids /\ Batch(a.batch) /\ Aligned(a.batch, a.rs) /\ SameButArrays(a.rs)
            /\ \A c \in active \ ToSet(step.decode) : a.rs[c] = req[c]
        BY <1>2, <1>6, <1>8, <3>1, <3>2, AdjustedIs
      <3> QED  BY <1>1, <3>3
    <2>3. /\ f.batch.ids = ids /\ Batch(f.batch) /\ Aligned(f.batch, f.rs) /\ States(f.rs)
          /\ IsSeq(f.open) /\ DOMAIN f.open = DOMAIN ids /\ \A k \in DOMAIN ids : f.open[k].id = ids[k]
          /\ \A c \in Clients : c \notin ToSet(ids) => f.rs[c] = a.rs[c]
          /\ \A c \in ToSet(ids) : f.rs[c].phase \in {"decode", "finished"}
      <3>1. PICK b, rs : b = a.batch /\ rs = a.rs
        OBVIOUS
      <3>2. b.ids = ids /\ Batch(b) /\ Aligned(b, rs) /\ States(rs) /\ f = Forward(b, rs)
        BY <1>1, <2>2, <3>1 DEF SameButArrays
      <3>3. /\ f.batch.ids = b.ids /\ Batch(f.batch) /\ Aligned(f.batch, f.rs) /\ States(f.rs)
            /\ IsSeq(f.open) /\ DOMAIN f.open = DOMAIN b.ids /\ \A k \in DOMAIN b.ids : f.open[k].id = b.ids[k]
            /\ \A c \in Clients : c \notin ToSet(b.ids) => f.rs[c] = rs[c]
            /\ \A c \in ToSet(b.ids) : f.rs[c].phase \in {"decode", "finished"}
        BY <3>2, ForwardIs
      <3> QED  BY <3>1, <3>2, <3>3
    <2>4. Cached' = D \ closed /\ Rows' = D \ closed
      <3>1. Cached' = ToSet(ids)
        BY <2>1, <2>3 DEF Cached
      <3>2. Rows' = {ids[k] : k \in DOMAIN ids}
        BY <2>1, <2>3 DEF Rows
      <3> QED  BY <1>6, <3>1, <3>2 DEF ToSet
    <2>5. open = <<>> /\ Rows = {} /\ Activating = {} /\ Activating' = {}
      BY <1>2, <2>1, NothingOpen DEF Activating
    <2>6. active \subseteq Clients
      <3>1. ToSet(arrival) \subseteq Clients
        BY ListSubset DEF QueueShape
      <3> QED  BY <3>1 DEF Known, Here
    <2>7. \A c \in active' : req'[c] = req[c]
      BY <1>2, <1>6, <2>1, <2>2, <2>3, <2>6
    <2>8. Agree
      BY AgreeIs
    <2>9. QueueShape'
      <3>1. open' /= <<>>
        <4>1. DOMAIN ids /= {}
          <5>1. PICK n \in Nat \ {0} : DOMAIN ids = 1..n
            BY <1>6, <1>8
          <5>2. 1 \in 1..n
            OBVIOUS
          <5> QED  BY <5>1, <5>2
        <4>2. DOMAIN open' /= {}
          BY <2>1, <2>3, <4>1
        <4> QED  BY <4>2
      <3>2. ASSUME NEW i \in DOMAIN open', NEW j \in DOMAIN open', open'[i].id = open'[j].id PROVE i = j
        <4>1. i \in DOMAIN ids /\ j \in DOMAIN ids /\ ids[i] = ids[j]
          BY <2>1, <2>3, <3>2
        <4> QED  BY <1>6, <4>1 DEF Once
      <3> QED  BY <1>2, <2>1, <2>3, <3>1, <3>2 DEF QueueShape
    <2>10. Known'
      BY <1>2, <1>4, <2>4 DEF Known, Here
    <2>11. PlanKept'
      <3>1. step.budget \in Nat /\ step.prefill \cap Cached' = {}
        BY <1>2, <1>4, <2>4 DEF PlanKept
      <3>2. \A c \in step.prefill \cap active' : req'[c].cursor + step.budget <= Prompt[c]
        BY <1>2, <2>7 DEF PlanKept
      <3> QED  BY <1>2, <2>1, <3>1, <3>2 DEF PlanKept
    <2>12. Phases'
      <3>1. active' \cap Cached' = {}
        BY <1>2, <2>4
      <3>2. \A c \in Rows' : req'[c].phase \in {"decode", "finished"}
        BY <1>6, <2>1, <2>3, <2>4
      <3> QED  BY <2>4, <3>1, <3>2 DEF Phases
    <2>13. Agree'
      <3>1. pending \cap active = {}
        BY DEF Known
      <3>2. requests' = Here' /\ admitted' = active' \cup Rows' \cup Activating'
        BY <1>2, <1>4, <2>4, <2>5, <2>8, <3>1 DEF Agree, Here
      <3>3. session' \subseteq active' \cup Rows'
        BY <1>2, <2>1, <2>4, <2>5, <2>8 DEF Agree
      <3>4. Cardinality(session') <= 1
        BY <2>1, <2>8, FewSessions
      <3> QED  BY <1>2, <2>5, <2>8, <3>2, <3>3, <3>4 DEF Agree
    <2>14. TablesAgree'
      BY <2>13, AgreeIs
    <2>15. RowsAligned'
      <3>1. Apart(cache, req, active)
        BY AlignedIs
      <3>2. \A c \in active' : req'[c].kv = req'[c].fed /\ req'[c].cache_len = Len(req'[c].fed)
        BY <1>2, <1>4, <2>7, <3>1 DEF Apart, Cached
      <3>3. Aligned(cache', req') /\ Apart(cache', req', active')
        BY <2>1, <2>3, <3>2 DEF Apart
      <3> QED  BY <3>3, AlignedIs
    <2>16. States(req)' /\ (cache = None \/ Batch(cache))'
      BY <2>1, <2>3
    <2> QED  BY <2>9, <2>10, <2>11, <2>12, <2>14, <2>15, <2>16
  <1> QED  BY <1>7, <1>8

------------------------------------------------------------------------------
(* The theorems *)

LEMMA InitKeeps ==
    ASSUME MetalInit
    PROVE  MetalInv
  <1>1. /\ called = {} /\ request_rx = <<>> /\ waiting_count = 0 /\ arrival = <<>> /\ waiting = <<>>
        /\ requests = {} /\ admitted = {} /\ pending = {} /\ active = {}
        /\ req = [c \in Clients |-> NewRequest] /\ session = {} /\ cache = None /\ open = <<>>
        /\ at = "loop" /\ step = NoStep
    BY DEF MetalInit
  <1>2. Rows = {} /\ Cached = {} /\ Here = {} /\ Activating = {}
    BY <1>1, NoneCached DEF Rows, Here, Activating
  <1>3. \A S : <<>> \in Seq(S)
    OBVIOUS
  <1>4. IsSeq(<<>>) /\ ToSet(<<>>) = {} /\ Once(<<>>) /\ Len(<<>>) = 0
    BY <1>3 DEF IsSeq, ToSet, Once
  <1>5. QueueShape
    BY <1>1, <1>3, <1>4 DEF QueueShape
  <1>6. Known
    BY <1>1, <1>2, <1>4 DEF Known
  <1>7. PlanKept /\ Phases
    BY <1>1, <1>2 DEF PlanKept, Phases
  <1>8. States(req)
    <2>1. /\ DOMAIN NewRequest = Fields /\ NewRequest.fed = <<>> /\ NewRequest.cursor = 0
      BY DEF NewRequest, Fields
    <2>2. \A c \in Clients : req[c] = NewRequest
      BY <1>1
    <2>3. req = [c \in Clients |-> req[c]]
      BY <1>1
    <2> QED  BY <1>4, <2>1, <2>2, <2>3, MetalAssumption DEF States
  <1>9. Agree
    <2>1. Cardinality({}) = 0
      BY FS_EmptySet
    <2> QED  BY <1>1, <1>2, <1>4, <2>1 DEF Agree
  <1>10. Aligned(cache, req) /\ Apart(cache, req, active)
    <2>1. DOMAIN cache.ids = {}
      BY <1>1 DEF None
    <2> QED  BY <1>1, <2>1 DEF Aligned, Apart
  <1> QED  BY <1>1, <1>5, <1>6, <1>7, <1>8, <1>9, <1>10, AgreeIs, AlignedIs DEF MetalInv

LEMMA StepKeeps ==
    ASSUME MetalInv, [MetalNext]_metalVars
    PROVE  MetalInv'
  <1>1. CASE Turn
    BY <1>1, TurnKeeps
  <1>2. CASE Activate
    BY <1>2, ActivateKeeps
  <1>3. CASE Decode
    BY <1>3, DecodeKeeps
  <1>4. CASE DecodeFails
    BY <1>4, DecodeFailsKeeps
  <1>5. CASE Deliver
    BY <1>5, DeliverKeeps
  <1>6. CASE Prefill
    BY <1>6, PrefillKeeps
  <1>7. CASE PrefillFails
    BY <1>7, PrefillFailsKeeps
  <1>8. ASSUME NEW c \in Clients, Submit(c) PROVE MetalInv'
    BY <1>8, SubmitKeeps
  <1>9. ASSUME NEW c \in Clients, HangUp(c) PROVE MetalInv'
    BY <1>9, HangUpKeeps
  <1>10. CASE UNCHANGED metalVars
    BY <1>10, NothingKeeps DEF metalVars, clientVars, tables
  <1> QED  BY <1>1, <1>2, <1>3, <1>4, <1>5, <1>6, <1>7, <1>8, <1>9, <1>10, Zenon DEF MetalNext, RuntimeStep

LEMMA MetalInvHolds == MetalSpec => []MetalInv
  <1>1. MetalInit => MetalInv
    BY InitKeeps
  <1>2. MetalInv /\ [MetalNext]_metalVars => MetalInv'
    BY StepKeeps
  <1> QED  BY <1>1, <1>2, PTL DEF MetalSpec

\* The tables of the scheduler and of the runtime name the same requests, in
\* the part of the loop where each is, whenever clients leave and steps fail;
\* so the scheduler finds a snapshot of each request it admitted, and the one
\* C++ session belongs to a request that will drain it.
THEOREM TablesStayInStep == MetalSpec => []TablesAgree
  <1>1. MetalInv => TablesAgree
    BY DEF MetalInv
  <1> QED  BY <1>1, MetalInvHolds, PTL

\* However the packed batch is built, grown, shrunk, compacted and synced back,
\* a row of it after its padding has exactly the tokens its own request was
\* fed, and a request outside of it has them in its own arrays.
THEOREM RowsStayAligned == MetalSpec => []RowsAligned
  <1>1. MetalInv => RowsAligned
    BY DEF MetalInv
  <1> QED  BY <1>1, MetalInvHolds, PTL
==============================================================================
