------------------------------- MODULE Induction ------------------------------
(***************************************************************************)
(* Induction over the natural numbers in terms of sets of numbers, and the *)
(* functions that loops of the code compute step by step, and what is kept *)
(* of a list.                                                              *)
(***************************************************************************)
EXTENDS Naturals, Sequences, Functions, Selections, SequenceTheorems, WellFoundedInduction, TLAPS

\* A set of natural numbers that is not empty has a least element.
LEMMA HasLeast ==
    ASSUME NEW T \in SUBSET Nat, T /= {}
    PROVE  \E x \in T : \A y \in T : x <= y
  <1>1. PICK R : R = OpToRel(<, Nat)
    OBVIOUS
  <1>2. IsWellFoundedOn(R, Nat)
    BY <1>1, NatLessThanWellFounded
  <1>3. PICK x \in T : \A y \in T : ~(<<y, x>> \in R)
    BY <1>2, WFMin
  <1>4. \A y \in T : ~(y < x)
    BY <1>1, <1>3 DEF OpToRel
  <1> QED  BY <1>4

\* Counting up to n.
LEMMA Upward ==
    ASSUME NEW n \in Nat, NEW I \in SUBSET (0..n), 0 \in I,
           \A i \in 1..n : i - 1 \in I => i \in I
    PROVE  n \in I
  <1> DEFINE Bad == (0..n) \ I
  <1>1. ASSUME Bad /= {} PROVE FALSE
    <2>1. Bad \in SUBSET Nat
      OBVIOUS
    <2>2. PICK m \in Bad : \A y \in Bad : m <= y
      <3> HIDE DEF Bad
      <3> QED  BY <1>1, <2>1, HasLeast
    <2>3. m \in 0..n /\ m \notin I /\ m /= 0
      OBVIOUS
    <2>4. m \in 1..n /\ m - 1 \in 0..n /\ ~(m <= m - 1)
      BY <2>3
    <2>5. m - 1 \notin Bad
      BY <2>2, <2>4
    <2>6. m - 1 \in I
      BY <2>4, <2>5
    <2> QED  BY <2>3, <2>4, <2>6
  <1>2. n \in 0..n
    OBVIOUS
  <1> QED  BY <1>1, <1>2

------------------------------------------------------------------------------
\* A set of numbers up to n that is not empty has a greatest element.
LEMMA Greatest ==
    ASSUME NEW n \in Nat, NEW T \in SUBSET (0..n), T /= {}
    PROVE  \E x \in T : \A y \in T : x >= y
  <1>1. PICK U : U = {n - k : k \in T}
    OBVIOUS
  <1>2. U \in SUBSET Nat /\ U /= {}
    <2>1. \A k \in T : n - k \in Nat
      OBVIOUS
    <2>2. PICK k \in T : TRUE
      OBVIOUS
    <2> QED  BY <1>1, <2>1, <2>2
  <1>3. PICK u \in U : \A v \in U : u <= v
    BY <1>2, HasLeast
  <1>4. PICK x \in T : u = n - x
    BY <1>1
  <1>5. ASSUME NEW y \in T PROVE x >= y
    <2>1. n - y \in U
      BY <1>1
    <2>2. n - x <= n - y
      BY <1>3, <1>4, <2>1
    <2>3. x \in Int /\ y \in Int
      OBVIOUS
    <2> QED  BY <2>2, <2>3
  <1> QED  BY <1>5

\* S gives n steps on X; f is what they compute from x0 on.
Steps(S, n, X) == S \in [1..n -> [X -> X]]
Computes(f, x0, S, n, X) ==
    f \in [0..n -> X] /\ f[0] = x0 /\ \A k \in 1..n : f[k] = S[k][f[k - 1]]

\* A loop of n steps that starts from x0 has a value at every step.
LEMMA LoopExists ==
    ASSUME NEW n \in Nat, NEW X, NEW x0 \in X, NEW S, Steps(S, n, X)
    PROVE  \E f : Computes(f, x0, S, n, X)
  <1> USE DEF Steps
  <1> DEFINE To(m) == \E f \in [0..n -> X] :
                          f[0] = x0 /\ \A k \in 1..m : f[k] = S[k][f[k - 1]]
             I == {m \in 0..n : To(m)}
  <1>1. 0 \in I
    <2>1. PICK f \in [0..n -> X] : f = [i \in 0..n |-> x0]
      OBVIOUS
    <2>2. f[0] = x0 /\ \A k \in 1..0 : f[k] = S[k][f[k - 1]]
      BY <2>1
    <2> QED  BY <2>2
  <1>2. ASSUME NEW m \in 1..n, m - 1 \in I PROVE m \in I
    <2>1. PICK f \in [0..n -> X] : f[0] = x0 /\ \A k \in 1..m - 1 : f[k] = S[k][f[k - 1]]
      BY <1>2
    <2>2. PICK v \in X : v = S[m][f[m - 1]]
      OBVIOUS
    <2>3. PICK g \in [0..n -> X] : g = [f EXCEPT ![m] = v]
      OBVIOUS
    <2>4. g[0] = x0
      BY <2>1, <2>3
    <2>5. ASSUME NEW k \in 1..m PROVE g[k] = S[k][g[k - 1]]
      <3>1. k - 1 \in 0..n /\ k - 1 /= m /\ g[k - 1] = f[k - 1]
        BY <2>3
      <3>2. CASE k = m
        BY <2>2, <2>3, <3>1, <3>2
      <3>3. CASE k /= m
        <4>1. k \in 1..m - 1 /\ k \in 0..n
          BY <3>3
        <4>2. g[k] = f[k]
          BY <2>3, <3>3, <4>1
        <4> QED  BY <2>1, <3>1, <4>1, <4>2
      <3> QED  BY <3>2, <3>3
    <2>6. To(m)
      BY <2>4, <2>5
    <2> QED  BY <2>6
  <1>3. n \in I
    <2>1. I \in SUBSET (0..n)
      OBVIOUS
    <2> HIDE DEF I
    <2> QED  BY <1>1, <1>2, <2>1, Upward
  <1> QED  BY <1>3 DEF Computes

------------------------------------------------------------------------------
(* Sequences *)

\* A sequence of whatever entries.
IsSeq(q) == \E S : q \in Seq(S)

\* The indices of a sequence, and what is appended to it.
LEMMA SeqFacts ==
    ASSUME NEW q, IsSeq(q)
    PROVE  /\ Len(q) \in Nat /\ DOMAIN q = 1..Len(q)
           /\ \A x : /\ IsSeq(Append(q, x)) /\ DOMAIN Append(q, x) = 1..Len(q) + 1
                     /\ Append(q, x)[Len(q) + 1] = x
                     /\ \A i \in 1..Len(q) : Append(q, x)[i] = q[i]
  <1>1. PICK S : q \in Seq(S)
    BY DEF IsSeq
  <1>2. Len(q) \in Nat /\ DOMAIN q = 1..Len(q)
    BY <1>1
  <1>3. ASSUME NEW x
        PROVE  /\ IsSeq(Append(q, x)) /\ DOMAIN Append(q, x) = 1..Len(q) + 1
               /\ Append(q, x)[Len(q) + 1] = x
               /\ \A i \in 1..Len(q) : Append(q, x)[i] = q[i]
    <2>1. PICK T : T = S \cup {x}
      OBVIOUS
    <2>2. q \in Seq(T)
      BY <1>1, <2>1
    <2>3. x \in T
      BY <2>1
    <2>4. Append(q, x) \in Seq(T)
      BY <2>2, <2>3
    <2>5. IsSeq(Append(q, x))
      BY <2>4 DEF IsSeq
    <2>6. DOMAIN Append(q, x) = 1..Len(q) + 1
      BY <2>2, <2>3
    <2>7. Append(q, x)[Len(q) + 1] = x /\ \A i \in 1..Len(q) : Append(q, x)[i] = q[i]
      BY <2>2, <2>3, AppendProperties
    <2> QED  BY <2>5, <2>6, <2>7
  <1> QED  BY <1>2, <1>3

\* What is left of a sequence behind its head.
LEMMA TailFacts ==
    ASSUME NEW q, IsSeq(q), q /= <<>>
    PROVE  /\ Len(q) \in Nat \ {0} /\ DOMAIN q = 1..Len(q) /\ Head(q) = q[1]
           /\ IsSeq(Tail(q)) /\ DOMAIN Tail(q) = 1..Len(q) - 1
           /\ \A i \in 1..Len(q) - 1 : Tail(q)[i] = q[i + 1]
  <1>1. PICK S : q \in Seq(S)
    BY DEF IsSeq
  <1>2. Len(q) \in Nat \ {0} /\ DOMAIN q = 1..Len(q) /\ Head(q) = q[1]
    BY <1>1
  <1>3. Tail(q) \in Seq(S) /\ Len(Tail(q)) = Len(q) - 1
    BY <1>1
  <1>4. \A i \in 1..Len(q) - 1 : Tail(q)[i] = q[i + 1]
    BY <1>1
  <1>5. DOMAIN Tail(q) = 1..Len(q) - 1
    BY <1>3
  <1> QED  BY <1>2, <1>3, <1>4, <1>5 DEF IsSeq

\* A function on 1..n is a sequence.
LEMMA FunctionIsSeq ==
    ASSUME NEW n \in Nat, NEW f, f = [i \in 1..n |-> f[i]]
    PROVE  IsSeq(f)
  <1>1. PICK T : T = {f[i] : i \in 1..n}
    OBVIOUS
  <1>2. f \in [1..n -> T]
    BY <1>1
  <1>3. f \in Seq(T)
    BY <1>2
  <1> QED  BY <1>3 DEF IsSeq

------------------------------------------------------------------------------
(* Keeping *)

\* One step of Keeping.
KeepStep(seq, xs, f, i) == IF i = 0 THEN <<>>
                           ELSE IF seq[i] \in xs THEN Append(f[i - 1], seq[i]) ELSE f[i - 1]

\* f is the function that Keeping recurs with.
Keeps(seq, xs, f) == f = [i \in 0..Len(seq) |-> KeepStep(seq, xs, f, i)]

\* The function that Keeping recurs with exists.
LEMMA KeepsExists ==
    ASSUME NEW S, NEW seq \in Seq(S), NEW xs
    PROVE  \E f : Keeps(seq, xs, f)
  <1>1. PICK n \in Nat : n = Len(seq)
    OBVIOUS
  <1> DEFINE To(m) == \E f : /\ f = [i \in 0..n |-> f[i]]
                             /\ \A i \in 0..m : f[i] = KeepStep(seq, xs, f, i)
             I == {m \in 0..n : To(m)}
  <1>2. 0 \in I
    <2>1. PICK f : f = [i \in 0..n |-> <<>>]
      OBVIOUS
    <2>2. \A i \in 0..0 : f[i] = KeepStep(seq, xs, f, i)
      BY <2>1 DEF KeepStep
    <2>3. f = [i \in 0..n |-> f[i]]
      BY <2>1
    <2>4. To(0)
      BY <2>2, <2>3
    <2> QED  BY <2>4
  <1>3. ASSUME NEW m \in 1..n, m - 1 \in I PROVE m \in I
    <2>1. PICK f : f = [i \in 0..n |-> f[i]] /\ \A i \in 0..m - 1 : f[i] = KeepStep(seq, xs, f, i)
      BY <1>3
    <2>2. PICK g : g = [i \in 0..n |-> IF i = m THEN KeepStep(seq, xs, f, m) ELSE f[i]]
      OBVIOUS
    <2>3. ASSUME NEW i \in 0..m PROVE g[i] = KeepStep(seq, xs, g, i)
      <3>1. i = 0 \/ g[i - 1] = f[i - 1]
        BY <2>2
      <3>2. KeepStep(seq, xs, g, i) = KeepStep(seq, xs, f, i)
        BY <3>1 DEF KeepStep
      <3>3. g[i] = KeepStep(seq, xs, f, i)
        <4>1. CASE i = m
          BY <2>2, <4>1
        <4>2. CASE i /= m
          <5>1. i \in 0..m - 1 /\ i \in 0..n
            BY <4>2
          <5> QED  BY <2>1, <2>2, <4>2, <5>1
        <4> QED  BY <4>1, <4>2
      <3> QED  BY <3>2, <3>3
    <2>4. g = [i \in 0..n |-> g[i]]
      BY <2>2
    <2>5. To(m)
      BY <2>3, <2>4
    <2> QED  BY <2>5
  <1>4. n \in I
    <2>1. I \in SUBSET (0..n)
      OBVIOUS
    <2> HIDE DEF I
    <2> QED  BY <1>2, <1>3, <2>1, Upward
  <1>5. PICK f : f = [i \in 0..n |-> f[i]] /\ \A i \in 0..n : f[i] = KeepStep(seq, xs, f, i)
    BY <1>4
  <1>6. f = [i \in 0..Len(seq) |-> KeepStep(seq, xs, f, i)]
    BY <1>1, <1>5, Zenon
  <1> QED  BY <1>6 DEF Keeps

\* Keeping is that function at the end.
LEMMA KeepingIs ==
    ASSUME NEW S, NEW seq \in Seq(S), NEW xs
    PROVE  \E f : Keeps(seq, xs, f) /\ Keeping(seq, xs) = f[Len(seq)]
  <1> DEFINE kept[i \in 0..Len(seq)] == IF i = 0 THEN <<>>
                                        ELSE IF seq[i] \in xs THEN Append(kept[i - 1], seq[i])
                                        ELSE kept[i - 1]
  <1>1. \E f : f = [i \in 0..Len(seq) |-> IF i = 0 THEN <<>>
                                          ELSE IF seq[i] \in xs THEN Append(f[i - 1], seq[i])
                                          ELSE f[i - 1]]
    BY KeepsExists, Zenon DEF Keeps, KeepStep
  <1>2. kept = [i \in 0..Len(seq) |-> IF i = 0 THEN <<>>
                                      ELSE IF seq[i] \in xs THEN Append(kept[i - 1], seq[i])
                                      ELSE kept[i - 1]]
    BY <1>1, Zenon
  <1>3. Keeping(seq, xs) = kept[Len(seq)]
    BY Zenon DEF Keeping
  <1> HIDE DEF kept
  <1>4. Keeps(seq, xs, kept)
    BY <1>2, Zenon DEF Keeps, KeepStep
  <1> QED  BY <1>3, <1>4

\* No entry occurs twice.
Once(q) == \A i, j \in DOMAIN q : q[i] = q[j] => i = j

\* What is kept of a sequence without repetitions: the entries in xs, once each.
LEMMA KeepingProps ==
    ASSUME NEW S, NEW seq \in Seq(S), NEW xs, Once(seq)
    PROVE  /\ Keeping(seq, xs) \in Seq(S) /\ Once(Keeping(seq, xs))
           /\ Range(Keeping(seq, xs)) = Range(seq) \cap xs
  <1>1. PICK f : Keeps(seq, xs, f) /\ Keeping(seq, xs) = f[Len(seq)]
    BY KeepingIs
  <1>2. PICK n \in Nat : n = Len(seq) /\ DOMAIN seq = 1..n
    OBVIOUS
  <1>3. \A i \in 0..n : f[i] = KeepStep(seq, xs, f, i)
    BY <1>1, <1>2 DEF Keeps
  <1> DEFINE P(W, i) == /\ W \in Seq(S) /\ Once(W)
                        /\ \A x \in S : (\E k \in 1..Len(W) : W[k] = x)
                                         <=> (x \in xs /\ \E j \in 1..i : seq[j] = x)
             I == {i \in 0..n : P(f[i], i)}
  <1>4. 0 \in I
    <2>1. f[0] = <<>>
      BY <1>3 DEF KeepStep
    <2>2. P(<<>>, 0)
      BY DEF Once
    <2>3. P(f[0], 0)
      BY <2>1, <2>2, Zenon
    <2> QED  BY <2>3
  <1>5. ASSUME NEW i \in 1..n, i - 1 \in I PROVE i \in I
    <2>1. PICK W \in Seq(S) : W = f[i - 1] /\ P(W, i - 1)
      BY <1>5
    <2>2. f[i] = IF seq[i] \in xs THEN Append(W, seq[i]) ELSE W
      BY <1>3, <1>5, <2>1 DEF KeepStep
    <2>3. PICK a \in S : a = seq[i]
      BY <1>2
    <2>4. CASE a \notin xs
      <3>1. f[i] = W
        BY <2>2, <2>3, <2>4
      <3>2. P(W, i)
        <4>1. ASSUME NEW x \in S, x \in xs PROVE (\E j \in 1..i - 1 : seq[j] = x) <=> (\E j \in 1..i : seq[j] = x)
          BY <2>3, <2>4, <4>1
        <4> QED  BY <2>1, <4>1
      <3> QED  BY <3>1, <3>2
    <2>5. CASE a \in xs
      <3>1. PICK V : V = Append(W, a)
        OBVIOUS
      <3>2. f[i] = V
        BY <2>2, <2>3, <2>5, <3>1
      <3>3. PICK m \in Nat : m = Len(W) /\ DOMAIN W = 1..m
        OBVIOUS
      <3>4. V \in Seq(S) /\ Len(V) = m + 1 /\ V[m + 1] = a /\ DOMAIN V = 1..m + 1
        BY <3>1, <3>3
      <3>5. \A k \in 1..m : V[k] = W[k]
        BY <3>1, <3>3
      <3>6. ~\E k \in 1..m : W[k] = a
        <4>1. ~\E j \in 1..i - 1 : seq[j] = a
          <5>1. ASSUME NEW j \in 1..i - 1, seq[j] = a PROVE FALSE
            <6>1. j \in DOMAIN seq /\ i \in DOMAIN seq /\ j /= i
              BY <1>2
            <6> QED  BY <2>3, <5>1, <6>1 DEF Once
          <5> QED  BY <5>1
        <4> QED  BY <2>1, <3>3, <4>1
      <3>7. Once(V)
        <4>1. ASSUME NEW k \in 1..m + 1, NEW l \in 1..m + 1, V[k] = V[l] PROVE k = l
          <5>1. CASE k \in 1..m /\ l \in 1..m
            BY <2>1, <3>3, <3>5, <4>1, <5>1 DEF Once
          <5>2. CASE k = m + 1 /\ l \in 1..m
            BY <3>4, <3>5, <3>6, <4>1, <5>2
          <5>3. CASE k \in 1..m /\ l = m + 1
            BY <3>4, <3>5, <3>6, <4>1, <5>3
          <5> QED  BY <5>1, <5>2, <5>3
        <4> QED  BY <3>4, <4>1 DEF Once
      <3>8. ASSUME NEW x \in S
            PROVE  (\E k \in 1..Len(V) : V[k] = x) <=> (x \in xs /\ \E j \in 1..i : seq[j] = x)
        <4>1. CASE x = a
          <5>1. m + 1 \in 1..Len(V)
            BY <3>4
          <5>2. i \in 1..i
            OBVIOUS
          <5> QED  BY <2>3, <2>5, <3>4, <4>1, <5>1, <5>2
        <4>2. CASE x /= a
          <5>1. (\E k \in 1..Len(V) : V[k] = x) <=> (\E k \in 1..m : W[k] = x)
            BY <3>4, <3>5, <4>2
          <5>2. (\E j \in 1..i : seq[j] = x) <=> (\E j \in 1..i - 1 : seq[j] = x)
            BY <2>3, <4>2
          <5> QED  BY <2>1, <3>3, <5>1, <5>2
        <4> QED  BY <4>1, <4>2
      <3>9. P(V, i)
        BY <3>4, <3>7, <3>8
      <3>10. P(f[i], i)
        BY <3>2, <3>9, Zenon
      <3> QED  BY <3>10
    <2> QED  BY <2>4, <2>5
  <1>6. n \in I
    <2>1. I \in SUBSET (0..n)
      OBVIOUS
    <2> HIDE DEF I
    <2> QED  BY <1>4, <1>5, <2>1, Upward
  <1>7. PICK W \in Seq(S) : W = Keeping(seq, xs) /\ P(W, n)
    BY <1>1, <1>2, <1>6
  <1>8. DOMAIN W = 1..Len(W)
    OBVIOUS
  <1>9. Range(W) = Range(seq) \cap xs
    <2>1. ASSUME NEW x \in Range(W) PROVE x \in Range(seq) \cap xs
      <3>1. PICK k \in 1..Len(W) : W[k] = x
        BY <1>8, <2>1 DEF Range
      <3>2. x \in S
        BY <3>1
      <3> QED  BY <1>2, <1>7, <3>1, <3>2 DEF Range
    <2>2. ASSUME NEW x \in Range(seq), x \in xs PROVE x \in Range(W)
      <3>1. PICK j \in 1..n : seq[j] = x
        BY <1>2, <2>2 DEF Range
      <3>2. x \in S
        BY <1>2, <3>1
      <3>3. PICK k \in 1..Len(W) : W[k] = x
        BY <1>7, <2>2, <3>1, <3>2
      <3> QED  BY <1>8, <3>3 DEF Range
    <2> QED  BY <2>1, <2>2
  <1> QED  BY <1>7, <1>9
==============================================================================
