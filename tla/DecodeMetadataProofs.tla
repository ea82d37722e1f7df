------------------------ MODULE DecodeMetadataProofs -------------------------
(***************************************************************************)
(* Proofs about DecodeMetadata for every pool, set of slots and batch: the *)
(* copy of the page tables that decode attention reads is the one that a   *)
(* rebuild would give.  The offsets of a batch are sums of table lengths,  *)
(* so a position of the copy belongs to one request (Offsets); the splice  *)
(* is correct because segments only move to the right and are taken from   *)
(* the back (SpliceMoves).                                                 *)
(***************************************************************************)
EXTENDS DecodeMetadata, PagedKVProofs, Induction

------------------------------------------------------------------------------
(* Offsets *)

\* The offsets of n segments that lie one behind the other.
Offsets(p, n) == /\ p \in [1..n + 1 -> Nat] /\ p[1] = 0
                 /\ \A i \in 1..n : p[i] <= p[i + 1]

\* Later segments begin later.
LEMMA OffsetsOrder ==
    ASSUME NEW n \in Nat, NEW p, Offsets(p, n),
           NEW i \in 1..n + 1, NEW j \in 1..n + 1, i <= j
    PROVE  p[i] <= p[j]
  <1>1. PICK d \in Nat : d = j - i
    OBVIOUS
  <1> DEFINE I == {e \in 0..d : p[i] <= p[i + e]}
  <1>2. 0 \in I
    BY DEF Offsets
  <1>3. ASSUME NEW e \in 1..d, e - 1 \in I PROVE e \in I
    <2>1. i + (e - 1) \in 1..n /\ (i + (e - 1)) + 1 = i + e /\ i + e \in 1..n + 1
      BY <1>1
    <2>2. p[i + (e - 1)] <= p[i + e]
      BY <2>1 DEF Offsets
    <2>3. p[i] \in Nat /\ p[i + (e - 1)] \in Nat /\ p[i + e] \in Nat
      BY <2>1 DEF Offsets
    <2> QED  BY <1>3, <2>2, <2>3
  <1>4. d \in I
    <2>1. I \in SUBSET (0..d)
      OBVIOUS
    <2> HIDE DEF I
    <2> QED  BY <1>2, <1>3, <2>1, Upward
  <1> QED  BY <1>1, <1>4

\* Every position lies in a segment.
LEMMA OffsetsCover ==
    ASSUME NEW n \in Nat, NEW p, Offsets(p, n), NEW k \in 1..p[n + 1]
    PROVE  \E i \in 1..n : p[i] < k /\ k <= p[i + 1]
  <1>1. PICK T : T = {j \in 1..n + 1 : k <= p[j]}
    OBVIOUS
  <1>2. n + 1 \in T /\ T \in SUBSET Nat
    BY <1>1 DEF Offsets
  <1>3. PICK j \in T : \A l \in T : j <= l
    BY <1>2, HasLeast
  <1>4. j /= 1
    BY <1>1, <1>3 DEF Offsets
  <1>5. j \in 1..n + 1 /\ j - 1 \in 1..n /\ (j - 1) + 1 = j
    BY <1>1, <1>4
  <1>6. j - 1 \notin T
    BY <1>3, <1>5
  <1>7. p[j - 1] \in Nat
    BY <1>5 DEF Offsets
  <1>8. p[j - 1] < k
    BY <1>1, <1>5, <1>6, <1>7
  <1>9. k <= p[(j - 1) + 1]
    BY <1>1, <1>5
  <1> QED  BY <1>5, <1>8, <1>9

\* Segments that are nowhere shorter end nowhere earlier.
LEMMA OffsetsGrow ==
    ASSUME NEW n \in Nat, NEW q, NEW r, Offsets(q, n), Offsets(r, n),
           \A i \in 1..n : Width(q, i) <= Width(r, i)
    PROVE  \A i \in 1..n + 1 : q[i] <= r[i]
  <1> DEFINE I == {e \in 0..n : q[e + 1] <= r[e + 1]}
  <1>1. 0 \in I
    BY DEF Offsets
  <1>2. ASSUME NEW e \in 1..n, e - 1 \in I PROVE e \in I
    <2>1. q[e] \in Nat /\ r[e] \in Nat /\ q[e + 1] \in Nat /\ r[e + 1] \in Nat
      BY DEF Offsets
    <2>2. q[e] <= r[e]
      BY <1>2
    <2>3. q[e + 1] - q[e] <= r[e + 1] - r[e]
      BY DEF Width
    <2> QED  BY <2>1, <2>2, <2>3
  <1>3. ASSUME NEW m \in 0..n PROVE m \in I
    <2>1. PICK J \in SUBSET (0..m) : J = I \cap (0..m)
      OBVIOUS
    <2>2. 0 \in J
      BY <1>1, <2>1
    <2>3. ASSUME NEW e \in 1..m, e - 1 \in J PROVE e \in J
      <3>1. e \in 1..n /\ e - 1 \in I
        BY <2>1, <2>3
      <3>2. e \in I
        BY <1>2, <3>1
      <3> QED  BY <2>1, <3>2
    <2>4. m \in J
      BY <2>2, <2>3, Upward
    <2> QED  BY <2>1, <2>4
  <1>4. ASSUME NEW i \in 1..n + 1 PROVE q[i] <= r[i]
    <2>1. i - 1 \in 0..n /\ (i - 1) + 1 = i
      OBVIOUS
    <2>2. i - 1 \in I
      BY <1>3, <2>1
    <2> QED  BY <2>1, <2>2
  <1> QED  BY <1>4
------------------------------------------------------------------------------
(* The copy a rebuild gives *)

\* The offsets that fill_indptr computes are sums of table lengths.
LEMMA IndptrIs ==
    ASSUME table \in [Slots -> Seq(Pages)], NEW b \in Seq(Slots)
    PROVE  /\ Offsets(build_indptr(b), Len(b))
           /\ \A i \in 1..Len(b) : build_indptr(b)[i + 1] = build_indptr(b)[i] + Len(table[b[i]])
  <1>1. PICK n \in Nat : n = Len(b)
    OBVIOUS
  <1>2. \A k \in 1..n : Len(table[b[k]]) \in Nat
    BY <1>1
  <1>3. PICK S \in [1..n -> [Nat -> Nat]] :
            \A k \in 1..n : \A x \in Nat : S[k][x] = x + Len(table[b[k]])
    <2>1. PICK S : S = [k \in 1..n |-> [x \in Nat |-> x + Len(table[b[k]])]]
      OBVIOUS
    <2>2. ASSUME NEW k \in 1..n
          PROVE  S[k] \in [Nat -> Nat] /\ \A x \in Nat : S[k][x] = x + Len(table[b[k]])
      <3>1. PICK w \in Nat : w = Len(table[b[k]])
        BY <1>2
      <3>2. S[k] = [x \in Nat |-> x + w]
        BY <2>1, <3>1
      <3>3. [x \in Nat |-> x + w] \in [Nat -> Nat]
        OBVIOUS
      <3> QED  BY <3>1, <3>2, <3>3
    <2>3. S \in [1..n -> [Nat -> Nat]]
      BY <2>1, <2>2
    <2> QED  BY <2>2, <2>3
  <1>4. PICK f \in [0..n -> Nat] : f[0] = 0 /\ \A k \in 1..n : f[k] = S[k][f[k - 1]]
    <2>1. 0 \in Nat /\ Steps(S, n, Nat)
      BY DEF Steps
    <2>2. PICK f : Computes(f, 0, S, n, Nat)
      BY <2>1, LoopExists
    <2> QED  BY <2>2 DEF Computes
  <1>5. \A k \in 1..n : f[k] = f[k - 1] + Len(table[b[k]])
    <2>1. ASSUME NEW k \in 1..n PROVE f[k] = f[k - 1] + Len(table[b[k]])
      <3>1. f[k - 1] \in Nat
        OBVIOUS
      <3> QED  BY <1>3, <1>4, <3>1
    <2> QED  BY <2>1
  <1>6. f = [k \in 0..Len(b) |-> IF k = 0 THEN 0 ELSE f[k - 1] + Len(table[b[k]])]
    BY <1>1, <1>4, <1>5
  <1> DEFINE at[k \in 0..Len(b)] == IF k = 0 THEN 0 ELSE at[k - 1] + Len(table[b[k]])
  <1>7. at = [k \in 0..Len(b) |-> IF k = 0 THEN 0 ELSE at[k - 1] + Len(table[b[k]])]
    BY <1>6, Zenon
  <1>8. build_indptr(b) = [k \in 1..Len(b) + 1 |-> at[k - 1]]
    BY Zenon DEF build_indptr
  <1> HIDE DEF at
  <1>9. PICK a : a = at
    OBVIOUS
  <1>10. a[0] = 0 /\ \A k \in 1..n : a[k] = a[k - 1] + Len(table[b[k]])
    <2>1. \A k \in 0..n : a[k] = IF k = 0 THEN 0 ELSE a[k - 1] + Len(table[b[k]])
      BY <1>1, <1>7, <1>9, Zenon
    <2>2. 0 \in 0..n /\ \A k \in 1..n : k \in 0..n /\ k /= 0
      OBVIOUS
    <2> QED  BY <2>1, <2>2, Zenon
  <1>11. \A k \in 0..n : a[k] \in Nat
    <2> DEFINE I == {k \in 0..n : a[k] \in Nat}
    <2>1. 0 \in I
      BY <1>10
    <2>2. ASSUME NEW k \in 1..n, k - 1 \in I PROVE k \in I
      <3>1. PICK w \in Nat : w = Len(table[b[k]])
        BY <1>2
      <3>2. PICK x \in Nat : x = a[k - 1]
        BY <2>2
      <3>3. a[k] = x + w
        BY <1>10, <3>1, <3>2, Zenon
      <3>4. a[k] \in Nat
        BY <3>3
      <3> QED  BY <3>4
    <2>3. ASSUME NEW m \in 0..n PROVE m \in I
      <3>1. PICK J \in SUBSET (0..m) : J = I \cap (0..m)
        OBVIOUS
      <3>2. 0 \in J
        BY <2>1, <3>1
      <3>3. ASSUME NEW e \in 1..m, e - 1 \in J PROVE e \in J
        <4>1. e \in 1..n /\ e - 1 \in I
          BY <3>1, <3>3
        <4>2. e \in I
          BY <2>2, <4>1
        <4> QED  BY <3>1, <4>2
      <3>4. m \in J
        <4>1. m \in Nat
          OBVIOUS
        <4> QED  BY <3>2, <3>3, <4>1, Upward, Zenon
      <3> QED  BY <3>1, <3>4
    <2> QED  BY <2>3
  <1>12. PICK p : p = build_indptr(b)
    OBVIOUS
  <1>13. p = [k \in 1..n + 1 |-> a[k - 1]]
    BY <1>1, <1>8, <1>9, <1>12
  <1>14. p \in [1..n + 1 -> Nat] /\ p[1] = 0
    BY <1>10, <1>11, <1>13
  <1>15. ASSUME NEW i \in 1..n PROVE p[i + 1] = p[i] + Len(table[b[i]]) /\ p[i] <= p[i + 1]
    <2>1. i \in 1..n + 1 /\ i + 1 \in 1..n + 1 /\ (i + 1) - 1 = i
      OBVIOUS
    <2>2. p[i] = a[i - 1] /\ p[i + 1] = a[(i + 1) - 1]
      BY <1>13, <2>1, Zenon
    <2>3. p[i + 1] = p[i] + Len(table[b[i]])
      BY <1>10, <2>1, <2>2
    <2>4. PICK w \in Nat : w = Len(table[b[i]])
      BY <1>2
    <2>5. PICK x \in Nat : x = p[i]
      BY <1>14, <2>1
    <2>6. p[i + 1] = x + w
      BY <2>3, <2>4, <2>5, Zenon
    <2>7. x <= x + w
      OBVIOUS
    <2> QED  BY <2>3, <2>5, <2>6, <2>7
  <1> QED  BY <1>1, <1>12, <1>14, <1>15 DEF Offsets

\* F lists, from each offset on, the pages of the request.
Lists(F, p, b) ==
    \A i \in 1..Len(b) : \A k \in 1..Len(table[b[i]]) : F[p[i] + k] = table[b[i]][k]

\* D is a list of n entries, of whatever kind.
Covers(D, n) == D = [k \in 1..n |-> D[k]]

\* What flatten_page_indices returns.
LEMMA FlattenIs ==
    ASSUME table \in [Slots -> Seq(Pages)], NEW b \in Seq(Slots), b /= << >>,
           NEW p, p = build_indptr(b)
    PROVE  /\ flatten_page_indices(b) \in Seq(Pages)
           /\ Len(flatten_page_indices(b)) = p[Len(b) + 1]
           /\ Lists(flatten_page_indices(b), p, b)
  <1>1. PICK n \in Nat \ {0} : n = Len(b)
    OBVIOUS
  <1>2. PICK W : W = [i \in DOMAIN b |-> table[b[i]]]
    OBVIOUS
  <1>3. /\ W \in [1..n -> Seq(Pages)] /\ W \in Seq(Seq(Pages)) /\ Len(W) = n
        /\ \A i \in 1..n : W[i] = table[b[i]]
    <2>1. DOMAIN b = 1..n /\ \A i \in 1..n : table[b[i]] \in Seq(Pages)
      BY <1>1
    <2>2. W \in [1..n -> Seq(Pages)] /\ \A i \in 1..n : W[i] = table[b[i]]
      BY <1>2, <2>1
    <2> QED  BY <2>2
  <1>4. Offsets(p, n) /\ \A i \in 1..n : p[i + 1] = p[i] + Len(W[i])
    <2>1. Offsets(p, n) /\ \A i \in 1..n : p[i + 1] = p[i] + Len(table[b[i]])
      BY <1>1, IndptrIs
    <2> QED  BY <1>3, <2>1
  <1>5. PICK S \in [1..n -> [Seq(Pages) -> Seq(Pages)]] :
            \A k \in 1..n : \A x \in Seq(Pages) : S[k][x] = x \o W[k]
    <2>1. PICK S : S = [k \in 1..n |-> [x \in Seq(Pages) |-> x \o W[k]]]
      OBVIOUS
    <2>2. ASSUME NEW k \in 1..n
          PROVE  S[k] \in [Seq(Pages) -> Seq(Pages)] /\ \A x \in Seq(Pages) : S[k][x] = x \o W[k]
      <3>1. PICK w \in Seq(Pages) : w = W[k]
        BY <1>3
      <3>2. S[k] = [x \in Seq(Pages) |-> x \o w]
        BY <2>1, <3>1
      <3>3. \A x \in Seq(Pages) : x \o w \in Seq(Pages)
        OBVIOUS
      <3>4. [x \in Seq(Pages) |-> x \o w] \in [Seq(Pages) -> Seq(Pages)]
        BY <3>3, Zenon
      <3> QED  BY <3>1, <3>2, <3>4
    <2>3. S \in [1..n -> [Seq(Pages) -> Seq(Pages)]]
      BY <2>1, <2>2
    <2> QED  BY <2>2, <2>3
  <1>6. PICK g \in [0..n -> Seq(Pages)] :
            g[0] = << >> /\ \A k \in 1..n : g[k] = S[k][g[k - 1]]
    <2>1. << >> \in Seq(Pages) /\ n \in Nat /\ Steps(S, n, Seq(Pages))
      BY DEF Steps
    <2>2. PICK g : Computes(g, << >>, S, n, Seq(Pages))
      BY <2>1, LoopExists
    <2> QED  BY <2>2 DEF Computes
  <1>7. \A k \in 1..n : g[k] = g[k - 1] \o W[k]
    <2>1. ASSUME NEW k \in 1..n PROVE g[k] = g[k - 1] \o W[k]
      <3>1. g[k - 1] \in Seq(Pages)
        OBVIOUS
      <3> QED  BY <1>5, <1>6, <3>1
    <2> QED  BY <2>1
  <1>8. g[1] = W[1]
    <2>1. 1 \in 1..n /\ 1 - 1 = 0
      OBVIOUS
    <2>2. g[1] = g[0] \o W[1]
      BY <1>7, <2>1, Zenon
    <2>3. PICK w \in Seq(Pages) : w = W[1]
      BY <1>3, <2>1, Zenon
    <2>4. << >> \o w = w
      OBVIOUS
    <2> QED  BY <1>6, <2>2, <2>3, <2>4, Zenon
  <1>9. PICK f : f = [i \in 1..n |-> g[i]]
    OBVIOUS
  <1>10. \A i \in 1..n : f[i] = IF i = 1 THEN W[i] ELSE f[i - 1] \o W[i]
    <2>1. ASSUME NEW i \in 1..n PROVE f[i] = IF i = 1 THEN W[i] ELSE f[i - 1] \o W[i]
      <3>1. CASE i = 1
        BY <1>8, <1>9, <3>1
      <3>2. CASE i /= 1
        <4>1. i - 1 \in 1..n
          BY <3>2
        <4> QED  BY <1>7, <1>9, <3>2, <4>1
      <3> QED  BY <3>1, <3>2
    <2> QED  BY <2>1
  <1>11. f = [i \in 1..Len(W) |-> IF i = 1 THEN W[i] ELSE f[i - 1] \o W[i]]
    <2>1. DOMAIN f = 1..n /\ f = [i \in 1..n |-> f[i]]
      BY <1>9
    <2> QED  BY <1>3, <1>10, <2>1, Zenon
  <1> DEFINE flatten[i \in 1..Len(W)] == IF i = 1 THEN W[i] ELSE flatten[i - 1] \o W[i]
  <1>12. flatten = [i \in 1..Len(W) |-> IF i = 1 THEN W[i] ELSE flatten[i - 1] \o W[i]]
    BY <1>11, Zenon
  <1>13. FlattenSeq(W) = flatten[Len(W)]
    <2>1. Len(W) /= 0
      BY <1>3
    <2> QED  BY <2>1, Zenon DEF FlattenSeq
  <1> HIDE DEF flatten
  <1>14. PICK h : h = flatten
    OBVIOUS
  <1>15. h[1] = W[1] /\ \A k \in 2..n : h[k] = h[k - 1] \o W[k]
    <2>1. \A k \in 1..n : h[k] = IF k = 1 THEN W[k] ELSE h[k - 1] \o W[k]
      BY <1>3, <1>12, <1>14, Zenon
    <2>2. 1 \in 1..n /\ \A k \in 2..n : k \in 1..n /\ k /= 1
      OBVIOUS
    <2> QED  BY <2>1, <2>2, Zenon
  <1> DEFINE Upto(F, m) ==
                 /\ F \in Seq(Pages) /\ Len(F) = p[m + 1]
                 /\ \A i \in 1..m : \A k \in 1..Len(W[i]) : F[p[i] + k] = W[i][k]
             I == {m \in 0..n : m = 0 \/ Upto(h[m], m)}
  <1>16. 0 \in I
    OBVIOUS
  <1>17. ASSUME NEW m \in 1..n, m - 1 \in I PROVE m \in I
    <2>1. CASE m = 1
      <3>1. h[1] \in Seq(Pages) /\ Len(h[1]) = p[1 + 1]
        <4>1. 1 \in 1..n /\ W[1] \in Seq(Pages) /\ p[1] = 0
          BY <1>3, <1>4 DEF Offsets
        <4>2. p[1 + 1] = 0 + Len(W[1])
          BY <1>4, <4>1, Zenon
        <4> QED  BY <1>15, <4>1, <4>2
      <3>2. \A k \in 1..Len(W[1]) : h[1][p[1] + k] = W[1][k]
        BY <1>4, <1>15 DEF Offsets
      <3>3. Upto(h[1], 1)
        BY <3>1, <3>2
      <3> QED  BY <2>1, <3>3
    <2>2. CASE m /= 1
      <3>1. PICK F \in Seq(Pages) : F = h[m - 1] /\ Upto(F, m - 1)
        <4>1. m - 1 /= 0
          BY <2>2
        <4>2. Upto(h[m - 1], m - 1)
          BY <1>17, <4>1
        <4> QED  BY <4>2
      <3>2. PICK G \in Seq(Pages) : G = W[m]
        BY <1>3
      <3>3. h[m] = F \o G
        <4>1. m \in 2..n
          BY <2>2
        <4> QED  BY <1>15, <3>1, <3>2, <4>1
      <3>4. p[m] \in Nat /\ Len(F) = p[m] /\ p[m + 1] = p[m] + Len(G)
        BY <1>4, <3>1, <3>2 DEF Offsets
      <3>5. /\ F \o G \in Seq(Pages) /\ Len(F \o G) = p[m + 1]
            /\ \A k \in 1..p[m] : (F \o G)[k] = F[k]
            /\ \A k \in 1..Len(G) : (F \o G)[p[m] + k] = G[k]
        <4>1. F \o G \in Seq(Pages) /\ Len(F \o G) = Len(F) + Len(G)
          OBVIOUS
        <4>2. \A k \in 1..Len(F) : (F \o G)[k] = F[k]
          OBVIOUS
        <4>3. \A k \in 1..Len(G) : (F \o G)[Len(F) + k] = G[k]
          OBVIOUS
        <4> QED  BY <3>4, <4>1, <4>2, <4>3
      <3>6. ASSUME NEW i \in 1..m, NEW k \in 1..Len(W[i]) PROVE (F \o G)[p[i] + k] = W[i][k]
        <4>1. CASE i = m
          BY <3>2, <3>5, <3>6, <4>1
        <4>2. CASE i /= m
          <5>1. i \in 1..m - 1 /\ i + 1 \in 1..n + 1 /\ m \in 1..n + 1 /\ i + 1 <= m
            BY <4>2
          <5>2. p[i + 1] <= p[m]
            BY <1>4, <5>1, OffsetsOrder
          <5>3. p[i] \in Nat /\ p[i + 1] = p[i] + Len(W[i]) /\ Len(W[i]) \in Nat
            BY <1>3, <1>4, <5>1 DEF Offsets
          <5>4. p[i] + k \in 1..p[m]
            <6>1. PICK x, y, z, l : x = p[i] /\ y = p[i + 1] /\ z = p[m] /\ l = Len(W[i])
              OBVIOUS
            <6>2. x \in Nat /\ l \in Nat /\ y = x + l /\ y <= z /\ z \in Nat /\ k \in 1..l
              BY <3>4, <3>6, <5>2, <5>3, <6>1
            <6>3. x + k \in 1..z
              BY <6>2
            <6> QED  BY <6>1, <6>3
          <5>5. (F \o G)[p[i] + k] = F[p[i] + k]
            BY <3>5, <5>4
          <5> QED  BY <3>1, <5>1, <5>5
        <4> QED  BY <4>1, <4>2
      <3>7. Upto(F \o G, m)
        BY <3>5, <3>6
      <3>8. Upto(h[m], m)
        BY <3>3, <3>7, Zenon
      <3> QED  BY <3>8
    <2> QED  BY <2>1, <2>2
  <1>18. n \in I
    <2>1. I \in SUBSET (0..n)
      OBVIOUS
    <2> HIDE DEF I
    <2> QED  BY <1>16, <1>17, <2>1, Upward
  <1>19. Upto(h[n], n)
    BY <1>18
  <1>20. flatten_page_indices(b) = h[n]
    BY <1>2, <1>3, <1>13, <1>14 DEF flatten_page_indices
  <1> QED  BY <1>1, <1>3, <1>19, <1>20 DEF Lists

\* Nothing else of that length lists the same pages.
LEMMA FlattenUnique ==
    ASSUME table \in [Slots -> Seq(Pages)], NEW b \in Seq(Slots), b /= << >>,
           NEW p, p = build_indptr(b),
           NEW D, Covers(D, p[Len(b) + 1]), Lists(D, p, b)
    PROVE  D = flatten_page_indices(b)
  <1>1. PICK n \in Nat : n = Len(b)
    OBVIOUS
  <1>2. PICK F \in Seq(Pages) : /\ F = flatten_page_indices(b) /\ Len(F) = p[n + 1]
                                /\ Lists(F, p, b)
    BY <1>1, FlattenIs
  <1>3. Offsets(p, n) /\ \A i \in 1..n : p[i + 1] = p[i] + Len(table[b[i]])
    BY <1>1, IndptrIs
  <1>4. ASSUME NEW k \in 1..p[n + 1] PROVE D[k] = F[k]
    <2>1. PICK i \in 1..n : p[i] < k /\ k <= p[i + 1]
      BY <1>3, OffsetsCover
    <2>2. p[i] \in Nat /\ p[i + 1] = p[i] + Len(table[b[i]]) /\ Len(table[b[i]]) \in Nat
      <3>1. table[b[i]] \in Seq(Pages)
        BY <1>1
      <3>2. Len(table[b[i]]) \in Nat
        BY <3>1
      <3>3. p[i] \in Nat
        BY <1>3 DEF Offsets
      <3> QED  BY <1>3, <3>2, <3>3, Zenon
    <2>3. PICK l \in 1..Len(table[b[i]]) : k = p[i] + l
      <3>1. PICK x, y, l : x = p[i] /\ y = p[i + 1] /\ l = Len(table[b[i]])
        OBVIOUS
      <3>2. x \in Nat /\ l \in Nat /\ y = x + l /\ x < k /\ k <= y
        BY <2>1, <2>2, <3>1
      <3>3. k \in Nat
        BY <1>3 DEF Offsets
      <3>4. k - x \in 1..l /\ k = x + (k - x)
        BY <3>2, <3>3
      <3> QED  BY <3>1, <3>4
    <2> QED  BY <1>1, <1>2, <2>3 DEF Lists
  <1>5. F = [k \in 1..p[n + 1] |-> F[k]]
    BY <1>2
  <1>6. D = [k \in 1..p[n + 1] |-> D[k]]
    BY <1>1 DEF Covers
  <1>7. D = [k \in 1..p[n + 1] |-> F[k]]
    BY <1>4, <1>6, Zenon
  <1> QED  BY <1>2, <1>5, <1>7, Zenon
------------------------------------------------------------------------------
(* The splice *)

\* One step of the splice, and the buffer it starts from.
MoveTo(buf, i, q, r, newest) ==
    [k \in DOMAIN buf |->
        IF k = r[i + 1] /\ Width(r, i) > Width(q, i) THEN newest[i]
        ELSE IF k > r[i] /\ k <= r[i] + Width(q, i)
             THEN buf[q[i] + (k - r[i])] ELSE buf[k]]
Resized(old, m) == [k \in 1..m |-> IF k <= Len(old) THEN old[k] ELSE old[1]]

\* f holds the buffers between the steps, from the back to the front.
Splices(f, old, n, q, r, newest) ==
    f = [i \in 1..n + 1 |-> IF i = n + 1 THEN Resized(old, r[n + 1])
                            ELSE MoveTo(f[i + 1], i, q, r, newest)]

\* The same for the copy at hand.
SplicedBy(f, old, r, newest) == Splices(f, old, Len(r) - 1, indptr, r, newest)

\* Splice is the last of those buffers.
LEMMA SpliceIs ==
    ASSUME NEW old, NEW r, NEW newest, NEW g, SplicedBy(g, old, r, newest)
    PROVE  \E f : SplicedBy(f, old, r, newest) /\ Splice(old, r, newest) = f[1]
  <1> DEFINE move(buf, i) ==
                 [k \in DOMAIN buf |->
                     IF k = r[i + 1] /\ Width(r, i) > Width(indptr, i) THEN newest[i]
                     ELSE IF k > r[i] /\ k <= r[i] + Width(indptr, i)
                          THEN buf[indptr[i] + (k - r[i])] ELSE buf[k]]
             m == Len(r) - 1
             resized == [k \in 1..r[m + 1] |-> IF k <= Len(old) THEN old[k] ELSE old[1]]
             after[i \in 1..m + 1] == IF i = m + 1 THEN resized ELSE move(after[i + 1], i)
  <1>1. Splice(old, r, newest) = after[1]
    BY Zenon DEF Splice
  <1>2. \E f : f = [i \in 1..m + 1 |-> IF i = m + 1 THEN resized ELSE move(f[i + 1], i)]
    <2>1. g = [i \in 1..m + 1 |-> IF i = m + 1 THEN resized ELSE move(g[i + 1], i)]
      BY Zenon DEF SplicedBy, Splices, MoveTo, Resized
    <2> QED  BY <2>1, Zenon
  <1>3. after = [i \in 1..m + 1 |-> IF i = m + 1 THEN resized ELSE move(after[i + 1], i)]
    BY <1>2, Zenon
  <1> HIDE DEF after
  <1>4. SplicedBy(after, old, r, newest)
    BY <1>3, Zenon DEF SplicedBy, Splices, MoveTo, Resized
  <1> QED  BY <1>1, <1>4
\* Each segment is as long as it was or one entry longer.
OneMore(q, r, n) ==
    /\ Offsets(q, n) /\ Offsets(r, n)
    /\ \A i \in 1..n : Width(r, i) = Width(q, i) \/ Width(r, i) = Width(q, i) + 1

\* Where the entries of segment i are and go.
LEMMA SegmentFacts ==
    ASSUME NEW n \in Nat, NEW q, NEW r, OneMore(q, r, n), NEW i \in 1..n
    PROVE  /\ q[i] \in Nat /\ q[i + 1] \in Nat /\ r[i] \in Nat /\ r[i + 1] \in Nat
           /\ r[n + 1] \in Nat /\ q[n + 1] \in Nat
           /\ Width(q, i) \in Nat /\ q[i + 1] = q[i] + Width(q, i)
           /\ Width(r, i) \in Nat /\ r[i + 1] = r[i] + Width(r, i)
           /\ q[i] <= r[i] /\ q[i + 1] <= r[i + 1]
           /\ q[i + 1] <= q[n + 1] /\ r[i + 1] <= r[n + 1]
  <1>1. i \in 1..n + 1 /\ i + 1 \in 1..n + 1 /\ n + 1 \in 1..n + 1 /\ i + 1 <= n + 1
    OBVIOUS
  <1>2. Offsets(q, n) /\ Offsets(r, n)
    BY DEF OneMore
  <1>3. /\ q[i] \in Nat /\ q[i + 1] \in Nat /\ r[i] \in Nat /\ r[i + 1] \in Nat
        /\ r[n + 1] \in Nat /\ q[n + 1] \in Nat /\ q[i] <= q[i + 1] /\ r[i] <= r[i + 1]
    BY <1>1, <1>2 DEF Offsets
  <1>4. q[i + 1] <= q[n + 1] /\ r[i + 1] <= r[n + 1]
    BY <1>1, <1>2, OffsetsOrder
  <1>5. \A j \in 1..n : Width(q, j) <= Width(r, j)
    <2>1. ASSUME NEW j \in 1..n PROVE Width(q, j) <= Width(r, j)
      <3>1. q[j] \in Nat /\ q[j + 1] \in Nat
        BY <1>2 DEF Offsets
      <3>2. Width(q, j) \in Int
        BY <3>1 DEF Width
      <3>3. Width(r, j) = Width(q, j) \/ Width(r, j) = Width(q, j) + 1
        BY DEF OneMore
      <3> QED  BY <3>2, <3>3
    <2> QED  BY <2>1
  <1>6. q[i] <= r[i] /\ q[i + 1] <= r[i + 1]
    BY <1>1, <1>2, <1>5, OffsetsGrow
  <1>7. /\ Width(q, i) \in Nat /\ q[i + 1] = q[i] + Width(q, i)
        /\ Width(r, i) \in Nat /\ r[i + 1] = r[i] + Width(r, i)
    BY <1>3 DEF Width
  <1> QED  BY <1>3, <1>4, <1>6, <1>7

\* The buffers of a splice exist.
LEMMA SplicesExist ==
    ASSUME NEW n \in Nat, NEW q, NEW r, OneMore(q, r, n), NEW old, NEW newest
    PROVE  \E f : Splices(f, old, n, q, r, newest)
  <1>1. PICK N \in Nat : N = r[n + 1]
    BY DEF OneMore, Offsets
  <1>2. PICK x0 : x0 = Resized(old, r[n + 1])
    OBVIOUS
  <1>3. PICK V : V = {x0[k] : k \in 1..N} \cup {newest[i] : i \in 1..n}
    OBVIOUS
  <1>4. PICK X : X = [1..N -> V]
    OBVIOUS
  <1>5. x0 \in X
    <2>1. x0 = [k \in 1..N |-> IF k <= Len(old) THEN old[k] ELSE old[1]]
      BY <1>1, <1>2, Zenon DEF Resized
    <2>2. x0 = [k \in 1..N |-> x0[k]]
      BY <2>1, Zenon
    <2>3. \A k \in 1..N : x0[k] \in V
      BY <1>3, Zenon
    <2> QED  BY <1>4, <2>2, <2>3, Zenon
  <1>6. ASSUME NEW buf \in X, NEW i \in 1..n PROVE MoveTo(buf, i, q, r, newest) \in X
    <2>1. PICK M : M = MoveTo(buf, i, q, r, newest)
      OBVIOUS
    <2>2. DOMAIN buf = 1..N /\ \A k \in 1..N : buf[k] \in V
      BY <1>4
    <2>3. newest[i] \in V
      BY <1>3, Zenon
    <2>4. ASSUME NEW k \in 1..N, k > r[i], k <= r[i] + Width(q, i)
          PROVE  q[i] + (k - r[i]) \in 1..N
      <3>1. PICK a, b, c, d, w : /\ a = q[i] /\ b = r[i] /\ c = q[i + 1] /\ d = r[i + 1]
                                 /\ w = Width(q, i)
        OBVIOUS
      <3>2. /\ a \in Nat /\ b \in Nat /\ c \in Nat /\ d \in Nat /\ w \in Nat
            /\ c = a + w /\ c <= d /\ d <= N
        BY <1>1, <3>1, SegmentFacts
      <3>3. k > b /\ k <= b + w
        BY <2>4, <3>1
      <3>4. a + (k - b) \in 1..N
        BY <3>2, <3>3
      <3> QED  BY <3>1, <3>4
    <2>5. M = [k \in 1..N |->
                 IF k = r[i + 1] /\ Width(r, i) > Width(q, i) THEN newest[i]
                 ELSE IF k > r[i] /\ k <= r[i] + Width(q, i)
                      THEN buf[q[i] + (k - r[i])] ELSE buf[k]]
      BY <2>1, <2>2, Zenon DEF MoveTo
    <2>6. ASSUME NEW k \in 1..N PROVE M[k] \in V
      BY <2>2, <2>3, <2>4, <2>5, Zenon
    <2>7. M = [k \in 1..N |-> M[k]]
      BY <2>5, Zenon
    <2> QED  BY <1>4, <2>1, <2>6, <2>7, Zenon
  <1>7. PICK S : S = [j \in 1..n |-> [buf \in X |-> MoveTo(buf, (n + 1) - j, q, r, newest)]]
    OBVIOUS
  <1>8. ASSUME NEW j \in 1..n
        PROVE  /\ S[j] \in [X -> X]
               /\ \A buf \in X : S[j][buf] = MoveTo(buf, (n + 1) - j, q, r, newest)
    <2>1. S[j] = [buf \in X |-> MoveTo(buf, (n + 1) - j, q, r, newest)]
      BY <1>7, Zenon
    <2>2. (n + 1) - j \in 1..n
      OBVIOUS
    <2>3. \A buf \in X : MoveTo(buf, (n + 1) - j, q, r, newest) \in X
      BY <1>6, <2>2, Zenon
    <2> QED  BY <2>1, <2>3, Zenon
  <1>9. Steps(S, n, X)
    <2>1. S = [j \in 1..n |-> S[j]]
      BY <1>7, Zenon
    <2> QED  BY <1>8, <2>1, Zenon DEF Steps
  <1>10. PICK f : Computes(f, x0, S, n, X)
    BY <1>5, <1>9, LoopExists
  <1>11. f[0] = x0 /\ \A k \in 0..n : f[k] \in X
    BY <1>10 DEF Computes
  <1>12. PICK g : g = [i \in 1..n + 1 |-> f[(n + 1) - i]]
    OBVIOUS
  <1>13. ASSUME NEW i \in 1..n + 1
         PROVE  g[i] = IF i = n + 1 THEN x0 ELSE MoveTo(g[i + 1], i, q, r, newest)
    <2>1. g[i] = f[(n + 1) - i]
      BY <1>12, Zenon
    <2>2. CASE i = n + 1
      <3>1. (n + 1) - i = 0
        BY <2>2
      <3> QED  BY <1>11, <2>1, <2>2, <3>1
    <2>3. CASE i /= n + 1
      <3>1. /\ (n + 1) - i \in 1..n /\ i + 1 \in 1..n + 1
            /\ ((n + 1) - i) - 1 = (n + 1) - (i + 1) /\ (n + 1) - (i + 1) \in 0..n
            /\ (n + 1) - ((n + 1) - i) = i
        BY <2>3
      <3>2. g[i + 1] = f[(n + 1) - (i + 1)]
        BY <1>12, <3>1, Zenon
      <3>3. g[i + 1] \in X
        BY <1>11, <3>1, <3>2, Zenon
      <3>4. f[(n + 1) - i] = S[(n + 1) - i][f[((n + 1) - i) - 1]]
        BY <1>10, <3>1, Zenon DEF Computes
      <3>5. f[(n + 1) - i] = S[(n + 1) - i][g[i + 1]]
        BY <3>1, <3>2, <3>4
      <3>6. S[(n + 1) - i][g[i + 1]] = MoveTo(g[i + 1], (n + 1) - ((n + 1) - i), q, r, newest)
        BY <1>8, <3>1, <3>3, Zenon
      <3>7. S[(n + 1) - i][g[i + 1]] = MoveTo(g[i + 1], i, q, r, newest)
        BY <3>1, <3>6, Zenon
      <3> QED  BY <2>1, <2>3, <3>5, <3>7, Zenon
    <2> QED  BY <2>2, <2>3
  <1>14. g = [i \in 1..n + 1 |-> g[i]]
    BY <1>12, Zenon
  <1>15. Splices(g, old, n, q, r, newest)
    BY <1>2, <1>13, <1>14, Zenon DEF Splices
  <1> QED  BY <1>15
\* In R, segment m of old stands at its new place, before its newest entry.
Arrived(R, old, m, q, r, newest) ==
    /\ \A k \in 1..Width(q, m) : R[r[m] + k] = old[q[m] + k]
    /\ Width(r, m) > Width(q, m) => R[r[m + 1]] = newest[m]

\* Segments only move to the right: taken from the back, each one is still in
\* its old place when its turn comes.
LEMMA SpliceMoves ==
    ASSUME NEW n \in Nat, NEW q, NEW r, OneMore(q, r, n), NEW old, NEW newest,
           Len(old) = q[n + 1], NEW f, Splices(f, old, n, q, r, newest)
    PROVE  Covers(f[1], r[n + 1]) /\ \A m \in 1..n : Arrived(f[1], old, m, q, r, newest)
  <1>1. PICK N \in Nat : N = r[n + 1]
    BY DEF OneMore, Offsets
  <1>2. PICK x0 : x0 = Resized(old, r[n + 1])
    OBVIOUS
  <1>3. x0 = [k \in 1..N |-> x0[k]] /\ \A k \in 1..N : k <= Len(old) => x0[k] = old[k]
    <2>1. x0 = [k \in 1..N |-> IF k <= Len(old) THEN old[k] ELSE old[1]]
      BY <1>1, <1>2, Zenon DEF Resized
    <2> QED  BY <2>1, Zenon
  <1>4. \A i \in 1..n + 1 : f[i] = IF i = n + 1 THEN x0 ELSE MoveTo(f[i + 1], i, q, r, newest)
    BY <1>2, Zenon DEF Splices
  <1> DEFINE P(buf, i) == /\ Covers(buf, N)
                          /\ \A k \in 1..r[i] : buf[k] = x0[k]
                          /\ \A m \in i..n : Arrived(buf, old, m, q, r, newest)
             I == {e \in 0..n : P(f[(n + 1) - e], (n + 1) - e)}
  <1>5. 0 \in I
    <2>1. n + 1 \in 1..n + 1 /\ (n + 1) - 0 = n + 1 /\ (n + 1)..n = {}
      OBVIOUS
    <2>2. f[n + 1] = x0
      BY <1>4, <2>1
    <2>3. Covers(x0, N)
      BY <1>3, Zenon DEF Covers
    <2>4. P(x0, n + 1)
      BY <2>1, <2>3
    <2>5. P(f[(n + 1) - 0], (n + 1) - 0)
      BY <2>1, <2>2, <2>4, Zenon
    <2> QED  BY <2>5
  <1>6. ASSUME NEW i \in 1..n, NEW buf, P(buf, i + 1), NEW M, M = MoveTo(buf, i, q, r, newest)
        PROVE  P(M, i)
    <2>1. PICK a, b, c, d, w, v : /\ a = q[i] /\ b = r[i] /\ c = q[i + 1] /\ d = r[i + 1]
                                  /\ w = Width(q, i) /\ v = Width(r, i)
      OBVIOUS
    <2>2. /\ a \in Nat /\ b \in Nat /\ c \in Nat /\ d \in Nat /\ w \in Nat /\ v \in Nat
          /\ c = a + w /\ d = b + v /\ a <= b /\ c <= d /\ d <= N /\ c <= q[n + 1]
          /\ q[n + 1] \in Nat
      BY <1>1, <2>1, SegmentFacts
    <2>3. v = w \/ v = w + 1
      BY <2>1 DEF OneMore
    <2>4. buf = [k \in 1..N |-> buf[k]] /\ DOMAIN buf = 1..N
      BY <1>6, Zenon DEF Covers
    <2>5. M = [k \in 1..N |-> IF k = d /\ v > w THEN newest[i]
                              ELSE IF k > b /\ k <= b + w THEN buf[a + (k - b)] ELSE buf[k]]
      BY <1>6, <2>1, <2>4, Zenon DEF MoveTo
    <2>6. Covers(M, N)
      BY <2>5, Zenon DEF Covers
    <2>7. \A k \in 1..N : M[k] = IF k = d /\ v > w THEN newest[i]
                                 ELSE IF k > b /\ k <= b + w THEN buf[a + (k - b)] ELSE buf[k]
      BY <2>5, Zenon
    <2>8. \A k \in 1..d : buf[k] = x0[k]
      BY <1>6, <2>1, Zenon
    <2>9. ASSUME NEW k \in 1..r[i] PROVE M[k] = x0[k]
      <3>1. k \in 1..b
        BY <2>1, <2>9
      <3>2. k \in 1..N /\ k \in 1..d /\ ~(k = d /\ v > w) /\ ~(k > b)
        BY <2>2, <3>1
      <3>3. M[k] = buf[k]
        BY <2>7, <3>2, Zenon
      <3> QED  BY <2>8, <3>2, <3>3
    <2>10. Arrived(M, old, i, q, r, newest)
      <3>1. ASSUME NEW k \in 1..w PROVE M[b + k] = old[a + k]
        <4>1. /\ b + k \in 1..N /\ ~(b + k = d /\ v > w) /\ b + k > b /\ b + k <= b + w
              /\ a + ((b + k) - b) = a + k /\ a + k \in 1..d /\ a + k \in 1..N
              /\ a + k <= q[n + 1]
          BY <2>2, <2>3
        <4>2. M[b + k] = buf[a + ((b + k) - b)]
          BY <2>7, <4>1, Zenon
        <4>3. M[b + k] = buf[a + k]
          BY <4>1, <4>2
        <4>4. buf[a + k] = x0[a + k]
          BY <2>8, <4>1, Zenon
        <4>5. x0[a + k] = old[a + k]
          BY <1>3, <4>1
        <4> QED  BY <4>3, <4>4, <4>5
      <3>2. ASSUME v > w PROVE M[d] = newest[i]
        <4>1. d \in 1..N
          BY <2>2, <3>2
        <4> QED  BY <2>7, <3>2, <4>1, Zenon
      <3> QED  BY <2>1, <3>1, <3>2, Zenon DEF Arrived
    <2>11. ASSUME NEW m \in i + 1..n PROVE Arrived(M, old, m, q, r, newest)
      <3>1. m \in 1..n /\ m \in 1..n + 1 /\ i + 1 \in 1..n + 1 /\ i + 1 <= m
        OBVIOUS
      <3>2. d <= r[m]
        BY <2>1, <3>1, OffsetsOrder DEF OneMore
      <3>3. PICK x, y, u, z : x = r[m] /\ y = r[m + 1] /\ u = Width(q, m) /\ z = Width(r, m)
        OBVIOUS
      <3>4. /\ x \in Nat /\ y \in Nat /\ u \in Nat /\ z \in Nat /\ y = x + z /\ y <= N /\ d <= x
        BY <1>1, <3>1, <3>2, <3>3, SegmentFacts
      <3>5. z = u \/ z = u + 1
        BY <3>1, <3>3 DEF OneMore
      <3>6. ASSUME NEW k \in 1..N, k > d PROVE M[k] = buf[k]
        <4>1. ~(k = d /\ v > w) /\ ~(k <= b + w)
          BY <2>2, <2>3, <3>6
        <4> QED  BY <2>7, <4>1, Zenon
      <3>7. Arrived(buf, old, m, q, r, newest)
        BY <1>6, Zenon
      <3>8. ASSUME NEW k \in 1..u PROVE M[x + k] = old[q[m] + k]
        <4>1. x + k \in 1..N /\ x + k > d
          BY <2>2, <3>4, <3>5
        <4>2. buf[x + k] = old[q[m] + k]
          BY <3>3, <3>7, Zenon DEF Arrived
        <4> QED  BY <3>6, <4>1, <4>2
      <3>9. ASSUME z > u PROVE M[y] = newest[m]
        <4>1. y \in 1..N /\ y > d
          BY <2>2, <3>4, <3>9
        <4>2. buf[y] = newest[m]
          BY <3>3, <3>7, <3>9, Zenon DEF Arrived
        <4> QED  BY <3>6, <4>1, <4>2
      <3> QED  BY <3>3, <3>8, <3>9, Zenon DEF Arrived
    <2>12. ASSUME NEW m \in i..n PROVE Arrived(M, old, m, q, r, newest)
      <3>1. m = i \/ m \in i + 1..n
        OBVIOUS
      <3> QED  BY <2>10, <2>11, <3>1
    <2> QED  BY <2>6, <2>9, <2>12
  <1>7. ASSUME NEW e \in 1..n, e - 1 \in I PROVE e \in I
    <2>1. PICK i \in 1..n : i = (n + 1) - e /\ i + 1 = (n + 1) - (e - 1)
      <3>1. (n + 1) - e \in 1..n /\ ((n + 1) - e) + 1 = (n + 1) - (e - 1)
        OBVIOUS
      <3> QED  BY <3>1
    <2>2. P(f[(n + 1) - (e - 1)], (n + 1) - (e - 1))
      BY <1>7
    <2>3. P(f[i + 1], i + 1)
      BY <2>1, <2>2, Zenon
    <2>4. i \in 1..n + 1 /\ i /= n + 1
      OBVIOUS
    <2>5. f[i] = MoveTo(f[i + 1], i, q, r, newest)
      BY <1>4, <2>4, Zenon
    <2>6. P(f[i], i)
      <3> HIDE DEF P
      <3> QED  BY <1>6, <2>3, <2>5
    <2>7. P(f[(n + 1) - e], (n + 1) - e)
      BY <2>1, <2>6, Zenon
    <2> QED  BY <2>7
  <1>8. n \in I
    <2>1. I \in SUBSET (0..n)
      OBVIOUS
    <2> HIDE DEF I
    <2> QED  BY <1>5, <1>7, <2>1, Upward
  <1>9. P(f[(n + 1) - n], (n + 1) - n) /\ (n + 1) - n = 1
    BY <1>8
  <1>10. P(f[1], 1)
    BY <1>9, Zenon
  <1> QED  BY <1>1, <1>10, Zenon
\* The entries of old are the first of each table of the batch.
Fronts(old, q, b) ==
    \A i \in 1..Len(b) : \A k \in 1..Width(q, i) : old[q[i] + k] = table[b[i]][k]

\* Spliced, a copy of the first pages of every table and their last pages are the
\* whole tables.
LEMMA SpliceIsFlatten ==
    ASSUME table \in [Slots -> Seq(Pages)], NEW b \in Seq(Slots), b /= << >>,
           NEW r, r = build_indptr(b), OneMore(indptr, r, Len(b)),
           NEW old, Len(old) = indptr[Len(b) + 1], Fronts(old, indptr, b),
           NEW newest, \A i \in 1..Len(b) : newest[i] = table[b[i]][Len(table[b[i]])]
    PROVE  Splice(old, r, newest) = flatten_page_indices(b)
  <1>1. PICK n \in Nat : n = Len(b)
    OBVIOUS
  <1>2. PICK q : q = indptr
    OBVIOUS
  <1>3. OneMore(q, r, n) /\ Len(old) = q[n + 1]
    BY <1>1, <1>2
  <1>4. Offsets(r, n) /\ \A i \in 1..n : r[i + 1] = r[i] + Len(table[b[i]])
    BY <1>1, IndptrIs
  <1>5. Len(r) - 1 = n
    <2>1. r \in [1..n + 1 -> Nat] /\ n + 1 \in Nat
      BY <1>4 DEF Offsets
    <2>2. Len(r) = n + 1
      BY <2>1
    <2> QED  BY <2>2
  <1>6. \E f : Splices(f, old, n, q, r, newest)
    BY <1>3, SplicesExist
  <1>7. PICK g : SplicedBy(g, old, r, newest)
    BY <1>2, <1>5, <1>6, Zenon DEF SplicedBy
  <1>8. PICK f : SplicedBy(f, old, r, newest) /\ Splice(old, r, newest) = f[1]
    BY <1>7, SpliceIs
  <1>9. Splices(f, old, n, q, r, newest)
    BY <1>2, <1>5, <1>8, Zenon DEF SplicedBy
  <1>10. PICK R : R = f[1]
    OBVIOUS
  <1>11. Covers(R, r[n + 1]) /\ \A m \in 1..n : Arrived(R, old, m, q, r, newest)
    BY <1>3, <1>9, <1>10, SpliceMoves
  <1>12. ASSUME NEW i \in 1..n, NEW k \in 1..Len(table[b[i]]) PROVE R[r[i] + k] = table[b[i]][k]
    <2>1. PICK x, y, u, z : x = r[i] /\ y = r[i + 1] /\ u = Width(q, i) /\ z = Width(r, i)
      OBVIOUS
    <2>2. x \in Nat /\ y \in Nat /\ u \in Nat /\ z \in Nat /\ y = x + z
      BY <1>3, <2>1, SegmentFacts
    <2>3. PICK t \in Seq(Pages) : t = table[b[i]]
      BY <1>1
    <2>4. PICK l \in Nat : l = Len(t)
      OBVIOUS
    <2>5. y = x + l /\ k \in 1..l
      BY <1>4, <1>12, <2>1, <2>3, <2>4
    <2>6. z = l /\ (z = u \/ z = u + 1)
      <3>1. z = u \/ z = u + 1
        BY <1>3, <2>1 DEF OneMore
      <3> QED  BY <2>2, <2>5, <3>1
    <2>7. Arrived(R, old, i, q, r, newest)
      BY <1>11
    <2>8. CASE k \in 1..u
      <3>1. R[r[i] + k] = old[q[i] + k]
        BY <2>1, <2>7, <2>8 DEF Arrived
      <3>2. old[q[i] + k] = table[b[i]][k]
        BY <1>1, <1>2, <2>1, <2>8 DEF Fronts
      <3> QED  BY <3>1, <3>2
    <2>9. CASE k \notin 1..u
      <3>1. k = l /\ z > u /\ x + k = y
        BY <2>2, <2>5, <2>6, <2>9
      <3>2. R[r[i + 1]] = newest[i]
        BY <2>1, <2>7, <3>1 DEF Arrived
      <3>3. newest[i] = t[l]
        BY <1>1, <2>3, <2>4
      <3>4. r[i] + k = r[i + 1]
        BY <2>1, <3>1
      <3> QED  BY <2>3, <3>1, <3>2, <3>3, <3>4
    <2> QED  BY <2>8, <2>9
  <1>13. Lists(R, r, b) /\ Covers(R, r[Len(b) + 1])
    BY <1>1, <1>11, <1>12 DEF Lists
  <1>14. R = flatten_page_indices(b)
    BY <1>13, FlattenUnique
  <1> QED  BY <1>8, <1>10, <1>14
------------------------------------------------------------------------------
(* The invariant *)

\* As long as a slot of the last batch has the epoch it had, the copy holds the
\* first pages of its table.
StillPrefix ==
    \A i \in 1..Len(prevSlots) :
        /\ prevEpochs[i] \in Nat /\ prevEpochs[i] <= epoch[prevSlots[i]]
        /\ epoch[prevSlots[i]] = prevEpochs[i] =>
               \A k \in 1..Width(indptr, i) : /\ k <= Len(table[prevSlots[i]])
                                              /\ indices[indptr[i] + k] = table[prevSlots[i]][k]

\* Without failing uploads host and device agree, and the offsets are those of
\* the batch that is remembered.  With pages of one token, where update compares
\* no pages, the epochs stand for the comparison (StillPrefix).
MetaInv ==
    /\ epoch \in [Slots -> Nat]
    /\ device = indices /\ indices \in Seq(Pages) /\ Len(indices) = total
    /\ prevSlots \in Seq(Slots)
    /\ prevSlots /= << >> => /\ Offsets(indptr, Len(prevSlots))
                             /\ indptr[Len(prevSlots) + 1] = total
    /\ PageSize = 1 => StillPrefix
    /\ MetadataCurrent

\* A batch names slots, at least one.
LEMMA BatchIsSeq ==
    ASSUME NEW b \in Batches
    PROVE  b \in Seq(Slots) /\ b /= << >>
  <1>1. PICK n \in 1..Cardinality(Slots) : b \in [1..n -> Slots]
    BY Zenon DEF Batches
  <1>2. n \in Nat /\ n >= 1
    <2>1. Cardinality(Slots) \in Nat
      BY SlotsAssumption, FS_CardinalityType
    <2> QED  BY <2>1
  <1>3. b \in Seq(Slots) /\ Len(b) = n
    BY <1>1, <1>2
  <1> QED  BY <1>2, <1>3

\* Every shortcut of update gives what the rebuild gives.
LEMMA UpdatedIsFlatten ==
    ASSUME PoolInv, KVInv, MetaInv, NEW b \in Batches
    PROVE  Updated(indices, b) = flatten_page_indices(b)
  <1>1. PICK n \in Nat \ {0} : n = Len(b) /\ DOMAIN b = 1..n
    <2>1. b \in Seq(Slots) /\ b /= << >>
      BY BatchIsSeq
    <2> QED  BY <2>1
  <1>2. b \in Seq(Slots) /\ b /= << >> /\ table \in [Slots -> Seq(Pages)]
    BY BatchIsSeq DEF PoolInv, PoolTypes
  <1>3. PICK r : r = build_indptr(b)
    OBVIOUS
  <1>4. Offsets(r, n) /\ \A i \in 1..n : r[i + 1] = r[i] + Len(table[b[i]])
    BY <1>1, <1>2, <1>3, IndptrIs
  <1>5. \A i \in 1..n : Width(r, i) = Len(table[b[i]])
    <2>1. ASSUME NEW i \in 1..n PROVE Width(r, i) = Len(table[b[i]])
      <3>1. PICK l \in Nat : l = Len(table[b[i]])
        BY <1>1, <1>2
      <3>2. PICK x \in Nat : x = r[i]
        BY <1>4 DEF Offsets
      <3>3. r[i + 1] = x + l
        BY <1>4, <3>1, <3>2, Zenon
      <3>4. Width(r, i) = (x + l) - x
        BY <3>2, <3>3, Zenon DEF Width
      <3> QED  BY <3>1, <3>4
    <2> QED  BY <2>1
  <1>6. r \in [1..n + 1 -> Nat] /\ Len(r) = n + 1
    <2>1. r \in [1..n + 1 -> Nat] /\ n + 1 \in Nat
      BY <1>4 DEF Offsets
    <2> QED  BY <2>1
  <1>7. ASSUME same_batch_identity(b)
        PROVE  Offsets(indptr, n) /\ Len(indices) = indptr[n + 1]
    <2>1. prevSlots = b
      BY <1>7 DEF same_batch_identity
    <2> QED  BY <1>1, <1>2, <2>1 DEF MetaInv
  <1>8. ASSUME cached_is_prefix(b) PROVE Fronts(indices, indptr, b)
    BY <1>1, <1>8, Zenon DEF cached_is_prefix, Fronts
  <1>9. CASE SamePages(b)
    <2>1. indptr = r /\ same_batch_identity(b) /\ cached_is_prefix(b)
      BY <1>3, <1>9, Zenon DEF SamePages, fast_page16
    <2>2. Len(indices) = r[n + 1] /\ Fronts(indices, r, b)
      BY <1>7, <1>8, <2>1
    <2>3. Lists(indices, r, b)
      BY <1>1, <1>5, <2>2 DEF Lists, Fronts
    <2>4. Covers(indices, r[Len(b) + 1])
      <3>1. PICK F \in Seq(Pages) : F = indices
        BY DEF MetaInv
      <3>2. F = [k \in 1..Len(F) |-> F[k]]
        OBVIOUS
      <3> QED  BY <1>1, <2>2, <3>1, <3>2, Zenon DEF Covers
    <2>5. indices = flatten_page_indices(b)
      BY <1>2, <1>3, <2>3, <2>4, FlattenUnique
    <2> QED  BY <1>9, <2>5 DEF Updated
  <1>10. CASE ~SamePages(b) /\ AppendedPages(b)
    <2>1. same_batch_identity(b) /\ cached_is_prefix(b) /\ can_append_pages_step(r)
      BY <1>3, <1>10, Zenon DEF AppendedPages, fast_page16
    <2>2. OneMore(indptr, r, n)
      <3>1. ASSUME NEW i \in 1..n
            PROVE  Width(r, i) = Width(indptr, i) \/ Width(r, i) = Width(indptr, i) + 1
        <4>1. i \in 1..Len(r) - 1
          BY <1>6
        <4>2. Width(r, i) - Width(indptr, i) \in {0, 1}
          BY <2>1, <4>1, Zenon DEF can_append_pages_step
        <4>3. Width(indptr, i) \in Int /\ Width(r, i) \in Int
          BY <1>4, <1>7, <2>1 DEF Offsets, Width
        <4> QED  BY <4>2, <4>3
      <3> QED  BY <1>4, <1>7, <2>1, <3>1 DEF OneMore
    <2>3. PICK newest : newest = newestPage(b)
      OBVIOUS
    <2>4. \A i \in 1..Len(b) : newest[i] = table[b[i]][Len(table[b[i]])]
      BY <1>1, <2>3, Zenon DEF newestPage
    <2>5. Splice(indices, r, newest) = flatten_page_indices(b)
      <3>1. Fronts(indices, indptr, b)
        BY <1>8, <2>1
      <3>2. OneMore(indptr, r, Len(b)) /\ Len(indices) = indptr[Len(b) + 1]
        BY <1>1, <1>7, <2>1, <2>2
      <3> QED  BY <1>2, <1>3, <2>4, <3>1, <3>2, SpliceIsFlatten
    <2> QED  BY <1>3, <1>10, <2>3, <2>5 DEF Updated
  <1>11. CASE ~SamePages(b) /\ ~AppendedPages(b) /\ can_incremental_update(b)
    <2>1. same_batch_identity(b) /\ can_append_decode_step(r) /\ PageSize = 1
      BY <1>3, <1>11, Zenon DEF can_incremental_update
    <2>2. OneMore(indptr, r, n)
      <3>1. ASSUME NEW i \in 1..n PROVE Width(r, i) = Width(indptr, i) + 1
        <4>1. i \in 1..Len(r) - 1
          BY <1>6
        <4> QED  BY <2>1, <4>1, Zenon DEF can_append_decode_step
      <3> QED  BY <1>4, <1>7, <2>1, <3>1 DEF OneMore
    <2>3. Fronts(indices, indptr, b)
      <3>1. prevSlots = b /\ \A i \in 1..n : prevEpochs[i] = epoch[b[i]]
        BY <1>1, <2>1, Zenon DEF same_batch_identity, epochsOf
      <3>2. StillPrefix
        BY <2>1 DEF MetaInv
      <3> QED  BY <1>1, <3>1, <3>2, Zenon DEF StillPrefix, Fronts
    <2>4. PICK newest : newest = newestToken(b)
      OBVIOUS
    <2>5. ASSUME NEW i \in 1..n PROVE newest[i] = table[b[i]][Len(table[b[i]])]
      <3>1. PICK s \in Slots : s = b[i]
        BY <1>1, <1>2
      <3>2. PICK l \in Nat : l = Len(table[s])
        BY <1>2
      <3>3. PICK m \in Nat : m = seqLen[s]
        BY DEF PoolInv, PoolTypes
      <3>4. m <= l * PageSize /\ l * PageSize < m + PageSize
        BY <3>2, <3>3 DEF PoolInv, TablesSound, KVInv, SlotReads, Tight
      <3>5. m = l
        <4>1. m <= l * 1 /\ l * 1 < m + 1
          BY <2>1, <3>4
        <4> QED  BY <4>1
      <3>6. CeilDiv(seqLen[b[i]], PageSize) = l
        <4>1. (m + 1 - 1) \div 1 = m
          OBVIOUS
        <4> QED  BY <2>1, <3>1, <3>3, <3>5, <4>1 DEF CeilDiv
      <3>7. newest[i] = table[b[i]][CeilDiv(seqLen[b[i]], PageSize)]
        BY <1>1, <2>4, Zenon DEF newestToken
      <3> QED  BY <3>1, <3>2, <3>6, <3>7
    <2>6. Splice(indices, r, newest) = flatten_page_indices(b)
      BY <1>1, <1>2, <1>3, <1>7, <2>1, <2>2, <2>3, <2>5, SpliceIsFlatten
    <2> QED  BY <1>3, <1>11, <2>4, <2>6 DEF Updated
  <1>12. CASE ~SamePages(b) /\ ~AppendedPages(b) /\ ~can_incremental_update(b)
    BY <1>12 DEF Updated
  <1> QED  BY <1>9, <1>10, <1>11, <1>12
------------------------------------------------------------------------------
(* Steps of the pool *)

\* Table Y begins with table X.
StartsWith(Y, X) == Len(X) <= Len(Y) /\ \A k \in 1..Len(X) : Y[k] = X[k]

\* Epochs grow, and while an epoch lasts the table of its slot only gets longer.
TablesGrow ==
    \A s \in Slots : /\ epoch'[s] \in Nat /\ epoch[s] <= epoch'[s]
                     /\ epoch'[s] = epoch[s] => StartsWith(table'[s], table[s])

\* Epochs are numbers, whatever the pool does.
LEMMA EpochStep ==
    ASSUME epoch \in [Slots -> Nat], Next
    PROVE  epoch' \in [Slots -> Nat]
  <1>1. ASSUME NEW s \in Slots, NEW toks, append(s, toks) PROVE epoch' = epoch
    BY <1>1, Zenon DEF append
  <1>2. ASSUME NEW s \in Slots, NEW n, append_out_of_pages(s, n) PROVE epoch' = epoch
    BY <1>2, Zenon DEF append_out_of_pages
  <1>3. ASSUME NEW s \in Slots, append_copy_fails(s) PROVE epoch' = epoch
    BY <1>3, Zenon DEF append_copy_fails
  <1>4. ASSUME NEW s \in Slots, NEW bids, NEW short, attach_pages(s, bids, short)
        PROVE  epoch' = epoch
    BY <1>4, Zenon DEF attach_pages
  <1>5. ASSUME NEW s \in Slots, NEW n, publish_and_free(s, n)
        PROVE  epoch' = [epoch EXCEPT ![s] = @ + 1]
    BY <1>5, Zenon DEF publish_and_free
  <1>6. ASSUME NEW s \in Slots, NEW len, truncate_slot(s, len)
        PROVE  epoch' = epoch \/ epoch' = [epoch EXCEPT ![s] = @ + 1]
    BY <1>6, Zenon DEF truncate_slot
  <1>7. ASSUME NEW x, release_block(x) PROVE epoch' = epoch
    BY <1>7, Zenon DEF release_block
  <1>8. ASSUME NEW rows, install_block(rows) PROVE epoch' = epoch
    BY <1>8, Zenon DEF install_block
  <1>9. ASSUME install_copy_fails PROVE epoch' = epoch
    BY <1>9, Zenon DEF install_copy_fails
  <1>10. epoch' = epoch \/ \E s \in Slots : epoch' = [epoch EXCEPT ![s] = @ + 1]
    BY <1>1, <1>2, <1>3, <1>4, <1>5, <1>6, <1>7, <1>8, <1>9, Zenon DEF Next
  <1>11. CASE epoch' = epoch
    BY <1>11
  <1>12. ASSUME NEW s \in Slots, epoch' = [epoch EXCEPT ![s] = @ + 1]
         PROVE  epoch' \in [Slots -> Nat]
    BY <1>12
  <1> QED  BY <1>10, <1>11, <1>12

\* With pages of one token no tail is copied and no prefix is borrowed.
LEMMA TablesOnlyGrow ==
    ASSUME PageSize = 1, ~CrossSlotAttach, PoolInv, epoch \in [Slots -> Nat], Next
    PROVE  TablesGrow
  <1>1. epoch' \in [Slots -> Nat]
    BY EpochStep
  <1>2. table \in [Slots -> Seq(Pages)] /\ seqLen \in [Slots -> Nat]
    BY DEF PoolInv, PoolTypes
  <1>3. \A s \in Slots : append_cow_pages_needed(s) = 0
    <2>1. ASSUME NEW s \in Slots PROVE append_cow_pages_needed(s) = 0
      <3>1. PICK m \in Nat : m = seqLen[s]
        BY <1>2
      <3>2. m % 1 = 0
        OBVIOUS
      <3>3. slot_hot_tail_len(s) = 0
        BY <3>1, <3>2 DEF slot_hot_tail_len
      <3> QED  BY <3>3 DEF append_cow_pages_needed
    <2> QED  BY <2>1
  <1>4. ASSUME table' = table, epoch' = epoch PROVE TablesGrow
    BY <1>2, <1>4 DEF TablesGrow, StartsWith
  <1>5. ASSUME NEW s \in Slots, NEW X \in Seq(Pages), table' = [table EXCEPT ![s] = X],
               epoch' = [epoch EXCEPT ![s] = @ + 1]
        PROVE  TablesGrow
    <2>1. ASSUME NEW t \in Slots
          PROVE  /\ epoch'[t] \in Nat /\ epoch[t] <= epoch'[t]
                 /\ epoch'[t] = epoch[t] => StartsWith(table'[t], table[t])
      <3>1. CASE t = s
        <4>1. epoch'[t] = epoch[t] + 1 /\ epoch[t] \in Nat
          BY <1>5, <3>1
        <4> QED  BY <4>1
      <3>2. CASE t /= s
        <4>1. epoch'[t] = epoch[t] /\ epoch[t] \in Nat /\ table'[t] = table[t]
          BY <1>2, <1>5, <3>2
        <4>2. Len(table[t]) \in Nat
          BY <1>2
        <4> QED  BY <4>1, <4>2 DEF StartsWith
      <3> QED  BY <3>1, <3>2
    <2> QED  BY <2>1 DEF TablesGrow
  <1>6. ASSUME NEW s \in Slots, NEW n \in 1..MaxLen, NEW toks \in [1..n -> Tokens], append(s, toks)
        PROVE  TablesGrow
    <2>1. PICK m \in Nat : m = NewPages(s, Len(toks))
      <3>1. n \in Nat
        BY BoundAssumption
      <3>2. Len(toks) \in Nat
        BY <3>1
      <3>3. PICK l \in Nat : l = Len(toks)
        BY <3>2
      <3>4. NewPages(s, l) \in Nat
        <4>1. slot_hot_tail_len(s) \in Int
          BY <1>2 DEF slot_hot_tail_len
        <4>2. PICK room : room = IF slot_hot_tail_len(s) = 0 THEN 0
                                 ELSE PageSize - slot_hot_tail_len(s)
          OBVIOUS
        <4>3. room \in Int
          BY <4>1, <4>2
        <4>4. CASE l > room
          <5>1. Saturating(l, room) = l - room /\ l - room \in Nat
            BY <4>3, <4>4 DEF Saturating
          <5>2. PICK x \in Nat : x = Saturating(l, room)
            BY <5>1
          <5>3. CeilDiv(x, PageSize) \in Nat
            BY CeilDivBounds, PageSizeAssumption
          <5> QED  BY <4>2, <5>2, <5>3 DEF NewPages
        <4>5. CASE ~(l > room)
          <5>1. Saturating(l, room) = 0
            BY <4>5 DEF Saturating
          <5>2. CeilDiv(0, PageSize) \in Nat
            BY CeilDivBounds, PageSizeAssumption
          <5> QED  BY <4>2, <5>1, <5>2 DEF NewPages
        <4> QED  BY <4>4, <4>5
      <3> QED  BY <3>3, <3>4
    <2>2. PICK f \in Pops(0 + m) :
              table' = [table EXCEPT ![s] = table[s] \o SubSeq(f, 0 + 1, 0 + m)]
      <3>1. PICK c : c = append_cow_pages_needed(s)
        OBVIOUS
      <3>2. c = 0 /\ c /= 1
        BY <1>3, <3>1
      <3>3. PICK f \in Pops(c + m) :
                table' = [table EXCEPT ![s] = (IF c = 1 THEN CowTable(s, f[1]) ELSE table[s])
                                                  \o SubSeq(f, c + 1, c + m)]
        BY <1>6, <2>1, <3>1, Zenon DEF append
      <3> QED  BY <3>2, <3>3, Zenon
    <2>3. PICK F \in Seq(Pages) : F = SubSeq(f, 0 + 1, 0 + m)
      <3>1. f \in [1..m -> Pages]
        BY <2>2 DEF Pops
      <3>2. f \in Seq(Pages) /\ Len(f) = m
        BY <3>1
      <3>3. SubSeq(f, 1, m) \in Seq(Pages)
        BY <3>2
      <3>4. 0 + 1 = 1 /\ 0 + m = m
        OBVIOUS
      <3> QED  BY <3>3, <3>4, Zenon
    <2>4. epoch' = epoch
      BY <1>6, Zenon DEF append
    <2>5. ASSUME NEW t \in Slots
          PROVE  /\ epoch'[t] \in Nat /\ epoch[t] <= epoch'[t]
                 /\ StartsWith(table'[t], table[t])
      <3>1. PICK X \in Seq(Pages) : X = table[t]
        BY <1>2
      <3>2. epoch[t] \in Nat /\ epoch'[t] = epoch[t]
        BY <2>4
      <3>3. CASE t = s
        <4>1. table'[t] = X \o F
          BY <1>2, <2>2, <2>3, <3>1, <3>3
        <4>2. Len(X) <= Len(X \o F) /\ \A k \in 1..Len(X) : (X \o F)[k] = X[k]
          OBVIOUS
        <4> QED  BY <3>1, <3>2, <4>1, <4>2 DEF StartsWith
      <3>4. CASE t /= s
        <4>1. table'[t] = X
          BY <1>2, <2>2, <3>1, <3>4
        <4>2. Len(X) \in Nat
          OBVIOUS
        <4> QED  BY <3>1, <3>2, <4>1, <4>2 DEF StartsWith
      <3> QED  BY <3>3, <3>4
    <2> QED  BY <2>5 DEF TablesGrow
  <1>7. ASSUME NEW s \in Slots, NEW n, append_out_of_pages(s, n) PROVE FALSE
    BY <1>3, <1>7 DEF append_out_of_pages
  <1>8. ASSUME NEW s \in Slots, append_copy_fails(s) PROVE FALSE
    BY <1>3, <1>8 DEF append_copy_fails
  <1>9. ASSUME NEW s \in Slots, NEW bids, NEW short, attach_pages(s, bids, short) PROVE FALSE
    BY <1>9 DEF attach_pages
  <1>10. ASSUME NEW s \in Slots, NEW n, publish_and_free(s, n) PROVE TablesGrow
    <2>1. table' = [table EXCEPT ![s] = << >>] /\ epoch' = [epoch EXCEPT ![s] = @ + 1]
      BY <1>10, Zenon DEF publish_and_free
    <2>2. << >> \in Seq(Pages)
      OBVIOUS
    <2> QED  BY <1>5, <2>1, <2>2
  <1>11. ASSUME NEW s \in Slots, NEW len \in 0..MaxLen, truncate_slot(s, len) PROVE TablesGrow
    <2>1. PICK X \in Seq(Pages) : X = table[s]
      BY <1>2
    <2>2. PICK l \in Nat : l = Len(X)
      OBVIOUS
    <2>3. len \in Nat
      BY BoundAssumption
    <2>4. CeilDiv(len, PageSize) = len
      <3>1. (len + 1 - 1) \div 1 = len
        BY <2>3
      <3> QED  BY <3>1 DEF CeilDiv
    <2>5. len < l
      <3>1. PICK m \in Nat : m = seqLen[s]
        BY <1>2
      <3>2. m <= l * PageSize
        BY <2>1, <2>2, <3>1 DEF PoolInv, TablesSound
      <3>3. m <= l * 1
        BY <3>2
      <3>4. len < m
        BY <1>11, <3>1 DEF truncate_slot
      <3> QED  BY <2>3, <3>3, <3>4
    <2>6. SubSeq(X, len + 1, Len(X)) /= << >>
      <3>1. Len(SubSeq(X, len + 1, Len(X))) = l - len
        BY <2>2, <2>3, <2>5
      <3>2. l - len /= 0 /\ Len(<< >>) = 0
        BY <2>3, <2>5
      <3> QED  BY <3>1, <3>2
    <2>7. epoch' = [epoch EXCEPT ![s] = @ + 1]
      BY <1>11, <2>1, <2>4, <2>6 DEF truncate_slot
    <2>8. table' = [table EXCEPT ![s] = SubSeq(X, 1, len)]
      BY <1>11, <2>1, <2>4 DEF truncate_slot
    <2>9. SubSeq(X, 1, len) \in Seq(Pages)
      BY <2>2, <2>3, <2>5
    <2> QED  BY <1>5, <2>7, <2>8, <2>9
  <1>12. ASSUME NEW x, release_block(x) PROVE TablesGrow
    BY <1>4, <1>12, Zenon DEF release_block
  <1>13. ASSUME NEW rows, install_block(rows) PROVE TablesGrow
    BY <1>4, <1>13, Zenon DEF install_block
  <1>14. ASSUME install_copy_fails PROVE TablesGrow
    BY <1>4, <1>14, Zenon DEF install_copy_fails
  <1> QED  BY <1>6, <1>7, <1>8, <1>9, <1>10, <1>11, <1>12, <1>13, <1>14, Zenon DEF Next
------------------------------------------------------------------------------
(* The invariant holds *)

\* What a rebuild gives for the tables T.
OffsetsIn(T, b) == LET at[k \in 0..Len(b)] == IF k = 0 THEN 0 ELSE at[k - 1] + Len(T[b[k]])
                   IN  [k \in 1..Len(b) + 1 |-> at[k - 1]]
FlatIn(T, b) == FlattenSeq([i \in DOMAIN b |-> T[b[i]]])

\* It depends on nothing else.
LEMMA RebuildOf ==
    /\ \A b : build_indptr(b) = OffsetsIn(table, b) /\ flatten_page_indices(b) = FlatIn(table, b)
    /\ MetadataCurrent <=> (batch /= << >> => /\ device = FlatIn(table, batch)
                                             /\ indptr = OffsetsIn(table, batch))
    /\ MetadataCurrent' <=> (batch' /= << >> => /\ device' = FlatIn(table', batch')
                                               /\ indptr' = OffsetsIn(table', batch'))
  <1>1. \A b : build_indptr(b) = OffsetsIn(table, b)
    BY Zenon DEF build_indptr, OffsetsIn
  <1>2. \A b : flatten_page_indices(b) = FlatIn(table, b)
    BY Zenon DEF flatten_page_indices, FlatIn
  <1>3. MetadataCurrent <=> (batch /= << >> => /\ device = FlatIn(table, batch)
                                             /\ indptr = OffsetsIn(table, batch))
    BY Zenon DEF MetadataCurrent, build_indptr, OffsetsIn, flatten_page_indices, FlatIn
  <1>4. MetadataCurrent' <=> (batch' /= << >> => /\ device' = FlatIn(table', batch')
                                               /\ indptr' = OffsetsIn(table', batch'))
    BY Zenon DEF MetadataCurrent, build_indptr, OffsetsIn, flatten_page_indices, FlatIn
  <1> QED  BY <1>1, <1>2, <1>3, <1>4

LEMMA MetaInvInit == MetaInit => MetaInv
  <1> SUFFICES ASSUME MetaInit PROVE MetaInv
    OBVIOUS
  <1>1. /\ indices = << >> /\ device = << >> /\ total = 0 /\ prevSlots = << >> /\ batch = << >>
        /\ epoch = [s \in Slots |-> 0]
    BY Zenon DEF MetaInit, Init
  <1>2. epoch \in [Slots -> Nat] /\ indices \in Seq(Pages) /\ Len(indices) = total
    BY <1>1
  <1>3. prevSlots \in Seq(Slots) /\ StillPrefix
    BY <1>1 DEF StillPrefix
  <1> QED  BY <1>1, <1>2, <1>3 DEF MetaInv, MetadataCurrent

\* The pool moves on: the copy is remembered, and no batch reads it.
LEMMA PoolStepMeta ==
    ASSUME PageSize > 1 \/ ~CrossSlotAttach, PoolInv, MetaInv, PoolStep
    PROVE  MetaInv'
  <1>1. Next /\ batch' = << >> /\ UNCHANGED metaVars
    BY DEF PoolStep
  <1>2. epoch \in [Slots -> Nat] /\ epoch' \in [Slots -> Nat]
    BY <1>1, EpochStep DEF MetaInv
  <1>3. /\ indptr' = indptr /\ indices' = indices /\ device' = device /\ total' = total
        /\ prevSlots' = prevSlots /\ prevEpochs' = prevEpochs
    BY <1>1 DEF metaVars
  <1>4. ASSUME PageSize = 1 PROVE StillPrefix'
    <2>1. TablesGrow
      BY <1>1, <1>2, <1>4, TablesOnlyGrow
    <2>2. prevSlots \in Seq(Slots) /\ StillPrefix
      BY <1>4 DEF MetaInv
    <2>3. ASSUME NEW i \in 1..Len(prevSlots)
          PROVE  /\ prevEpochs[i] \in Nat /\ prevEpochs[i] <= epoch'[prevSlots[i]]
                 /\ epoch'[prevSlots[i]] = prevEpochs[i] =>
                        \A k \in 1..Width(indptr, i) :
                            /\ k <= Len(table'[prevSlots[i]])
                            /\ indices[indptr[i] + k] = table'[prevSlots[i]][k]
      <3>1. PICK s \in Slots : s = prevSlots[i]
        BY <2>2
      <3>2. /\ epoch[s] \in Nat /\ epoch'[s] \in Nat /\ epoch[s] <= epoch'[s]
            /\ epoch'[s] = epoch[s] => StartsWith(table'[s], table[s])
        BY <1>2, <2>1 DEF TablesGrow
      <3>3. /\ prevEpochs[i] \in Nat /\ prevEpochs[i] <= epoch[s]
            /\ epoch[s] = prevEpochs[i] =>
                   \A k \in 1..Width(indptr, i) : /\ k <= Len(table[s])
                                                  /\ indices[indptr[i] + k] = table[s][k]
        BY <2>2, <3>1, Zenon DEF StillPrefix
      <3>4. prevEpochs[i] <= epoch'[s]
        BY <3>2, <3>3
      <3>5. ASSUME epoch'[s] = prevEpochs[i], NEW k \in 1..Width(indptr, i)
            PROVE  k <= Len(table'[s]) /\ indices[indptr[i] + k] = table'[s][k]
        <4>1. epoch'[s] = epoch[s] /\ epoch[s] = prevEpochs[i]
          BY <3>2, <3>3, <3>5
        <4>2. k <= Len(table[s]) /\ indices[indptr[i] + k] = table[s][k]
          BY <3>3, <4>1
        <4>3. Len(table[s]) <= Len(table'[s]) /\ \A j \in 1..Len(table[s]) : table'[s][j] = table[s][j]
          BY <3>2, <4>1 DEF StartsWith
        <4>4. Len(table[s]) \in Nat /\ Len(table'[s]) \in Nat
          <5>1. PoolInv'
            BY <1>1, PoolInvStep
          <5>2. table[s] \in Seq(Pages) /\ table'[s] \in Seq(Pages)
            BY <5>1 DEF PoolInv, PoolTypes
          <5> QED  BY <5>2
        <4>5. k \in Int /\ k >= 1
          OBVIOUS
        <4>6. k <= Len(table'[s]) /\ k \in 1..Len(table[s])
          BY <4>2, <4>3, <4>4, <4>5
        <4> QED  BY <4>2, <4>3, <4>6
      <3> QED  BY <3>1, <3>3, <3>4, <3>5
    <2> QED  BY <1>3, <2>3, Zenon DEF StillPrefix, Width
  <1>5. MetadataCurrent'
    BY <1>1 DEF MetadataCurrent
  <1> QED  BY <1>2, <1>3, <1>4, <1>5 DEF MetaInv

\* A decode step leaves the copy of its batch.
LEMMA UpdateMeta ==
    ASSUME PoolInv, KVInv, MetaInv, NEW b \in Batches, update(b)
    PROVE  MetaInv'
  <1>1. /\ indices' = Updated(indices, b) /\ device' = Updated(device, b)
        /\ indptr' = build_indptr(b) /\ total' = Len(flatten_page_indices(b))
        /\ prevSlots' = b /\ prevEpochs' = epochsOf(b) /\ batch' = b /\ UNCHANGED vars
    BY DEF update
  <1>2. epoch' = epoch /\ table' = table
    BY <1>1 DEF vars, poolVars
  <1>3. b \in Seq(Slots) /\ b /= << >> /\ table \in [Slots -> Seq(Pages)]
    BY BatchIsSeq DEF PoolInv, PoolTypes
  <1>4. PICK F : F = flatten_page_indices(b)
    OBVIOUS
  <1>5. PICK r : r = build_indptr(b)
    OBVIOUS
  <1>6. F \in Seq(Pages) /\ Len(F) = r[Len(b) + 1] /\ Lists(F, r, b)
    BY <1>3, <1>4, <1>5, FlattenIs
  <1>7. Offsets(r, Len(b)) /\ \A i \in 1..Len(b) : r[i + 1] = r[i] + Len(table[b[i]])
    BY <1>3, <1>5, IndptrIs
  <1>8. indices' = F /\ device' = F /\ indptr' = r /\ total' = Len(F)
    BY <1>1, <1>4, <1>5, UpdatedIsFlatten DEF MetaInv
  <1>9. epoch \in [Slots -> Nat]
    BY DEF MetaInv
  <1>10. ASSUME NEW i \in 1..Len(b)
         PROVE  /\ prevEpochs'[i] = epoch[b[i]] /\ epoch[b[i]] \in Nat
                /\ \A k \in 1..Width(r, i) : k <= Len(table[b[i]]) /\ F[r[i] + k] = table[b[i]][k]
    <2>1. i \in DOMAIN b /\ b[i] \in Slots
      BY <1>3
    <2>2. prevEpochs'[i] = epoch[b[i]] /\ epoch[b[i]] \in Nat
      BY <1>1, <1>9, <2>1 DEF epochsOf
    <2>3. PICK l \in Nat : l = Len(table[b[i]])
      BY <1>3, <2>1
    <2>4. PICK x \in Nat : x = r[i]
      <3>1. i \in 1..Len(b) + 1
        BY <1>3
      <3> QED  BY <1>7, <3>1 DEF Offsets
    <2>5. Width(r, i) = (x + l) - x
      BY <1>7, <2>3, <2>4, Zenon DEF Width
    <2>6. Width(r, i) = l
      BY <2>5
    <2> QED  BY <1>6, <2>2, <2>3, <2>6 DEF Lists
  <1>11. StillPrefix'
    <2>1. ASSUME NEW i \in 1..Len(b)
          PROVE  /\ prevEpochs'[i] \in Nat /\ prevEpochs'[i] <= epoch[b[i]]
                 /\ \A k \in 1..Width(r, i) : k <= Len(table[b[i]]) /\ F[r[i] + k] = table[b[i]][k]
      <3>1. PICK e \in Nat : e = epoch[b[i]] /\ prevEpochs'[i] = e
        BY <1>10
      <3>2. e <= e
        OBVIOUS
      <3> QED  BY <1>10, <3>1, <3>2
    <2>2. prevSlots' = b
      BY <1>1
    <2> QED  BY <1>2, <1>8, <2>1, <2>2, Zenon DEF StillPrefix, Width
  <1>12. MetadataCurrent'
    <2>1. device' = FlatIn(table', b) /\ indptr' = OffsetsIn(table', b) /\ batch' = b
      BY <1>1, <1>2, <1>4, <1>5, <1>8, RebuildOf
    <2> QED  BY <2>1, RebuildOf, Zenon
  <1>13. Offsets(indptr', Len(b)) /\ indptr'[Len(b) + 1] = total'
    BY <1>6, <1>7, <1>8
  <1>14. (prevSlots' /= << >> => /\ Offsets(indptr', Len(prevSlots'))
                                 /\ indptr'[Len(prevSlots') + 1] = total')
    BY <1>1, <1>13, Zenon
  <1> QED  BY <1>1, <1>2, <1>3, <1>6, <1>8, <1>9, <1>11, <1>12, <1>14, Zenon DEF MetaInv, Offsets

\* A mixed batch leaves its copy and forgets the batch.
LEMMA MixedMeta ==
    ASSUME PoolInv, MetaInv, NEW b \in Batches, update_mixed_batch(b)
    PROVE  MetaInv'
  <1>1. /\ indptr' = build_indptr(b) /\ indices' = flatten_page_indices(b) /\ device' = indices'
        /\ total' = Len(indices') /\ prevSlots' = << >> /\ batch' = b /\ UNCHANGED vars
    BY DEF update_mixed_batch
  <1>2. epoch' = epoch /\ table' = table
    BY <1>1 DEF vars, poolVars
  <1>3. b \in Seq(Slots) /\ b /= << >> /\ table \in [Slots -> Seq(Pages)]
    BY BatchIsSeq DEF PoolInv, PoolTypes
  <1>4. PICK F : F = flatten_page_indices(b)
    OBVIOUS
  <1>5. F \in Seq(Pages)
    BY <1>3, <1>4, FlattenIs
  <1>6. prevSlots' \in Seq(Slots) /\ StillPrefix'
    BY <1>1 DEF StillPrefix
  <1>7. MetadataCurrent'
    <2>1. device' = FlatIn(table', b) /\ indptr' = OffsetsIn(table', b) /\ batch' = b
      BY <1>1, <1>2, RebuildOf
    <2> QED  BY <2>1, RebuildOf, Zenon
  <1> QED  BY <1>1, <1>2, <1>4, <1>5, <1>6, <1>7 DEF MetaInv

\* So does a sparse view, which no batch reads.
LEMMA SparseMeta ==
    ASSUME PoolInv, MetaInv, NEW s \in Slots, NEW i \in DOMAIN table[s],
           update_sparse_single(s, SubSeq(table[s], i, Len(table[s])))
    PROVE  MetaInv'
  <1>1. PICK X \in Seq(Pages) : X = table[s]
    BY DEF PoolInv, PoolTypes
  <1>2. PICK Y : Y = SubSeq(X, i, Len(X))
    OBVIOUS
  <1>3. Y \in Seq(Pages)
    <2>1. i \in 1..Len(X)
      BY <1>1
    <2> QED  BY <1>2, <2>1
  <1>4. /\ indices' = Y /\ device' = Y /\ total' = Len(Y) /\ prevSlots' = << >>
        /\ batch' = << >> /\ UNCHANGED vars
    BY <1>1, <1>2, Zenon DEF update_sparse_single
  <1>5. epoch' = epoch
    BY <1>4 DEF vars, poolVars
  <1>6. prevSlots' \in Seq(Slots) /\ StillPrefix'
    BY <1>4 DEF StillPrefix
  <1> QED  BY <1>3, <1>4, <1>5, <1>6 DEF MetaInv, MetadataCurrent

\* Nothing happens.
LEMMA StutterMeta ==
    ASSUME MetaInv, UNCHANGED allVars
    PROVE  MetaInv'
  <1>1. /\ indptr' = indptr /\ indices' = indices /\ device' = device /\ total' = total
        /\ prevSlots' = prevSlots /\ prevEpochs' = prevEpochs /\ batch' = batch
        /\ table' = table /\ epoch' = epoch
    BY DEF allVars, vars, poolVars, metaVars
  <1>2. MetadataCurrent'
    BY <1>1, RebuildOf DEF MetaInv
  <1>3. StillPrefix => StillPrefix'
    BY <1>1 DEF StillPrefix, Width
  <1> QED  BY <1>1, <1>2, <1>3 DEF MetaInv, Offsets

\* Every step keeps the invariant when uploads go through.
LEMMA MetaInvStep ==
    ASSUME PageSize > 1 \/ ~CrossSlotAttach, ~UploadMayFail,
           PoolInv, KVInv, MetaInv, [MetaNext]_allVars
    PROVE  MetaInv'
  <1>1. ASSUME NEW b \in Batches, update_fails(b) PROVE FALSE
    BY <1>1 DEF update_fails
  <1>2. CASE MetaNext
    BY <1>1, <1>2, PoolStepMeta, UpdateMeta, MixedMeta, SparseMeta, Zenon DEF MetaNext
  <1>3. CASE UNCHANGED allVars
    BY <1>3, StutterMeta
  <1> QED  BY <1>2, <1>3

\* What happens to the metadata is a step of the pool, or none.
LEMMA MetaStepIsPoolStep == [MetaNext]_allVars => [Next]_vars
  <1>1. ASSUME MetaNext PROVE [Next]_vars
    <2>1. ASSUME NEW b, update(b) \/ update_fails(b) \/ update_mixed_batch(b) PROVE UNCHANGED vars
      BY <2>1, Zenon DEF update, update_fails, update_mixed_batch
    <2>2. ASSUME NEW s, NEW pages, update_sparse_single(s, pages) PROVE UNCHANGED vars
      BY <2>2, Zenon DEF update_sparse_single
    <2>3. ASSUME PoolStep PROVE Next
      BY <2>3 DEF PoolStep
    <2> QED  BY <1>1, <2>1, <2>2, <2>3, Zenon DEF MetaNext
  <1>2. ASSUME UNCHANGED allVars PROVE UNCHANGED vars
    BY <1>2 DEF allVars
  <1> QED  BY <1>1, <1>2

\* The page list and the offsets that decode attention is given are those of the
\* batch, for any pool, slots and batches, whichever shortcut update takes
\* (TileLangDecodeMetadata::update) and whatever the pool did between two steps:
\* the splice moves each segment before anything is written over it, and with
\* pages of one token, where no page is compared, an unchanged slot epoch means
\* that the table was only appended to.  Uploads are taken to succeed; borrowed
\* prefixes of pages of one token are left out as in KVNeverOverwritten.
THEOREM MetadataIsCurrent ==
    ASSUME PageSize > 1 \/ ~CrossSlotAttach, ~UploadMayFail
    PROVE  MetaSpec => []MetadataCurrent
  <1>1. MetaInit => PoolInv /\ KVInv /\ MetaInv
    BY PoolInvInit, KVInvInit, MetaInvInit DEF MetaInit
  <1>2. PoolInv /\ KVInv /\ MetaInv /\ [MetaNext]_allVars => PoolInv' /\ KVInv' /\ MetaInv'
    BY MetaStepIsPoolStep, PoolInvStep, KVInvStep, MetaInvStep
  <1>3. MetaInv => MetadataCurrent
    BY DEF MetaInv
  <1> QED  BY <1>1, <1>2, <1>3, PTL DEF MetaSpec
==============================================================================
