---------------------------- MODULE PagedKVProofs ----------------------------
(***************************************************************************)
(* Proofs about PagedKV for every set of pages, finite set of slots, page  *)
(* size and block size.  The counts are exact because a slot lists no page *)
(* twice; that a borrowed prefix lists none twice is not local: it rests   *)
(* on every page having one place in one block (Aligned), wherever it is   *)
(* listed.  That nobody's rows are overwritten rests on the counts: a page *)
(* that is written is either fresh or the last of its only reader (KVInv). *)
(***************************************************************************)
EXTENDS PagedKV, FiniteSetTheorems, SequenceTheorems, TLAPS

------------------------------------------------------------------------------
(* Arithmetic of pages and blocks *)

\* A block is a whole number of pages.
LEMMA BlockIsPages ==
    PagesPerBlock \in Nat \ {0} /\ PagesPerBlock * PageSize = BlockSize
  <1>1. \A n \in Nat, d \in Nat \ {0} : /\ n \div d \in Nat /\ n % d \in 0..d - 1
                                        /\ n = d * (n \div d) + (n % d)
    OBVIOUS
  <1>2. PICK q, n, d : q = PagesPerBlock /\ n = BlockSize /\ d = PageSize
    OBVIOUS
  <1>3. n \in Nat \ {0} /\ d \in Nat \ {0} /\ q \in Nat /\ n = d * q + 0
    BY <1>1, <1>2, PageSizeAssumption, BlockSizeAssumption DEF PagesPerBlock
  <1>4. q /= 0
    BY <1>3
  <1> QED  BY <1>2, <1>3, <1>4

\* Rounding up to units of d.
LEMMA CeilDivBounds ==
    ASSUME NEW n \in Nat, NEW d \in Nat \ {0}
    PROVE  /\ CeilDiv(n, d) \in Nat
           /\ n <= CeilDiv(n, d) * d /\ CeilDiv(n, d) * d < n + d
  BY DEF CeilDiv

\* Products keep and reflect the order.
LEMMA TimesOrder ==
    ASSUME NEW a \in Nat, NEW b \in Nat, NEW d \in Nat \ {0}
    PROVE  /\ a * d \in Nat /\ b * d \in Nat
           /\ a <= b => a * d <= b * d
           /\ a * d < b * d => a < b
           /\ a * d < b * d + d => a <= b
  OBVIOUS

\* Where the first page of the block that holds the i-th page is.
HeadOf(i, d) == i - ((i - 1) % d)

\* The i-th page lies in block CeilDiv(i, d), at offset (i - 1) % d, behind
\* the block's first page.
LEMMA Placement ==
    ASSUME NEW i \in Nat \ {0}, NEW d \in Nat \ {0}
    PROVE  /\ (i - 1) % d \in 0..d - 1 /\ HeadOf(i, d) \in 1..i
           /\ CeilDiv(i, d) \in Nat \ {0}
           /\ i = (CeilDiv(i, d) - 1) * d + ((i - 1) % d) + 1
           /\ HeadOf(i, d) = (CeilDiv(i, d) - 1) * d + 1
  <1>1. PICK m \in Nat : m = i - 1
    OBVIOUS
  <1>2. /\ m \div d \in Nat /\ m % d \in 0..d - 1 /\ m = d * (m \div d) + (m % d)
    OBVIOUS
  <1>3. (m + d) \div d = m \div d + 1
    BY <1>2
  <1>4. CeilDiv(i, d) = m \div d + 1
    BY <1>1, <1>3 DEF CeilDiv
  <1>5. d * (m \div d) = (m \div d) * d /\ m \div d + 1 - 1 = m \div d
    BY <1>2
  <1> QED  BY <1>1, <1>2, <1>4, <1>5 DEF HeadOf

\* The j-th page of the k-th block.
LEMMA PlaceInBlock ==
    ASSUME NEW d \in Nat \ {0}, NEW k \in Nat, NEW j \in 1..d
    PROVE  /\ k * d + j \in Nat \ {0} /\ (k * d + j - 1) % d = j - 1
           /\ CeilDiv(k * d + j, d) = k + 1 /\ HeadOf(k * d + j, d) = k * d + 1
  <1>1. k * d \in Nat
    OBVIOUS
  <1>2. PICK r \in 0..d - 1 : r = j - 1
    OBVIOUS
  <1>3. (k * d + r) % d = r /\ (k * d + r) \div d = k
    OBVIOUS
  <1>4. k * d + j - 1 = k * d + r
    BY <1>1, <1>2
  <1>5. (k * d + r + d) \div d = k + 1
    <2>1. (k + 1) * d = k * d + d /\ (k + 1) * d \in Nat
      OBVIOUS
    <2>2. ((k + 1) * d + r) \div d = k + 1
      OBVIOUS
    <2> QED  BY <1>1, <2>1, <2>2
  <1>6. k * d + j + d - 1 = k * d + r + d
    BY <1>1, <1>2
  <1> QED  BY <1>1, <1>2, <1>3, <1>4, <1>5, <1>6 DEF CeilDiv, HeadOf

------------------------------------------------------------------------------
(* Occurrences *)

\* How often a page is in a list is a natural number, zero if it is not there.
LEMMA OccType ==
    ASSUME NEW n \in Nat, NEW f, DOMAIN f = 1..n, NEW p
    PROVE  Occurrences(f, p) \in Nat /\ (Occurrences(f, p) = 0 <=> p \notin Range(f))
  <1>1. PICK I : I = {i \in DOMAIN f : f[i] = p}
    OBVIOUS
  <1>2. I \in SUBSET (1..n) /\ IsFiniteSet(1..n)
    BY <1>1, FS_Interval
  <1>3. IsFiniteSet(I) /\ Cardinality(I) \in Nat
    BY <1>2, FS_Subset, FS_CardinalityType
  <1>4. Cardinality(I) = 0 <=> I = {}
    BY <1>3, FS_EmptySet
  <1>5. I = {} <=> p \notin Range(f)
    BY <1>1 DEF Range
  <1> QED  BY <1>1, <1>3, <1>4, <1>5, Zenon DEF Occurrences

Injective(f) == \A i, j \in DOMAIN f : f[i] = f[j] => i = j

\* A list without repetitions has a page once or not at all.
LEMMA OccOnce ==
    ASSUME NEW n \in Nat, NEW f, DOMAIN f = 1..n, Injective(f), NEW p
    PROVE  Occurrences(f, p) = IF p \in Range(f) THEN 1 ELSE 0
  <1>1. CASE p \notin Range(f)
    BY <1>1, OccType
  <1>2. CASE p \in Range(f)
    <2>1. PICK i \in DOMAIN f : f[i] = p
      BY <1>2 DEF Range
    <2>2. {j \in DOMAIN f : f[j] = p} = {i}
      BY <2>1 DEF Injective
    <2>3. Cardinality({i}) = 1
      BY FS_Singleton
    <2> QED  BY <1>2, <2>2, <2>3, Zenon DEF Occurrences
  <1> QED  BY <1>1, <1>2

\* A list that has each page at most once has no repetitions.
LEMMA OccInjective ==
    ASSUME NEW n \in Nat, NEW S, NEW f \in [1..n -> S], \A p \in S : Occurrences(f, p) <= 1
    PROVE  Injective(f)
  <1> SUFFICES ASSUME NEW i \in 1..n, NEW j \in 1..n, f[i] = f[j], i /= j PROVE FALSE
    BY DEF Injective
  <1>1. PICK I : I = {k \in DOMAIN f : f[k] = f[i]}
    OBVIOUS
  <1>2. I \in SUBSET (1..n) /\ IsFiniteSet(1..n)
    BY <1>1, FS_Interval
  <1>3. IsFiniteSet(I) /\ Cardinality(I) \in Nat
    BY <1>2, FS_Subset, FS_CardinalityType
  <1>4. {i, j} \in SUBSET I
    BY <1>1
  <1>5. Cardinality({i, j}) = 2
    <2>1. IsFiniteSet({i}) /\ Cardinality({i}) = 1 /\ {i} \cup {j} = {i, j} /\ j \notin {i}
      BY FS_Singleton
    <2>2. Cardinality({i} \cup {j}) = Cardinality({i}) + 1
      BY <2>1, FS_AddElement
    <2> QED  BY <2>1, <2>2
  <1>6. Cardinality({i, j}) <= Cardinality(I)
    BY <1>3, <1>4, FS_Subset
  <1>7. Cardinality(I) <= 1
    BY <1>1, Zenon DEF Occurrences
  <1> QED  BY <1>3, <1>5, <1>6, <1>7

------------------------------------------------------------------------------
(* The inductive invariant *)

Listed(p) == {s \in Slots : p \in Range(table[s])}
Holders(p) == Cardinality(Listed(p))

PoolTypes ==
    /\ free \in [Pages -> Nat] /\ attach \in [Pages -> Nat] /\ ref \in [Pages -> Nat]
    /\ table \in [Slots -> Seq(Pages)] /\ seqLen \in [Slots -> Nat]
    /\ blockPages \in [Pages -> Seq(Pages)]

\* A slot lists a page once, and has a page for each of its tokens.
TablesSound ==
    \A s \in Slots : Injective(table[s]) /\ seqLen[s] <= Len(table[s]) * PageSize

\* An indexed block is whole, is found under its first page, and is retained.
BlockWhole(b) ==
    blockPages[b] /= << >> =>
        /\ Len(blockPages[b]) = PagesPerBlock /\ blockPages[b][1] = b
        /\ \A i \in DOMAIN blockPages[b] : ref[blockPages[b][i]] > 0

BlocksWhole == \A b \in Pages : BlockWhole(b)

\* Each page of the list has the offset, and the block's first page, that off
\* and head assign to it.
Fits(X, off, head) ==
    \A i \in DOMAIN X : /\ off[X[i]] = (i - 1) % PagesPerBlock
                        /\ head[X[i]] = X[HeadOf(i, PagesPerBlock)]

\* Wherever a page is listed, by a slot or by the prefix cache, it has the same
\* place in a block that begins with the same page.  Hence no two indexed
\* blocks share a page, and borrowing several lists no page twice.
PlacesAgree(off, head) ==
    /\ \A s \in Slots : Fits(table[s], off, head)
    /\ \A b \in Pages : Fits(blockPages[b], off, head)

Aligned == \E off, head : PlacesAgree(off, head)

PoolInv ==
    /\ PoolTypes /\ TablesSound /\ BlocksWhole /\ Aligned
    /\ AttachExactButLostCopies /\ FreeExactlyUnreferenced

Lost(p) == CopyMayFail /\ Holders(p) = 0 /\ attach[p] = 1 /\ ref[p] = 0

\* The attach invariant in terms of Holders.
LEMMA AttachView == AttachExactButLostCopies <=> \A p \in Pages : attach[p] = Holders(p) \/ Lost(p)
  BY Zenon DEF AttachExactButLostCopies, Holders, Listed, Lost

\* Only finitely many slots can list a page.
LEMMA HoldersType ==
    ASSUME NEW p
    PROVE  /\ IsFiniteSet(Listed(p)) /\ Holders(p) \in Nat
           /\ Holders(p) = 0 <=> \A s \in Slots : p \notin Range(table[s])
  <1>1. Listed(p) \in SUBSET Slots
    BY DEF Listed
  <1>2. IsFiniteSet(Listed(p)) /\ Holders(p) \in Nat
    BY <1>1, SlotsAssumption, FS_Subset, FS_CardinalityType DEF Holders
  <1>3. Holders(p) = 0 <=> Listed(p) = {}
    BY <1>2, FS_EmptySet DEF Holders
  <1> QED  BY <1>2, <1>3 DEF Listed

\* One table changes: each page gains or loses that one holder.
LEMMA HoldersStep ==
    ASSUME table \in [Slots -> Seq(Pages)], NEW s \in Slots, NEW X,
           table' = [table EXCEPT ![s] = X], NEW p
    PROVE  Holders(p)' =
               IF p \in Range(X) /\ p \notin Range(table[s]) THEN Holders(p) + 1
               ELSE IF p \notin Range(X) /\ p \in Range(table[s]) THEN Holders(p) - 1
               ELSE Holders(p)
  <1>1. PICK old, new : old = Listed(p) /\ new = Listed(p)'
    OBVIOUS
  <1>2. /\ IsFiniteSet(old) /\ Cardinality(old) \in Nat
        /\ Holders(p) = Cardinality(old) /\ Holders(p)' = Cardinality(new)
    BY <1>1, HoldersType DEF Holders
  <1>3. /\ s \in old <=> p \in Range(table[s])
        /\ s \in new <=> p \in Range(X)
    BY <1>1 DEF Listed
  <1>4. new \cup {s} = old \cup {s} /\ new \ {s} = old \ {s}
    BY <1>1 DEF Listed
  <1>5. CASE s \in new /\ s \notin old
    <2>1. new = old \cup {s}
      BY <1>4, <1>5
    <2>2. Cardinality(new) = Cardinality(old) + 1
      BY <1>2, <1>5, <2>1, FS_AddElement
    <2> QED  BY <1>2, <1>3, <1>5, <2>2
  <1>6. CASE s \notin new /\ s \in old
    <2>1. new = old \ {s}
      BY <1>4, <1>6
    <2>2. Cardinality(new) = Cardinality(old) - 1
      BY <1>2, <1>6, <2>1, FS_RemoveElement
    <2> QED  BY <1>2, <1>3, <1>6, <2>2
  <1>7. CASE s \in new <=> s \in old
    <2>1. new = old
      <3>1. ASSUME NEW x PROVE x \in new <=> x \in old
        BY <1>4, <1>7, <3>1
      <3> QED  BY <3>1
    <2> QED  BY <1>2, <1>3, <1>7, <2>1
  <1> QED  BY <1>5, <1>6, <1>7

\* The attach counts follow the replacement of the table T by X.
AttachFollows(T, X) ==
    \A p \in Pages :
        /\ p \in Range(X) /\ p \notin Range(T) => attach'[p] = attach[p] + 1 /\ ~Lost(p)
        /\ p \notin Range(X) /\ p \in Range(T) => attach'[p] = attach[p] - 1
        /\ (p \in Range(X) <=> p \in Range(T)) =>
               attach'[p] = attach[p] /\ (ref[p] = 0 /\ p \notin Range(X) => ref'[p] = 0)

\* The attach counts stay exact when one table changes, pages that are new in
\* it were counted exactly, and the counts follow.
LEMMA AttachStep ==
    ASSUME PoolInv, NEW s \in Slots, NEW X, table' = [table EXCEPT ![s] = X],
           attach' \in [Pages -> Nat],
           AttachFollows(table[s], X)
    PROVE  AttachExactButLostCopies'
  <1>1. ASSUME NEW p \in Pages PROVE attach'[p] = Holders(p)' \/ Lost(p)'
    <2>1. attach[p] = Holders(p) \/ Lost(p)
      BY AttachView DEF PoolInv
    <2>2. Holders(p) \in Nat /\ attach[p] \in Nat
      BY HoldersType DEF PoolInv, PoolTypes
    <2>3. p \in Range(table[s]) => Holders(p) /= 0
      BY HoldersType
    <2>4. Holders(p)' =
               IF p \in Range(X) /\ p \notin Range(table[s]) THEN Holders(p) + 1
               ELSE IF p \notin Range(X) /\ p \in Range(table[s]) THEN Holders(p) - 1
               ELSE Holders(p)
      BY HoldersStep, Zenon DEF PoolInv, PoolTypes
    <2>5. CASE p \in Range(X) /\ p \notin Range(table[s])
      BY <2>1, <2>2, <2>4, <2>5 DEF AttachFollows
    <2>6. CASE p \notin Range(X) /\ p \in Range(table[s])
      BY <2>1, <2>2, <2>3, <2>4, <2>6 DEF Lost, AttachFollows
    <2>7. CASE p \in Range(X) /\ p \in Range(table[s])
      BY <2>1, <2>2, <2>3, <2>4, <2>7 DEF Lost, AttachFollows
    <2>8. CASE p \notin Range(X) /\ p \notin Range(table[s])
      BY <2>1, <2>2, <2>4, <2>8 DEF Lost, AttachFollows
    <2> QED  BY <2>5, <2>6, <2>7, <2>8
  <1> QED  BY <1>1, Zenon DEF AttachExactButLostCopies, Holders, Listed, Lost

\* A popped page is held by nobody, and no page is popped twice.
LEMMA PopsFresh ==
    ASSUME PoolInv, NEW n \in Nat, NEW f \in Pops(n)
    PROVE  /\ f \in [1..n -> Pages] /\ Injective(f)
           /\ \A p \in Pages : AfterPops(f)[p] = IF p \in Range(f) THEN 0 ELSE free[p]
           /\ \A p \in Range(f) :
                  /\ p \in Pages /\ free[p] = 1 /\ attach[p] = 0 /\ ref[p] = 0 /\ ~Lost(p)
                  /\ \A s \in Slots : p \notin Range(table[s])
                  /\ \A b \in Pages : p \notin Range(blockPages[b])
  <1>1. f \in [1..n -> Pages] /\ \A p \in Pages : Occurrences(f, p) <= free[p]
    BY DEF Pops
  <1>2. \A p \in Pages : free[p] \in Nat /\ attach[p] \in Nat /\ ref[p] \in Nat
    BY DEF PoolInv, PoolTypes
  <1>3. \A p \in Pages : free[p] = IF attach[p] = 0 /\ ref[p] = 0 THEN 1 ELSE 0
    BY DEF PoolInv, FreeExactlyUnreferenced
  <1>4. \A p \in Pages : Occurrences(f, p) \in Nat /\ (Occurrences(f, p) = 0 <=> p \notin Range(f))
    BY <1>1, OccType
  <1>5. \A p \in Pages : Occurrences(f, p) <= 1
    BY <1>1, <1>3, <1>4
  <1>6. Injective(f)
    BY <1>1, <1>5, OccInjective
  <1>7. ASSUME NEW p \in Pages
        PROVE  AfterPops(f)[p] = IF p \in Range(f) THEN 0 ELSE free[p]
    <2>1. Occurrences(f, p) = IF p \in Range(f) THEN 1 ELSE 0
      BY <1>1, <1>6, OccOnce
    <2>2. Occurrences(f, p) <= free[p]
      BY <1>1
    <2>3. AfterPops(f)[p] = free[p] - Occurrences(f, p)
      BY DEF AfterPops
    <2> QED  BY <1>2, <1>3, <2>1, <2>2, <2>3
  <1>8. ASSUME NEW p \in Range(f)
        PROVE  /\ p \in Pages /\ free[p] = 1 /\ attach[p] = 0 /\ ref[p] = 0 /\ ~Lost(p)
               /\ \A s \in Slots : p \notin Range(table[s])
               /\ \A b \in Pages : p \notin Range(blockPages[b])
    <2>1. p \in Pages
      BY <1>1 DEF Range
    <2>2. free[p] = 1 /\ attach[p] = 0 /\ ref[p] = 0 /\ ~Lost(p)
      BY <1>1, <1>2, <1>3, <1>4, <1>8, <2>1 DEF Lost
    <2>3. Holders(p) = 0
      BY <2>1, <2>2, AttachView DEF PoolInv
    <2>4. \A s \in Slots : p \notin Range(table[s])
      BY <2>3, HoldersType
    <2>5. ASSUME NEW b \in Pages PROVE p \notin Range(blockPages[b])
      <3>1. blockPages[b] \in Seq(Pages) /\ BlockWhole(b)
        BY DEF PoolInv, PoolTypes, BlocksWhole
      <3> QED  BY <2>2, <3>1 DEF BlockWhole, Range
    <2> QED  BY <2>1, <2>2, <2>4, <2>5
  <1> QED  BY <1>1, <1>6, <1>7, <1>8

------------------------------------------------------------------------------
(* Places *)

\* The place of a page in its block does not depend on what is behind it.
LEMMA FitsPrefix ==
    ASSUME NEW X \in Seq(Pages), NEW off, NEW head, Fits(X, off, head), NEW k \in 0..Len(X)
    PROVE  Fits(SubSeq(X, 1, k), off, head)
  <1>1. PICK d \in Nat \ {0} : d = PagesPerBlock
    BY BlockIsPages
  <1>2. PICK Y : Y = SubSeq(X, 1, k)
    OBVIOUS
  <1>3. DOMAIN Y = 1..k /\ \A i \in 1..k : Y[i] = X[i]
    BY <1>2
  <1>4. ASSUME NEW i \in 1..k PROVE off[Y[i]] = (i - 1) % d /\ head[Y[i]] = Y[HeadOf(i, d)]
    <2>1. HeadOf(i, d) \in 1..k
      <3>1. i \in Nat \ {0} /\ k \in Nat
        OBVIOUS
      <3>2. HeadOf(i, d) \in 1..i
        BY <3>1, Placement
      <3> QED  BY <3>1, <3>2
    <2>2. off[X[i]] = (i - 1) % d /\ head[X[i]] = X[HeadOf(i, d)]
      BY <1>1 DEF Fits
    <2> QED  BY <1>3, <2>1, <2>2
  <1> QED  BY <1>1, <1>2, <1>3, <1>4 DEF Fits

\* A list whose pages keep their places.
LEMMA FitsKept ==
    ASSUME NEW X, NEW off, NEW head, NEW off2, NEW head2, Fits(X, off, head),
           \A i \in DOMAIN X : off2[X[i]] = off[X[i]] /\ head2[X[i]] = head[X[i]]
    PROVE  Fits(X, off2, head2)
  BY DEF Fits

\* The first k pages of a list have their places, the others are in F.
FitsTo(X, k, F, off, head) ==
    /\ \A i \in 1..k : /\ off[X[i]] = (i - 1) % PagesPerBlock
                       /\ head[X[i]] = X[HeadOf(i, PagesPerBlock)]
                       /\ X[i] \notin F
    /\ \A i \in DOMAIN X : i > k => X[i] \in F

\* The list can be given places that move no page outside F.
Extends(X, F, off, head) ==
    \E off2, head2 :
        /\ Fits(X, off2, head2)
        /\ \A p \in Pages : p \notin F => off2[p] = off[p] /\ head2[p] = head[p]

\* Fresh pages F behind the first k pages of a list can be given their places
\* without moving any other page.
LEMMA FitsFresh ==
    ASSUME NEW X \in Seq(Pages), Injective(X), NEW k \in 0..Len(X), NEW F, NEW off, NEW head,
           FitsTo(X, k, F, off, head)
    PROVE  Extends(X, F, off, head)
  <1>1. PICK d \in Nat \ {0} : d = PagesPerBlock
    BY BlockIsPages
  <1> DEFINE at(p) == CHOOSE i \in DOMAIN X : X[i] = p
             off2 == [p \in Pages |-> IF p \in F THEN (at(p) - 1) % d ELSE off[p]]
             head2 == [p \in Pages |-> IF p \in F THEN X[HeadOf(at(p), d)] ELSE head[p]]
  <1>2. ASSUME NEW i \in DOMAIN X PROVE at(X[i]) = i /\ X[i] \in Pages
    BY DEF Injective
  <1>3. ASSUME NEW i \in DOMAIN X
        PROVE  off2[X[i]] = (i - 1) % d /\ head2[X[i]] = X[HeadOf(i, d)]
    <2>1. CASE i > k
      <3>1. X[i] \in F
        BY <2>1 DEF FitsTo
      <3> HIDE DEF at
      <3> QED  BY <1>2, <3>1
    <2>2. CASE ~(i > k)
      <3>1. i \in 1..k
        BY <2>2
      <3>2. X[i] \notin F /\ off[X[i]] = (i - 1) % d /\ head[X[i]] = X[HeadOf(i, d)]
        BY <1>1, <3>1 DEF FitsTo
      <3> HIDE DEF at
      <3> QED  BY <1>2, <3>2
    <2> QED  BY <2>1, <2>2
  <1>4. \A p \in Pages : p \notin F => off2[p] = off[p] /\ head2[p] = head[p]
    OBVIOUS
  <1> HIDE DEF off2, head2
  <1>5. Fits(X, off2, head2)
    BY <1>1, <1>3 DEF Fits
  <1> QED  BY <1>4, <1>5 DEF Extends

\* Pages nobody lists can be put behind the first k pages of a list.
LEMMA AlignedFresh ==
    ASSUME PoolInv, NEW off, NEW head, PlacesAgree(off, head),
           NEW X \in Seq(Pages), Injective(X), NEW k \in 0..Len(X), NEW F,
           FitsTo(X, k, F, off, head),
           \A p \in F : /\ \A s \in Slots : p \notin Range(table[s])
                       /\ \A b \in Pages : p \notin Range(blockPages[b]),
           \A s \in Slots : table'[s] = table[s] \/ table'[s] = X,
           \A b \in Pages : blockPages'[b] = blockPages[b] \/ blockPages'[b] = X
    PROVE  Aligned'
  <1>1. PICK off2, head2 :
            /\ Fits(X, off2, head2)
            /\ \A p \in Pages : p \notin F => off2[p] = off[p] /\ head2[p] = head[p]
    <2>1. Extends(X, F, off, head)
      BY FitsFresh
    <2> QED  BY <2>1 DEF Extends
  <1>2. ASSUME NEW Y \in Seq(Pages), Fits(Y, off, head), \A i \in DOMAIN Y : Y[i] \notin F
        PROVE  Fits(Y, off2, head2)
    <2>1. \A i \in DOMAIN Y : off2[Y[i]] = off[Y[i]] /\ head2[Y[i]] = head[Y[i]]
      BY <1>1, <1>2
    <2> QED  BY <1>2, <2>1, FitsKept
  <1>3. ASSUME NEW s \in Slots PROVE Fits(table'[s], off2, head2)
    <2>1. table[s] \in Seq(Pages) /\ Fits(table[s], off, head)
      BY DEF PoolInv, PoolTypes, PlacesAgree
    <2>2. \A i \in DOMAIN table[s] : table[s][i] \notin F
      BY DEF Range
    <2> QED  BY <1>1, <1>2, <2>1, <2>2
  <1>4. ASSUME NEW b \in Pages PROVE Fits(blockPages'[b], off2, head2)
    <2>1. blockPages[b] \in Seq(Pages) /\ Fits(blockPages[b], off, head)
      BY DEF PoolInv, PoolTypes, PlacesAgree
    <2>2. \A i \in DOMAIN blockPages[b] : blockPages[b][i] \notin F
      BY DEF Range
    <2> QED  BY <1>1, <1>2, <2>1, <2>2
  <1>5. PlacesAgree(off2, head2)'
    BY <1>3, <1>4 DEF PlacesAgree, Fits
  <1> QED  BY <1>5 DEF Aligned

\* Tables and index unchanged, or parts of them forgotten.
LEMMA AlignedKept ==
    ASSUME Aligned, \A s \in Slots : table'[s] = table[s] \/ table'[s] = << >>,
           \A b \in Pages : blockPages'[b] = blockPages[b] \/ blockPages'[b] = << >>
    PROVE  Aligned'
  <1>1. PICK off, head : PlacesAgree(off, head)
    BY DEF Aligned
  <1>2. Fits(<< >>, off, head)
    BY DEF Fits
  <1>3. /\ \A s \in Slots : Fits(table'[s], off, head)
        /\ \A b \in Pages : Fits(blockPages'[b], off, head)
    BY <1>1, <1>2 DEF PlacesAgree
  <1>4. PlacesAgree(off, head)'
    BY <1>3 DEF PlacesAgree, Fits
  <1> QED  BY <1>4 DEF Aligned

\* The pages of an indexed block have the block's offsets and first page, so
\* they are all different, and no other indexed block has any of them.
LEMMA BlockPlaces ==
    ASSUME PoolInv, NEW off, NEW head, PlacesAgree(off, head), NEW b \in Pages,
           blockPages[b] /= << >>
    PROVE  /\ blockPages[b] \in [1..PagesPerBlock -> Pages] /\ Injective(blockPages[b])
           /\ blockPages[b][1] = b
           /\ \A i \in 1..PagesPerBlock :
                  off[blockPages[b][i]] = i - 1 /\ head[blockPages[b][i]] = b
  <1>1. PICK d \in Nat \ {0} : d = PagesPerBlock
    BY BlockIsPages
  <1>2. PICK X \in Seq(Pages) : X = blockPages[b]
    BY DEF PoolInv, PoolTypes
  <1>3. Len(X) = d /\ X[1] = b
    BY <1>1, <1>2 DEF PoolInv, BlocksWhole, BlockWhole
  <1>4. DOMAIN X = 1..d /\ X \in [1..d -> Pages]
    BY <1>3
  <1>5. ASSUME NEW i \in 1..d PROVE off[X[i]] = i - 1 /\ head[X[i]] = b
    <2>1. off[X[i]] = (i - 1) % d /\ head[X[i]] = X[HeadOf(i, d)]
      BY <1>1, <1>2, <1>4 DEF PlacesAgree, Fits
    <2>2. (i - 1) % d = i - 1
      OBVIOUS
    <2>3. HeadOf(i, d) = 1
      BY <2>2 DEF HeadOf
    <2> QED  BY <1>3, <2>1, <2>2, <2>3
  <1>6. Injective(X)
    <2>1. ASSUME NEW i \in 1..d, NEW j \in 1..d, X[i] = X[j] PROVE i = j
      <3>1. off[X[i]] = i - 1 /\ off[X[j]] = j - 1
        BY <1>5
      <3> QED  BY <2>1, <3>1
    <2> QED  BY <1>4, <2>1, Zenon DEF Injective
  <1> QED  BY <1>1, <1>2, <1>3, <1>4, <1>5, <1>6

\* No page is in two indexed blocks.
LEMMA BlocksDisjoint ==
    ASSUME PoolInv, NEW b \in Pages, NEW c \in Pages,
           NEW p, p \in Range(blockPages[b]), p \in Range(blockPages[c])
    PROVE  b = c
  <1>1. PICK off, head : PlacesAgree(off, head)
    BY DEF PoolInv, Aligned
  <1>2. ASSUME NEW a \in Pages, p \in Range(blockPages[a]) PROVE head[p] = a
    <2>1. PICK i \in DOMAIN blockPages[a] : blockPages[a][i] = p
      BY <1>2 DEF Range
    <2>2. blockPages[a] /= << >>
      BY <2>1
    <2>3. DOMAIN blockPages[a] = 1..PagesPerBlock
      BY <1>1, <2>2, BlockPlaces
    <2>4. \A k \in 1..PagesPerBlock : head[blockPages[a][k]] = a
      BY <1>1, <2>2, BlockPlaces
    <2> QED  BY <2>1, <2>3, <2>4
  <1> QED  BY <1>2

------------------------------------------------------------------------------
(* Pages that come and go with the prefix cache *)

\* A new pool holds nothing.
LEMMA PoolInvInit == Init => PoolInv
  <1> SUFFICES ASSUME Init PROVE PoolInv
    OBVIOUS
  <1>1. PoolTypes
    BY DEF Init, PoolTypes
  <1>2. TablesSound
    <2>1. ASSUME NEW s \in Slots
          PROVE  DOMAIN table[s] = {} /\ seqLen[s] = 0 /\ Len(table[s]) = 0
      BY DEF Init
    <2>2. 0 <= 0 * PageSize
      BY PageSizeAssumption
    <2> QED  BY <2>1, <2>2 DEF TablesSound, Injective
  <1>3. BlocksWhole
    BY DEF Init, BlocksWhole, BlockWhole
  <1>4. Aligned
    <2>1. ASSUME NEW off, NEW head PROVE PlacesAgree(off, head)
      BY DEF Init, PlacesAgree, Fits
    <2> QED  BY <2>1 DEF Aligned
  <1>5. ASSUME NEW p \in Pages PROVE Holders(p) = 0
    <2>1. \A s \in Slots : p \notin Range(table[s])
      BY DEF Init, Range
    <2> QED  BY <2>1, HoldersType
  <1>6. AttachExactButLostCopies
    BY <1>5, AttachView DEF Init
  <1>7. FreeExactlyUnreferenced
    BY DEF Init, FreeExactlyUnreferenced
  <1> QED  BY <1>1, <1>2, <1>3, <1>4, <1>6, <1>7 DEF PoolInv

\* The attach counts stay exact when neither they nor the tables change, and no
\* page of a failed copy is retained.
LEMMA AttachKept ==
    ASSUME PoolInv, UNCHANGED <<table, attach>>,
           \A p \in Pages : Lost(p) => ref'[p] = 0
    PROVE  AttachExactButLostCopies'
  <1>1. \A p \in Pages : attach[p] = Holders(p) \/ Lost(p)
    BY AttachView DEF PoolInv
  <1>2. ASSUME NEW p \in Pages PROVE attach'[p] = Holders(p)' \/ Lost(p)'
    BY <1>1 DEF Holders, Listed, Lost
  <1> QED  BY <1>2, Zenon DEF AttachExactButLostCopies, Holders, Listed, Lost

\* Forgetting a block gives back exactly its pages.
LEMMA ReleaseStep ==
    ASSUME PoolInv, NEW b \in Pages, release_block(b)
    PROVE  PoolInv'
  <1>1. PICK off, head : PlacesAgree(off, head)
    BY DEF PoolInv, Aligned
  <1>2. PICK X : X = blockPages[b]
    OBVIOUS
  <1>3. PICK d \in Nat \ {0} : d = PagesPerBlock
    BY BlockIsPages
  <1>4. X /= << >> /\ UNCHANGED <<table, attach, seqLen>>
        /\ blockPages' = [blockPages EXCEPT ![b] = << >>]
    BY <1>2 DEF release_block
  <1>5. X \in [1..d -> Pages] /\ Injective(X)
    BY <1>1, <1>2, <1>3, <1>4, BlockPlaces
  <1>6. ASSUME NEW p \in Pages PROVE Occurrences(X, p) = IF p \in Range(X) THEN 1 ELSE 0
    BY <1>5, OccOnce
  <1>7. \A p \in Pages : ref[p] \in Nat /\ attach[p] \in Nat /\ free[p] \in Nat
    BY DEF PoolInv, PoolTypes
  <1>8. \A p \in Range(X) : p \in Pages /\ ref[p] > 0
    BY <1>2, <1>4, <1>5 DEF PoolInv, BlocksWhole, BlockWhole, Range
  <1>9. ASSUME NEW p \in Pages
        PROVE  ref'[p] = IF p \in Range(X) THEN ref[p] - 1 ELSE ref[p]
    <2>1. ref'[p] = Saturating(ref[p], Occurrences(X, p))
      BY <1>2 DEF release_block
    <2>2. Saturating(ref[p], 0) = ref[p] /\ (ref[p] > 0 => Saturating(ref[p], 1) = ref[p] - 1)
      BY <1>7 DEF Saturating
    <2> QED  BY <1>6, <1>8, <2>1, <2>2
  <1>10. ref' \in [Pages -> Nat]
    <2>1. ref' = [p \in Pages |-> ref'[p]]
      BY DEF release_block
    <2>2. \A p \in Pages : ref'[p] \in Nat
      BY <1>7, <1>8, <1>9
    <2> QED  BY <2>1, <2>2
  <1>11. ASSUME NEW p \in Pages
         PROVE  free'[p] = IF p \in Range(X) /\ ref'[p] = 0 /\ attach[p] = 0
                           THEN free[p] + 1 ELSE free[p]
    <2>1. free'[p] = IF Occurrences(X, p) > 0 /\ ref'[p] = 0 /\ attach[p] = 0
                     THEN free[p] + 1 ELSE free[p]
      BY <1>2 DEF release_block
    <2> QED  BY <1>6, <2>1
  <1>12. free' \in [Pages -> Nat]
    <2>1. free' = [p \in Pages |-> free'[p]]
      BY DEF release_block
    <2>2. \A p \in Pages : free'[p] \in Nat
      BY <1>7, <1>11
    <2> QED  BY <2>1, <2>2
  <1>13. PoolTypes'
    <2>1. blockPages' \in [Pages -> Seq(Pages)]
      BY <1>4 DEF PoolInv, PoolTypes
    <2> QED  BY <1>4, <1>10, <1>12, <2>1 DEF PoolInv, PoolTypes
  <1>14. TablesSound'
    BY <1>4, Zenon DEF PoolInv, TablesSound
  <1>15. BlocksWhole'
    <2> SUFFICES ASSUME NEW c \in Pages, blockPages'[c] /= << >>
                 PROVE  /\ Len(blockPages'[c]) = PagesPerBlock /\ blockPages'[c][1] = c
                        /\ \A i \in DOMAIN blockPages'[c] : ref'[blockPages'[c][i]] > 0
      BY DEF BlocksWhole, BlockWhole
    <2>1. c /= b /\ blockPages'[c] = blockPages[c] /\ blockPages[c] \in Seq(Pages)
      BY <1>4 DEF PoolInv, PoolTypes
    <2>2. BlockWhole(c)
      BY DEF PoolInv, BlocksWhole
    <2>3. ASSUME NEW i \in DOMAIN blockPages[c] PROVE ref'[blockPages[c][i]] > 0
      <3>1. PICK p \in Pages : p = blockPages[c][i]
        BY <2>1
      <3>2. p \in Range(blockPages[c])
        BY <3>1 DEF Range
      <3>3. p \notin Range(X)
        BY <1>2, <2>1, <3>2, BlocksDisjoint
      <3>4. ref[p] > 0
        BY <2>1, <2>2, <3>1 DEF BlockWhole
      <3> QED  BY <1>9, <3>1, <3>3, <3>4
    <2> QED  BY <2>1, <2>2, <2>3 DEF BlockWhole
  <1>16. Aligned'
    <2>1. \A c \in Pages : blockPages'[c] = blockPages[c] \/ blockPages'[c] = << >>
      BY <1>4 DEF PoolInv, PoolTypes
    <2> QED  BY <1>4, <2>1, AlignedKept DEF PoolInv
  <1>17. AttachExactButLostCopies'
    <2>1. ASSUME NEW p \in Pages, Lost(p) PROVE ref'[p] = 0
      BY <1>8, <1>9, <2>1 DEF Lost
    <2> QED  BY <1>4, <2>1, AttachKept
  <1>18. FreeExactlyUnreferenced'
    <2>1. ASSUME NEW p \in Pages
          PROVE  free'[p] = IF attach'[p] = 0 /\ ref'[p] = 0 THEN 1 ELSE 0
      <3>1. free[p] = IF attach[p] = 0 /\ ref[p] = 0 THEN 1 ELSE 0
        BY DEF PoolInv, FreeExactlyUnreferenced
      <3>2. CASE p \in Range(X)
        BY <1>4, <1>7, <1>8, <1>9, <1>11, <3>1, <3>2
      <3>3. CASE p \notin Range(X)
        BY <1>4, <1>7, <1>9, <1>11, <3>1, <3>3
      <3> QED  BY <3>2, <3>3
    <2> QED  BY <2>1 DEF FreeExactlyUnreferenced
  <1> QED  BY <1>13, <1>14, <1>15, <1>16, <1>17, <1>18 DEF PoolInv

\* A block that comes back from a lower tier takes pages nobody holds, whether
\* or not the copy of its rows succeeds.
LEMMA InstallStep ==
    ASSUME PoolInv, NEW f \in Pops(PagesPerBlock), free' = AfterPops(f),
           ref' = [p \in Pages |-> IF p \in Range(f) THEN 1 ELSE ref[p]],
           UNCHANGED <<table, attach, seqLen>>,
           blockPages' = blockPages \/ blockPages' = [blockPages EXCEPT ![f[1]] = f]
    PROVE  PoolInv'
  <1>1. PICK d \in Nat \ {0} : d = PagesPerBlock
    BY BlockIsPages
  <1>2. /\ f \in [1..d -> Pages] /\ Injective(f)
        /\ \A p \in Pages : free'[p] = IF p \in Range(f) THEN 0 ELSE free[p]
        /\ \A p \in Range(f) :
               /\ p \in Pages /\ attach[p] = 0 /\ ref[p] = 0 /\ ~Lost(p)
               /\ \A s \in Slots : p \notin Range(table[s])
               /\ \A b \in Pages : p \notin Range(blockPages[b])
    BY <1>1, PopsFresh
  <1>3. f \in Seq(Pages) /\ Len(f) = d /\ f[1] \in Pages /\ DOMAIN f = 1..d /\ f[1] \in Range(f)
        /\ f /= << >>
    BY <1>2 DEF Range
  <1>4. /\ free \in [Pages -> Nat] /\ ref \in [Pages -> Nat] /\ attach \in [Pages -> Nat]
        /\ blockPages \in [Pages -> Seq(Pages)]
    BY DEF PoolInv, PoolTypes
  <1>5. ref' \in [Pages -> Nat] /\ free' \in [Pages -> Nat]
    <2>1. free' = [p \in Pages |-> free'[p]]
      BY DEF AfterPops
    <2>2. \A p \in Pages : free'[p] \in Nat
      BY <1>2, <1>4
    <2>3. ref' \in [Pages -> Nat]
      BY <1>4
    <2> QED  BY <2>1, <2>2, <2>3
  <1>6. blockPages' \in [Pages -> Seq(Pages)]
        /\ \A b \in Pages : blockPages'[b] = blockPages[b] \/ (blockPages'[b] = f /\ b = f[1])
    BY <1>3, <1>4
  <1>7. PoolTypes'
    BY <1>5, <1>6 DEF PoolInv, PoolTypes
  <1>8. TablesSound'
    BY Zenon DEF PoolInv, TablesSound
  <1>9. BlocksWhole'
    <2> SUFFICES ASSUME NEW b \in Pages, blockPages'[b] /= << >>
                 PROVE  /\ Len(blockPages'[b]) = PagesPerBlock /\ blockPages'[b][1] = b
                        /\ \A i \in DOMAIN blockPages'[b] : ref'[blockPages'[b][i]] > 0
      BY DEF BlocksWhole, BlockWhole
    <2>1. CASE blockPages'[b] = f /\ b = f[1]
      <3>1. \A i \in 1..d : f[i] \in Pages /\ f[i] \in Range(f)
        BY <1>2 DEF Range
      <3> QED  BY <1>1, <1>3, <2>1, <3>1
    <2>2. CASE blockPages'[b] = blockPages[b]
      <3>1. BlockWhole(b) /\ blockPages[b] \in Seq(Pages)
        BY <1>4 DEF PoolInv, BlocksWhole
      <3>2. ASSUME NEW i \in DOMAIN blockPages[b] PROVE ref'[blockPages[b][i]] > 0
        BY <1>4, <2>2, <3>1 DEF BlockWhole
      <3> QED  BY <2>2, <3>1, <3>2 DEF BlockWhole
    <2> QED  BY <1>6, <2>1, <2>2
  <1>10. Aligned'
    <2>1. PICK off, head : PlacesAgree(off, head)
      BY DEF PoolInv, Aligned
    <2>2. PICK F, k : F = Range(f) /\ k = 0
      OBVIOUS
    <2>3. k \in 0..Len(f) /\ FitsTo(f, k, F, off, head)
      BY <1>3, <2>2 DEF FitsTo, Range
    <2>4. \A p \in F : /\ \A s \in Slots : p \notin Range(table[s])
                     /\ \A b \in Pages : p \notin Range(blockPages[b])
      BY <1>2, <2>2
    <2>5. \A s \in Slots : table'[s] = table[s] \/ table'[s] = f
      OBVIOUS
    <2>6. \A b \in Pages : blockPages'[b] = blockPages[b] \/ blockPages'[b] = f
      BY <1>6
    <2> QED  BY <1>2, <1>3, <2>1, <2>3, <2>4, <2>5, <2>6, AlignedFresh
  <1>11. AttachExactButLostCopies'
    <2>1. ASSUME NEW p \in Pages, Lost(p) PROVE ref'[p] = 0
      BY <1>2, <2>1 DEF Lost
    <2> QED  BY <2>1, AttachKept
  <1>12. FreeExactlyUnreferenced'
    <2>1. ASSUME NEW p \in Pages
          PROVE  free'[p] = IF attach'[p] = 0 /\ ref'[p] = 0 THEN 1 ELSE 0
      <3>1. free[p] = IF attach[p] = 0 /\ ref[p] = 0 THEN 1 ELSE 0
        BY DEF PoolInv, FreeExactlyUnreferenced
      <3> QED  BY <1>2, <1>4, <3>1
    <2> QED  BY <2>1 DEF FreeExactlyUnreferenced
  <1> QED  BY <1>7, <1>8, <1>9, <1>10, <1>11, <1>12 DEF PoolInv

------------------------------------------------------------------------------
(* Slots that grow *)

\* X is the page table T with the popped pages f behind its first k pages.
Grown(X, T, k, n, f) ==
    /\ X \in Seq(Pages) /\ Len(X) = k + n
    /\ \A i \in 1..k : X[i] = T[i]
    /\ \A i \in 1..n : X[k + i] = f[i]

\* What a grown table lists.
LEMMA GrownLists ==
    ASSUME NEW T \in Seq(Pages), NEW k \in 0..Len(T), NEW n \in Nat, NEW f \in [1..n -> Pages],
           NEW X, Grown(X, T, k, n, f), Injective(T), Injective(f),
           \A p \in Range(f) : p \notin Range(T)
    PROVE  /\ DOMAIN X = 1..(k + n) /\ Injective(X)
           /\ \A i \in DOMAIN X : (i > k => X[i] \in Range(f)) /\ (i <= k => X[i] = T[i])
           /\ \A p : p \in Range(X) <=> p \in Range(f) \/ \E i \in 1..k : p = T[i]
  <1>1. X \in Seq(Pages) /\ DOMAIN X = 1..(k + n)
    BY DEF Grown
  <1>2. ASSUME NEW i \in DOMAIN X, i > k PROVE X[i] = f[i - k] /\ i - k \in 1..n
    <2>1. i - k \in 1..n /\ k + (i - k) = i
      BY <1>1, <1>2
    <2>2. PICK j \in 1..n : j = i - k /\ k + j = i
      BY <2>1
    <2> QED  BY <2>2 DEF Grown
  <1>3. ASSUME NEW i \in DOMAIN X, i <= k PROVE X[i] = T[i] /\ i \in 1..k /\ i \in DOMAIN T
    BY <1>1, <1>3 DEF Grown
  <1>4. \A i \in DOMAIN X : (i > k => X[i] \in Range(f)) /\ (i <= k => X[i] = T[i] /\ T[i] \in Range(T))
    BY <1>2, <1>3 DEF Range
  <1>5. ASSUME NEW i \in DOMAIN X, NEW j \in DOMAIN X, X[i] = X[j] PROVE i = j
    <2>1. CASE i > k /\ j > k
      <3>1. i - k = j - k
        BY <1>2, <1>5, <2>1 DEF Injective
      <3> QED  BY <1>1, <3>1
    <2>2. CASE i <= k /\ j <= k
      BY <1>3, <1>5, <2>2 DEF Injective
    <2>3. (i <= k /\ j > k) \/ (i > k /\ j <= k) => FALSE
      BY <1>4, <1>5
    <2> QED  BY <1>1, <2>1, <2>2, <2>3
  <1>6. ASSUME NEW p PROVE p \in Range(X) <=> p \in Range(f) \/ \E i \in 1..k : p = T[i]
    <2>1. ASSUME p \in Range(X) PROVE p \in Range(f) \/ \E i \in 1..k : p = T[i]
      <3>1. PICK i \in DOMAIN X : p = X[i]
        BY <2>1 DEF Range
      <3> QED  BY <1>1, <1>3, <1>4, <3>1
    <2>2. ASSUME p \in Range(f) PROVE p \in Range(X)
      <3>1. PICK j \in 1..n : p = f[j]
        BY <2>2 DEF Range
      <3>2. k + j \in DOMAIN X /\ X[k + j] = p
        BY <1>1, <3>1 DEF Grown
      <3> QED  BY <3>2 DEF Range
    <2>3. ASSUME NEW i \in 1..k, p = T[i] PROVE p \in Range(X)
      <3>1. i \in DOMAIN X /\ X[i] = p
        BY <1>1, <2>3 DEF Grown
      <3> QED  BY <3>1 DEF Range
    <2> QED  BY <2>1, <2>2, <2>3
  <1>7. Injective(X)
    BY <1>5 DEF Injective
  <1> QED  BY <1>1, <1>4, <1>6, <1>7

\* The table of s, of length L, keeps its first k pages and takes the n popped
\* pages f; it gives up its last page, tail, only if that has another holder.
Grows(s, L, k, n, f, X, tail) ==
    /\ s \in Slots /\ L \in Nat /\ k \in 0..L /\ n \in Nat /\ f \in Pops(n)
    /\ L = Len(table[s]) /\ Grown(X, table[s], k, n, f) /\ (L > 0 => tail = table[s][L])
    /\ k = L \/ (k + 1 = L /\ page_is_shared_read_only(tail))
    /\ free' = AfterPops(f) /\ table' = [table EXCEPT ![s] = X]
    /\ attach' = [p \in Pages |-> IF p \in Range(f) THEN 1
                                  ELSE IF k < L /\ p = tail THEN attach[p] - 1
                                  ELSE attach[p]]
    /\ seqLen' \in [Slots -> Nat] /\ \A t \in Slots \ {s} : seqLen'[t] = seqLen[t]
    /\ seqLen'[s] <= (k + n) * PageSize
    /\ ref' = ref /\ blockPages' = blockPages

\* A slot takes popped pages, and gives up its last page only if that page has
\* another holder.
LEMMA GrowStep ==
    ASSUME PoolInv, NEW s, NEW L, NEW k, NEW n, NEW f, NEW X, NEW tail,
           Grows(s, L, k, n, f, X, tail)
    PROVE  PoolInv'
  <1> USE DEF Grows
  <1>1. PICK T \in Seq(Pages) : T = table[s] /\ DOMAIN T = 1..L /\ Len(T) = L
    BY DEF PoolInv, PoolTypes
  <1>2. /\ f \in [1..n -> Pages] /\ Injective(f)
        /\ \A p \in Pages : free'[p] = IF p \in Range(f) THEN 0 ELSE free[p]
        /\ \A p \in Range(f) :
               /\ p \in Pages /\ attach[p] = 0 /\ ref[p] = 0 /\ ~Lost(p)
               /\ \A t \in Slots : p \notin Range(table[t])
               /\ \A b \in Pages : p \notin Range(blockPages[b])
    BY PopsFresh
  <1>3. Injective(T)
    BY <1>1 DEF PoolInv, TablesSound
  <1>4. Grown(X, T, k, n, f) /\ \A p \in Range(f) : p \notin Range(T)
    BY <1>1, <1>2
  <1>5. /\ DOMAIN X = 1..(k + n) /\ Injective(X)
        /\ \A i \in DOMAIN X : (i > k => X[i] \in Range(f)) /\ (i <= k => X[i] = T[i])
        /\ \A p : p \in Range(X) <=> p \in Range(f) \/ \E i \in 1..k : p = T[i]
    <2>1. k \in 0..Len(T)
      BY <1>1
    <2> QED  BY <1>2, <1>3, <1>4, <2>1, GrownLists, Zenon
  <1>6. X \in Seq(Pages) /\ Len(X) = k + n
    BY DEF Grown
  <1>7. /\ free \in [Pages -> Nat] /\ ref \in [Pages -> Nat] /\ attach \in [Pages -> Nat]
        /\ table \in [Slots -> Seq(Pages)] /\ blockPages \in [Pages -> Seq(Pages)]
    BY DEF PoolInv, PoolTypes
  <1>8. \A p \in Range(T) : p \in Pages /\ attach[p] > 0 /\ free[p] = 0
    <2> SUFFICES ASSUME NEW p \in Range(T) PROVE p \in Pages /\ attach[p] > 0 /\ free[p] = 0
      OBVIOUS
    <2>1. p \in Pages /\ Holders(p) /= 0 /\ Holders(p) \in Nat
      BY <1>1, HoldersType DEF Range
    <2>2. attach[p] = Holders(p)
      BY <2>1, AttachView DEF PoolInv, Lost
    <2> QED  BY <2>1, <2>2 DEF PoolInv, FreeExactlyUnreferenced
  <1>9. k < L => tail = T[L] /\ tail \in Range(T) /\ k + 1 = L /\ (ref[tail] > 0 \/ attach[tail] > 1)
    <2>1. k < L => L \in DOMAIN T /\ L > 0
      BY <1>1
    <2> QED  BY <1>1, <2>1 DEF Range, page_is_shared_read_only
  <1>10. ASSUME NEW p PROVE p \in Range(T) <=> (k < L /\ p = tail) \/ \E i \in 1..k : p = T[i]
    <2>1. p \in Range(T) <=> \E i \in 1..L : p = T[i]
      BY <1>1 DEF Range
    <2>2. CASE k = L
      BY <2>1, <2>2
    <2>3. CASE k + 1 = L
      <3>1. 1..L = (1..k) \cup {L} /\ k < L
        BY <2>3
      <3> QED  BY <1>9, <2>1, <3>1
    <2> QED  BY <2>2, <2>3
  <1>11. ~(k < L /\ \E i \in 1..k : tail = T[i])
    <2> SUFFICES ASSUME k < L, NEW i \in 1..k, T[L] = T[i] PROVE FALSE
      BY <1>9
    <2>1. i \in DOMAIN T /\ L \in DOMAIN T /\ i /= L
      BY <1>1
    <2> QED  BY <1>3, <2>1 DEF Injective
  <1>12. ASSUME NEW p \in Pages
         PROVE  attach'[p] = IF p \in Range(f) THEN 1
                             ELSE IF k < L /\ p = tail THEN attach[p] - 1 ELSE attach[p]
    OBVIOUS
  <1>13. attach' \in [Pages -> Nat]
    <2>1. \A p \in Pages : attach'[p] \in Nat
      BY <1>7, <1>8, <1>9, <1>12
    <2> QED  BY <2>1
  <1>14. PoolTypes'
    <2>1. free' = [p \in Pages |-> free'[p]]
      BY DEF AfterPops
    <2>2. free' \in [Pages -> Nat]
      BY <1>2, <1>7, <2>1
    <2>3. table' \in [Slots -> Seq(Pages)]
      BY <1>6, <1>7
    <2> QED  BY <1>7, <1>13, <2>2, <2>3 DEF PoolTypes
  <1>15. TablesSound'
    <2>1. ASSUME NEW t \in Slots
          PROVE  Injective(table'[t]) /\ seqLen'[t] <= Len(table'[t]) * PageSize
      <3>1. CASE t = s
        BY <1>5, <1>6, <1>7, <3>1
      <3>2. CASE t /= s
        <4>1. table'[t] = table[t] /\ seqLen'[t] = seqLen[t]
          BY <1>7, <3>2
        <4> QED  BY <4>1, Zenon DEF PoolInv, TablesSound
      <3> QED  BY <3>1, <3>2
    <2> QED  BY <2>1 DEF TablesSound, Injective
  <1>16. BlocksWhole'
    BY Zenon DEF PoolInv, BlocksWhole, BlockWhole
  <1>17. Aligned'
    <2>0. /\ s \in Slots /\ k \in 0..L /\ L \in Nat /\ n \in Nat
          /\ table' = [table EXCEPT ![s] = X] /\ blockPages' = blockPages
      OBVIOUS
    <2> HIDE DEF Grows
    <2>1. PICK off, head : PlacesAgree(off, head)
      BY DEF PoolInv, Aligned
    <2>2. PICK F, d : F = Range(f) /\ d = PagesPerBlock
      OBVIOUS
    <2>3. d \in Nat \ {0} /\ k \in 0..Len(X)
      BY <1>6, <2>0, <2>2, BlockIsPages
    <2>4. ASSUME NEW i \in 1..k
          PROVE  off[X[i]] = (i - 1) % d /\ head[X[i]] = X[HeadOf(i, d)] /\ X[i] \notin F
      <3>1. i \in Nat \ {0} /\ i \in DOMAIN T /\ i \in DOMAIN X
        BY <1>1, <1>5, <2>0
      <3>2. HeadOf(i, d) \in 1..i
        BY <2>3, <3>1, Placement
      <3>3. X[i] = T[i] /\ X[HeadOf(i, d)] = T[HeadOf(i, d)]
        BY <1>5, <2>0, <3>1, <3>2
      <3>4. off[T[i]] = (i - 1) % d /\ head[T[i]] = T[HeadOf(i, d)]
        BY <1>1, <2>0, <2>1, <2>2, <3>1 DEF PlacesAgree, Fits
      <3>5. T[i] \in Range(T)
        BY <3>1 DEF Range
      <3> QED  BY <1>4, <2>2, <3>3, <3>4, <3>5
    <2>5. FitsTo(X, k, F, off, head)
      BY <1>5, <2>2, <2>4 DEF FitsTo
    <2>6. \A p \in F : /\ \A t \in Slots : p \notin Range(table[t])
                     /\ \A b \in Pages : p \notin Range(blockPages[b])
      BY <1>2, <2>2
    <2>7. \A t \in Slots : table'[t] = table[t] \/ table'[t] = X
      BY <1>7, <2>0
    <2>8. \A b \in Pages : blockPages'[b] = blockPages[b] \/ blockPages'[b] = X
      BY <2>0
    <2> QED  BY <1>5, <1>6, <2>1, <2>3, <2>5, <2>6, <2>7, <2>8, AlignedFresh
  <1>18. AttachExactButLostCopies'
    <2>1. ASSUME NEW p \in Pages
          PROVE  /\ p \in Range(X) /\ p \notin Range(T) => attach'[p] = attach[p] + 1 /\ ~Lost(p)
                 /\ p \notin Range(X) /\ p \in Range(T) => attach'[p] = attach[p] - 1
                 /\ (p \in Range(X) <=> p \in Range(T)) =>
                       attach'[p] = attach[p] /\ (ref[p] = 0 /\ p \notin Range(X) => ref'[p] = 0)
      <3>1. p \in Range(X) <=> p \in Range(f) \/ \E i \in 1..k : p = T[i]
        BY <1>5
      <3>2. p \in Range(T) <=> (k < L /\ p = tail) \/ \E i \in 1..k : p = T[i]
        BY <1>10
      <3>3. p \in Range(f) => p \notin Range(T) /\ attach[p] = 0 /\ ~Lost(p)
        BY <1>2, <1>4
      <3> QED  BY <1>11, <1>12, <3>1, <3>2, <3>3
    <2>2. AttachFollows(table[s], X)
      BY <1>1, <2>1 DEF AttachFollows
    <2> QED  BY <1>13, <2>2, AttachStep
  <1>19. FreeExactlyUnreferenced'
    <2>1. ASSUME NEW p \in Pages
          PROVE  free'[p] = IF attach'[p] = 0 /\ ref'[p] = 0 THEN 1 ELSE 0
      <3>1. free[p] = IF attach[p] = 0 /\ ref[p] = 0 THEN 1 ELSE 0
        BY DEF PoolInv, FreeExactlyUnreferenced
      <3>2. CASE p \in Range(f)
        BY <1>2, <1>12, <3>2
      <3>3. CASE p \notin Range(f) /\ k < L /\ p = tail
        <4>1. free'[p] = 0 /\ attach[p] \in Nat /\ attach'[p] = attach[p] - 1
          BY <1>2, <1>7, <1>8, <1>9, <1>12, <3>3
        <4>2. ref'[p] > 0 \/ attach[p] > 1
          BY <1>9, <3>3
        <4>3. ref'[p] \in Nat
          BY <1>7
        <4> QED  BY <4>1, <4>2, <4>3
      <3>4. CASE p \notin Range(f) /\ ~(k < L /\ p = tail)
        BY <1>2, <1>12, <3>1, <3>4
      <3> QED  BY <3>2, <3>3, <3>4
    <2> QED  BY <2>1 DEF FreeExactlyUnreferenced
  <1> QED  BY <1>14, <1>15, <1>16, <1>17, <1>18, <1>19 DEF PoolInv

\* alloc_tokens takes enough pages for the tokens.
LEMMA RoomEnough ==
    ASSUME NEW s \in Slots, seqLen[s] \in Nat, NEW L \in Nat, seqLen[s] <= L * PageSize,
           NEW c \in Nat
    PROVE  NewPages(s, c) \in Nat /\ seqLen[s] + c <= (L + NewPages(s, c)) * PageSize
  <1>1. PICK len \in Nat, d \in Nat \ {0} : len = seqLen[s] /\ d = PageSize
    BY PageSizeAssumption
  <1>2. PICK q \in Nat, r \in 0..d - 1 : len = q * d + r /\ r = len % d
    <2>1. len \div d \in Nat /\ len % d \in 0..d - 1 /\ len = d * (len \div d) + (len % d)
      OBVIOUS
    <2>2. d * (len \div d) = (len \div d) * d
      BY <2>1
    <2> QED  BY <2>1, <2>2
  <1>3. PICK room : room = IF r = 0 THEN 0 ELSE d - r
    OBVIOUS
  <1>4. PICK m : m = Saturating(c, room)
    OBVIOUS
  <1>5. room \in Nat /\ m \in Nat /\ m + room >= c
    BY <1>3, <1>4 DEF Saturating
  <1>6. PICK new : new = CeilDiv(m, d)
    OBVIOUS
  <1>7. new \in Nat /\ m <= new * d
    BY <1>5, <1>6, CeilDivBounds
  <1>8. NewPages(s, c) = new
    BY <1>1, <1>2, <1>3, <1>4, <1>6 DEF NewPages, slot_hot_tail_len
  <1>9. len + room <= L * d
    <2>1. len <= L * d /\ L * d \in Nat /\ q * d \in Nat
      BY <1>1
    <2>2. CASE r = 0
      BY <1>3, <2>1, <2>2
    <2>3. CASE r /= 0
      <3>1. q * d < L * d
        BY <1>2, <2>1, <2>3
      <3>2. q < L
        BY <3>1, TimesOrder
      <3>3. (q + 1) * d <= L * d
        BY <3>2, TimesOrder
      <3>4. (q + 1) * d = q * d + d
        OBVIOUS
      <3> QED  BY <1>2, <1>3, <2>1, <2>3, <3>3, <3>4
    <2> QED  BY <2>2, <2>3
  <1>10. (L + new) * d = L * d + new * d /\ L * d \in Nat /\ new * d \in Nat
    BY <1>7
  <1>11. len + c <= (L + new) * d
    BY <1>5, <1>7, <1>9, <1>10
  <1> QED  BY <1>1, <1>7, <1>8, <1>11

\* A listed page is attached.
LEMMA ListedAttached ==
    ASSUME PoolInv, NEW s \in Slots, NEW p \in Range(table[s])
    PROVE  p \in Pages /\ attach[p] = Holders(p) /\ attach[p] > 0
  <1>1. p \in Pages
    BY DEF PoolInv, PoolTypes, Range
  <1>2. Holders(p) /= 0 /\ Holders(p) \in Nat
    BY HoldersType
  <1>3. attach[p] = Holders(p)
    BY <1>1, <1>2, AttachView DEF PoolInv, Lost
  <1> QED  BY <1>1, <1>2, <1>3

\* A tail that is to be copied exists and is shared.
LEMMA CowTail ==
    ASSUME PoolInv, NEW s \in Slots, append_cow_pages_needed(s) = 1
    PROVE  /\ Len(table[s]) \in Nat \ {0} /\ page_is_shared_read_only(HotTailPage(s))
           /\ HotTailPage(s) = table[s][Len(table[s])]
           /\ HotTailPage(s) \in Range(table[s])
  <1>1. seqLen[s] % PageSize /= 0 /\ page_is_shared_read_only(HotTailPage(s))
    BY DEF append_cow_pages_needed, slot_hot_tail_len
  <1>2. PICK T \in Seq(Pages), len \in Nat, d \in Nat \ {0} :
            T = table[s] /\ len = seqLen[s] /\ d = PageSize
    BY PageSizeAssumption DEF PoolInv, PoolTypes
  <1>3. len <= Len(T) * d
    BY <1>2 DEF PoolInv, TablesSound
  <1>4. len /= 0
    <2>1. 0 % d = 0
      OBVIOUS
    <2> QED  BY <1>1, <1>2, <2>1
  <1>5. Len(T) /= 0
    <2>1. 0 * d = 0
      OBVIOUS
    <2> QED  BY <1>3, <1>4, <2>1
  <1>6. Len(T) \in Nat \ {0} /\ Len(T) \in DOMAIN T
    BY <1>5
  <1> QED  BY <1>1, <1>2, <1>6 DEF HotTailPage, Range

\* Pages put behind a page table.
LEMMA PlainGrown ==
    ASSUME NEW T \in Seq(Pages), NEW m \in Nat, NEW f \in [1..m -> Pages],
           NEW X, X = T \o SubSeq(f, 1, m)
    PROVE  Grown(X, T, Len(T), m, f) /\ Range(SubSeq(f, 1, m)) = Range(f)
  <1>1. f \in Seq(Pages) /\ Len(f) = m /\ DOMAIN f = 1..m
    OBVIOUS
  <1>2. PICK g : g = SubSeq(f, 1, m)
    OBVIOUS
  <1>3. g \in Seq(Pages) /\ Len(g) = m /\ DOMAIN g = 1..m /\ \A i \in 1..m : g[i] = f[i]
    BY <1>1, <1>2
  <1>4. X \in Seq(Pages) /\ Len(X) = Len(T) + m
    BY <1>2, <1>3
  <1>5. ASSUME NEW i \in 1..Len(T) PROVE X[i] = T[i]
    BY <1>2, <1>3
  <1>6. ASSUME NEW i \in 1..m PROVE X[Len(T) + i] = f[i]
    BY <1>2, <1>3
  <1>7. Range(g) = Range(f)
    BY <1>1, <1>3 DEF Range
  <1> QED  BY <1>2, <1>4, <1>5, <1>6, <1>7 DEF Grown

\* Pages put behind a page table whose last page is replaced by the first.
LEMMA CowGrown ==
    ASSUME NEW T \in Seq(Pages), NEW k \in Nat, Len(T) = k + 1, NEW m \in Nat,
           NEW f \in [1..1 + m -> Pages],
           NEW X, X = [T EXCEPT ![Len(T)] = f[1]] \o SubSeq(f, 2, 1 + m)
    PROVE  /\ Grown(X, T, k, 1 + m, f)
           /\ \A p : p \in Range(f) <=> p = f[1] \/ p \in Range(SubSeq(f, 2, 1 + m))
  <1>1. f \in Seq(Pages) /\ Len(f) = 1 + m /\ DOMAIN f = 1..(1 + m) /\ f[1] \in Pages
    OBVIOUS
  <1>2. PICK g, B : g = SubSeq(f, 2, 1 + m) /\ B = [T EXCEPT ![Len(T)] = f[1]]
    OBVIOUS
  <1>3. g \in Seq(Pages) /\ Len(g) = m /\ DOMAIN g = 1..m /\ \A i \in 1..m : g[i] = f[i + 1]
    BY <1>1, <1>2
  <1>4. B \in Seq(Pages) /\ Len(B) = k + 1 /\ B[k + 1] = f[1] /\ \A i \in 1..k : B[i] = T[i]
    BY <1>1, <1>2
  <1>5. X \in Seq(Pages) /\ Len(X) = k + (1 + m)
    <2>1. X = B \o g
      BY <1>2
    <2>2. B \o g \in Seq(Pages) /\ Len(B \o g) = Len(B) + Len(g)
      <3>1. \A x, y \in Seq(Pages) : x \o y \in Seq(Pages) /\ Len(x \o y) = Len(x) + Len(y)
        OBVIOUS
      <3> QED  BY <1>3, <1>4, <3>1
    <2>3. Len(B) + Len(g) = k + (1 + m)
      BY <1>3, <1>4
    <2> QED  BY <2>1, <2>2, <2>3
  <1>6. ASSUME NEW i \in 1..k PROVE X[i] = T[i]
    BY <1>2, <1>3, <1>4
  <1>7. ASSUME NEW i \in 1..(1 + m) PROVE X[k + i] = f[i]
    <2>1. CASE i = 1
      BY <1>2, <1>3, <1>4, <2>1
    <2>2. CASE i > 1
      <3>1. PICK j \in 1..m : i = j + 1
        <4>1. i - 1 \in 1..m /\ i = (i - 1) + 1
          BY <2>2
        <4> QED  BY <4>1
      <3>2. X[(k + 1) + j] = g[j]
        BY <1>2, <1>3, <1>4
      <3>3. (k + 1) + j = k + i
        BY <3>1
      <3> QED  BY <1>3, <3>1, <3>2, <3>3
    <2> QED  BY <2>1, <2>2
  <1>8. ASSUME NEW p PROVE p \in Range(f) <=> p = f[1] \/ p \in Range(g)
    <2>1. ASSUME p \in Range(f), p /= f[1] PROVE p \in Range(g)
      <3>1. PICK i \in 1..(1 + m) : p = f[i]
        BY <1>1, <2>1 DEF Range
      <3>2. i - 1 \in 1..m /\ (i - 1) + 1 = i
        BY <2>1, <3>1
      <3>3. g[i - 1] = p /\ i - 1 \in DOMAIN g
        BY <1>3, <3>1, <3>2
      <3> QED  BY <3>3 DEF Range
    <2>2. ASSUME p \in Range(g) PROVE p \in Range(f)
      <3>1. PICK i \in 1..m : p = g[i]
        BY <1>3, <2>2 DEF Range
      <3>2. i + 1 \in DOMAIN f /\ f[i + 1] = p
        BY <1>1, <1>3, <3>1
      <3> QED  BY <3>2 DEF Range
    <2>3. f[1] \in Range(f)
      <3>1. 1 \in DOMAIN f
        BY <1>1
      <3> QED  BY <3>1 DEF Range
    <2> QED  BY <2>1, <2>2, <2>3
  <1> QED  BY <1>2, <1>5, <1>6, <1>7, <1>8 DEF Grown

\* Copying a shared tail page, and taking m pages more, keeps the invariant.
LEMMA CowStep ==
    ASSUME PoolInv, NEW s \in Slots, append_cow_pages_needed(s) = 1, NEW m \in Nat,
           NEW f \in Pops(1 + m), free' = AfterPops(f),
           table' = [table EXCEPT ![s] = CowTable(s, f[1]) \o SubSeq(f, 2, 1 + m)],
           attach' = [p \in Pages |-> IF p \in Range(SubSeq(f, 2, 1 + m)) THEN 1
                                      ELSE CowAttach(s, f[1])[p]],
           seqLen' \in [Slots -> Nat], \A t \in Slots \ {s} : seqLen'[t] = seqLen[t],
           seqLen'[s] <= (Len(table[s]) + m) * PageSize, UNCHANGED <<ref, blockPages>>
    PROVE  PoolInv'
  <1>1. PICK T \in Seq(Pages), L \in Nat \ {0}, tail \in Pages :
            T = table[s] /\ L = Len(T) /\ tail = HotTailPage(s)
    <2>1. table[s] \in Seq(Pages) /\ Len(table[s]) \in Nat \ {0}
      BY CowTail DEF PoolInv, PoolTypes
    <2>2. HotTailPage(s) \in Pages
      BY CowTail, ListedAttached
    <2> QED  BY <2>1, <2>2
  <1>2. tail = T[L] /\ tail \in Range(T) /\ page_is_shared_read_only(tail)
    BY <1>1, CowTail
  <1>3. PICK k \in 0..L : k + 1 = L /\ k < L
    <2>1. L - 1 \in 0..L /\ (L - 1) + 1 = L /\ L - 1 < L
      OBVIOUS
    <2> QED  BY <2>1
  <1>4. PICK X, n : X = CowTable(s, f[1]) \o SubSeq(f, 2, 1 + m) /\ n = 1 + m
    OBVIOUS
  <1>5. n \in Nat /\ f \in Pops(n) /\ k + n = L + m
    BY <1>3, <1>4
  <1>6. f \in [1..n -> Pages] /\ \A p \in Range(f) : p \in Pages /\ p \notin Range(T)
    BY <1>1, <1>5, PopsFresh
  <1>7. X = [T EXCEPT ![Len(T)] = f[1]] \o SubSeq(f, 2, 1 + m)
    BY <1>1, <1>4 DEF CowTable
  <1>8. /\ Grown(X, T, k, 1 + m, f)
        /\ \A p : p \in Range(f) <=> p = f[1] \/ p \in Range(SubSeq(f, 2, 1 + m))
    <2>1. k \in Nat /\ Len(T) = k + 1 /\ f \in [1..1 + m -> Pages]
      BY <1>1, <1>3, <1>4, <1>6
    <2> QED  BY <1>7, <2>1, CowGrown
  <1>9. /\ tail \in Pages /\ attach[tail] > 0 /\ attach \in [Pages -> Nat]
        /\ f[1] \in Pages /\ f[1] /= tail
    <2>1. tail \in Pages /\ attach[tail] > 0 /\ attach \in [Pages -> Nat]
      BY <1>1, <1>2, ListedAttached DEF PoolInv, PoolTypes
    <2>2. f[1] \in Range(f)
      BY <1>8
    <2> QED  BY <1>2, <1>6, <2>1, <2>2
  <1>10. ASSUME NEW p \in Pages
         PROVE  CowAttach(s, f[1])[p] = IF p = f[1] THEN 1
                                        ELSE IF p = tail THEN attach[p] - 1 ELSE attach[p]
    BY <1>1, <1>9 DEF CowAttach, Saturating
  <1>11. attach' = [p \in Pages |-> IF p \in Range(f) THEN 1
                                    ELSE IF k < L /\ p = tail THEN attach[p] - 1
                                    ELSE attach[p]]
    <2>1. ASSUME NEW p \in Pages
          PROVE  (IF p \in Range(SubSeq(f, 2, 1 + m)) THEN 1 ELSE CowAttach(s, f[1])[p])
                 = IF p \in Range(f) THEN 1 ELSE IF k < L /\ p = tail THEN attach[p] - 1
                                              ELSE attach[p]
      BY <1>3, <1>8, <1>10
    <2> QED  BY <2>1
  <1>12. /\ table' = [table EXCEPT ![s] = X] /\ Grown(X, table[s], k, n, f) /\ L = Len(table[s])
         /\ L > 0 => tail = table[s][L]
         /\ seqLen'[s] <= (k + n) * PageSize
    BY <1>1, <1>2, <1>4, <1>5, <1>8
  <1>13. L \in Nat /\ (k = L \/ (k + 1 = L /\ page_is_shared_read_only(tail)))
    BY <1>2, <1>3
  <1>14. Grows(s, L, k, n, f, X, tail)
    BY <1>5, <1>11, <1>12, <1>13 DEF Grows
  <1> QED  BY <1>14, GrowStep

\* What append does to the free stack, the page table and the attach counts.
TakesPages(s, cow, new) ==
    \E f \in Pops(cow + new) :
        /\ free' = AfterPops(f)
        /\ table' = [table EXCEPT ![s] =
                       (IF cow = 1 THEN CowTable(s, f[1]) ELSE table[s])
                       \o SubSeq(f, cow + 1, cow + new)]
        /\ attach' = [p \in Pages |-> IF p \in Range(SubSeq(f, cow + 1, cow + new)) THEN 1
                             ELSE (IF cow = 1 THEN CowAttach(s, f[1]) ELSE attach)[p]]

\* Appending tokens keeps the invariant, with and without the copy of a tail.
LEMMA AppendStep ==
    ASSUME PoolInv, NEW s \in Slots, NEW n \in Nat, NEW toks \in [1..n -> Tokens],
           append(s, toks)
    PROVE  PoolInv'
  <1>1. Len(toks) = n
    OBVIOUS
  <1>2. PICK T \in Seq(Pages), L \in Nat : T = table[s] /\ L = Len(T)
    BY DEF PoolInv, PoolTypes
  <1>3. seqLen[s] \in Nat /\ seqLen \in [Slots -> Nat] /\ seqLen[s] <= L * PageSize
    BY <1>2 DEF PoolInv, PoolTypes, TablesSound
  <1>4. PICK new \in Nat, cow \in {0, 1} :
            /\ new = NewPages(s, Len(toks)) /\ cow = append_cow_pages_needed(s)
            /\ seqLen[s] + n <= (L + new) * PageSize
    <2>1. NewPages(s, n) \in Nat /\ seqLen[s] + n <= (L + NewPages(s, n)) * PageSize
      BY <1>3, RoomEnough
    <2>2. append_cow_pages_needed(s) \in {0, 1}
      BY DEF append_cow_pages_needed
    <2> QED  BY <1>1, <2>1, <2>2
  <1>5. PICK f \in Pops(cow + new) :
            /\ free' = AfterPops(f)
            /\ table' = [table EXCEPT ![s] =
                           (IF cow = 1 THEN CowTable(s, f[1]) ELSE table[s])
                           \o SubSeq(f, cow + 1, cow + new)]
            /\ attach' = [p \in Pages |-> IF p \in Range(SubSeq(f, cow + 1, cow + new)) THEN 1
                                 ELSE (IF cow = 1 THEN CowAttach(s, f[1]) ELSE attach)[p]]
    <2>1. TakesPages(s, append_cow_pages_needed(s), NewPages(s, Len(toks)))
      BY DEF append, TakesPages
    <2>2. TakesPages(s, cow, new)
      BY <1>4, <2>1
    <2> QED  BY <2>2 DEF TakesPages
  <1>6. /\ seqLen' \in [Slots -> Nat] /\ \A t \in Slots \ {s} : seqLen'[t] = seqLen[t]
        /\ seqLen'[s] <= (L + new) * PageSize
    <2>1. seqLen' = [seqLen EXCEPT ![s] = seqLen[s] + n]
      BY <1>1 DEF append
    <2>2. seqLen[s] + n \in Nat
      BY <1>3
    <2> QED  BY <1>3, <1>4, <2>1, <2>2
  <1>7. ref' = ref /\ blockPages' = blockPages
    BY DEF append
  <1>8. CASE cow = 1
    <2>1. cow + new = 1 + new /\ cow + 1 = 2
      BY <1>8
    <2>2. f \in Pops(1 + new) /\ free' = AfterPops(f)
      BY <1>5, <2>1
    <2>3. /\ table' = [table EXCEPT ![s] = CowTable(s, f[1]) \o SubSeq(f, 2, 1 + new)]
          /\ attach' = [p \in Pages |-> IF p \in Range(SubSeq(f, 2, 1 + new)) THEN 1
                                        ELSE CowAttach(s, f[1])[p]]
      BY <1>5, <1>8, <2>1
    <2>4. append_cow_pages_needed(s) = 1 /\ seqLen'[s] <= (Len(table[s]) + new) * PageSize
      BY <1>2, <1>4, <1>6, <1>8
    <2> QED  BY <1>4, <1>6, <1>7, <2>2, <2>3, <2>4, CowStep
  <1>9. CASE cow = 0
    <2>1. cow + new = new /\ cow + 1 = 1
      BY <1>4, <1>9
    <2>2. PICK X, tail : X = T \o SubSeq(f, 1, new) /\ tail = T[L]
      OBVIOUS
    <2>3. f \in Pops(new) /\ free' = AfterPops(f) /\ f \in [1..new -> Pages]
      BY <1>5, <2>1 DEF Pops
    <2>4. Grown(X, T, L, new, f) /\ Range(SubSeq(f, 1, new)) = Range(f)
      BY <1>2, <1>4, <2>2, <2>3, PlainGrown
    <2>5. /\ table' = [table EXCEPT ![s] = X]
          /\ attach' = [p \in Pages |-> IF p \in Range(f) THEN 1 ELSE attach[p]]
      <3>1. /\ table' = [table EXCEPT ![s] = T \o SubSeq(f, 1, new)]
            /\ attach' = [p \in Pages |-> IF p \in Range(SubSeq(f, 1, new)) THEN 1 ELSE attach[p]]
        <4>1. (IF cow = 1 THEN CowTable(s, f[1]) ELSE table[s]) = T
          BY <1>2, <1>9
        <4>2. (IF cow = 1 THEN CowAttach(s, f[1]) ELSE attach) = attach
          BY <1>9
        <4> QED  BY <1>5, <2>1, <4>1, <4>2, Zenon
      <3> QED  BY <2>2, <2>4, <3>1
    <2>6. attach' = [p \in Pages |-> IF p \in Range(f) THEN 1
                                     ELSE IF L < L /\ p = tail THEN attach[p] - 1
                                     ELSE attach[p]]
      BY <2>5
    <2>7. Grows(s, L, L, new, f, X, tail)
      BY <1>2, <1>4, <1>6, <1>7, <2>2, <2>3, <2>4, <2>5, <2>6 DEF Grows
    <2> QED  BY <2>7, GrowStep
  <1> QED  BY <1>4, <1>8, <1>9

\* The tail is copied and the pool is exhausted.
LEMMA OutOfPagesStep ==
    ASSUME PoolInv, NEW s \in Slots, NEW n, append_out_of_pages(s, n)
    PROVE  PoolInv'
  <1>1. PICK f \in Pops(1) : /\ free' = AfterPops(f)
                             /\ table' = [table EXCEPT ![s] = CowTable(s, f[1])]
                             /\ attach' = CowAttach(s, f[1])
    BY DEF append_out_of_pages
  <1>2. append_cow_pages_needed(s) = 1 /\ UNCHANGED <<seqLen, ref, blockPages>>
    BY DEF append_out_of_pages
  <1>3. PICK m \in Nat : m = 0
    OBVIOUS
  <1>4. f \in [1..1 -> Pages] /\ f \in Seq(Pages) /\ Len(f) = 1 /\ f[1] \in Pages
    <2>1. f \in [1..1 -> Pages]
      BY DEF Pops
    <2>2. f \in Seq(Pages)
      BY <2>1
    <2>3. Len(f) = 1
      BY <2>1
    <2> QED  BY <2>1, <2>2, <2>3
  <1>5. SubSeq(f, 2, 1 + m) = << >>
    BY <1>3, <1>4
  <1>6. CowTable(s, f[1]) \o << >> = CowTable(s, f[1])
    <2>1. PICK T \in Seq(Pages), c \in Pages : T = table[s] /\ c = f[1]
      BY <1>4 DEF PoolInv, PoolTypes
    <2>2. [T EXCEPT ![Len(T)] = c] \in Seq(Pages)
      <3>1. T \in [1..Len(T) -> Pages] /\ Len(T) \in Nat
        OBVIOUS
      <3>2. [T EXCEPT ![Len(T)] = c] \in [1..Len(T) -> Pages]
        BY <3>1
      <3> QED  BY <3>1, <3>2
    <2>3. CowTable(s, f[1]) \in Seq(Pages)
      BY <2>1, <2>2 DEF CowTable
    <2>4. \A x \in Seq(Pages) : x \o << >> = x
      OBVIOUS
    <2> QED  BY <2>3, <2>4
  <1>7. CowAttach(s, f[1]) = [p \in Pages |-> CowAttach(s, f[1])[p]]
    BY DEF CowAttach, PoolInv, PoolTypes
  <1>8. Range(<< >>) = {}
    BY DEF Range
  <1>9. /\ f \in Pops(1 + m) /\ free' = AfterPops(f)
        /\ table' = [table EXCEPT ![s] = CowTable(s, f[1]) \o SubSeq(f, 2, 1 + m)]
    <2>1. 1 + m = 1
      BY <1>3
    <2> QED  BY <1>1, <1>5, <1>6, <2>1, Zenon
  <1>10. attach' = [p \in Pages |-> IF p \in Range(SubSeq(f, 2, 1 + m)) THEN 1
                                    ELSE CowAttach(s, f[1])[p]]
    BY <1>1, <1>5, <1>7, <1>8
  <1>11. /\ seqLen' \in [Slots -> Nat] /\ \A t \in Slots \ {s} : seqLen'[t] = seqLen[t]
         /\ seqLen'[s] <= (Len(table[s]) + m) * PageSize
    <2>1. table[s] \in Seq(Pages) /\ seqLen[s] <= Len(table[s]) * PageSize
      BY DEF PoolInv, PoolTypes, TablesSound
    <2>2. Len(table[s]) + m = Len(table[s])
      BY <1>3, <2>1
    <2> QED  BY <1>2, <2>1, <2>2 DEF PoolInv, PoolTypes
  <1> QED  BY <1>2, <1>9, <1>10, <1>11, CowStep

\* A failed copy leaves one page attached that no table lists.
LEMMA CopyFailsStep ==
    ASSUME PoolInv, NEW s \in Slots, append_copy_fails(s)
    PROVE  PoolInv'
  <1>1. PICK f \in Pops(1) : free' = AfterPops(f) /\ attach' = [attach EXCEPT ![f[1]] = 1]
    BY DEF append_copy_fails
  <1>2. CopyMayFail /\ UNCHANGED <<table, seqLen, ref, blockPages>>
    BY DEF append_copy_fails
  <1>3. PICK n \in Nat, c \in Pages : n = 1 /\ c = f[1]
    BY DEF Pops
  <1>4. /\ f \in [1..n -> Pages]
        /\ \A p \in Pages : free'[p] = IF p \in Range(f) THEN 0 ELSE free[p]
        /\ \A p \in Range(f) :
               /\ p \in Pages /\ attach[p] = 0 /\ ref[p] = 0
               /\ \A t \in Slots : p \notin Range(table[t])
    <2>1. f \in Pops(n)
      BY <1>3
    <2> QED  BY <1>1, <2>1, PopsFresh
  <1>5. Range(f) = {c} /\ c \in Pages
    BY <1>3, <1>4 DEF Range
  <1>6. /\ free \in [Pages -> Nat] /\ ref \in [Pages -> Nat] /\ attach \in [Pages -> Nat]
    BY DEF PoolInv, PoolTypes
  <1>7. \A p \in Pages : attach'[p] = IF p = c THEN 1 ELSE attach[p]
    BY <1>1, <1>3, <1>6
  <1>8. PoolTypes'
    <2>1. free' = [p \in Pages |-> free'[p]]
      BY <1>1 DEF AfterPops
    <2>2. free' \in [Pages -> Nat]
      BY <1>4, <1>6, <2>1
    <2>3. attach' \in [Pages -> Nat]
      BY <1>1, <1>6
    <2> QED  BY <1>2, <2>2, <2>3 DEF PoolInv, PoolTypes
  <1>9. TablesSound' /\ BlocksWhole' /\ Aligned'
    <2>1. TablesSound'
      BY <1>2, Zenon DEF PoolInv, TablesSound
    <2>2. BlocksWhole'
      BY <1>2, Zenon DEF PoolInv, BlocksWhole, BlockWhole
    <2>3. Aligned'
      BY <1>2, AlignedKept DEF PoolInv
    <2> QED  BY <2>1, <2>2, <2>3
  <1>10. AttachExactButLostCopies'
    <2>1. ASSUME NEW p \in Pages PROVE attach'[p] = Holders(p)' \/ Lost(p)'
      <3>1. Holders(p)' = Holders(p)
        BY <1>2 DEF Holders, Listed
      <3>2. CASE p = c
        <4>1. Holders(p) = 0 /\ ref'[p] = 0 /\ attach'[p] = 1
          BY <1>2, <1>4, <1>5, <1>7, <3>2, HoldersType
        <4> QED  BY <1>2, <3>1, <4>1 DEF Lost
      <3>3. CASE p /= c
        <4>1. attach[p] = Holders(p) \/ Lost(p)
          BY AttachView DEF PoolInv
        <4> QED  BY <1>2, <1>7, <3>1, <3>3, <4>1 DEF Lost
      <3> QED  BY <3>2, <3>3
    <2> QED  BY <2>1, Zenon DEF AttachExactButLostCopies, Holders, Listed, Lost
  <1>11. FreeExactlyUnreferenced'
    <2>1. ASSUME NEW p \in Pages
          PROVE  free'[p] = IF attach'[p] = 0 /\ ref'[p] = 0 THEN 1 ELSE 0
      <3>1. free[p] = IF attach[p] = 0 /\ ref[p] = 0 THEN 1 ELSE 0
        BY DEF PoolInv, FreeExactlyUnreferenced
      <3> QED  BY <1>2, <1>4, <1>5, <1>7, <3>1
    <2> QED  BY <2>1 DEF FreeExactlyUnreferenced
  <1> QED  BY <1>8, <1>9, <1>10, <1>11 DEF PoolInv

------------------------------------------------------------------------------
(* Slots that shrink *)

\* The table of s becomes X and drops the pages R, which are recycled if they
\* are not retained; of the retained counts only those of R may have grown.
Drops(s, X, m, R) ==
    /\ s \in Slots /\ table' = [table EXCEPT ![s] = X]
    /\ m \in Nat /\ DOMAIN R = 1..m /\ Injective(R)
    /\ \A p : p \in Range(R) <=> p \in Range(table[s]) /\ p \notin Range(X)
    /\ \A p : p \in Range(X) => p \in Range(table[s])
    /\ attach' = Unattach(R) /\ free' = Recycled(R, ref')
    /\ \A p \in Pages : p \notin Range(R) => ref'[p] = ref[p]

\* Dropping pages keeps the counts and the free stack exact.
LEMMA DropStep ==
    ASSUME PoolInv, NEW s, NEW X, NEW m, NEW R, Drops(s, X, m, R)
    PROVE  /\ attach' \in [Pages -> Nat] /\ free' \in [Pages -> Nat]
           /\ AttachExactButLostCopies' /\ FreeExactlyUnreferenced'
  <1>1. s \in Slots /\ \A p : p \in Range(R) <=> p \in Range(table[s]) /\ p \notin Range(X)
    BY DEF Drops
  <1>2. ASSUME NEW p \in Pages PROVE Occurrences(R, p) = IF p \in Range(R) THEN 1 ELSE 0
    <2>1. m \in Nat /\ DOMAIN R = 1..m /\ Injective(R)
      BY DEF Drops
    <2> QED  BY <2>1, OccOnce
  <1>3. \A p \in Pages : attach[p] \in Nat /\ free[p] \in Nat /\ ref[p] \in Nat
    BY DEF PoolInv, PoolTypes
  <1>4. \A p \in Range(R) : attach[p] > 0
    BY <1>1, ListedAttached
  <1>5. ASSUME NEW p \in Pages
        PROVE  Unattach(R)[p] = IF p \in Range(R) THEN attach[p] - 1 ELSE attach[p]
    BY <1>2, <1>3, <1>4 DEF Unattach, Saturating
  <1>6. ASSUME NEW p \in Pages
        PROVE  attach'[p] = IF p \in Range(R) THEN attach[p] - 1 ELSE attach[p]
    BY <1>5 DEF Drops
  <1>7. ASSUME NEW p \in Pages
        PROVE  free'[p] = IF p \in Range(R) /\ attach'[p] = 0 /\ ref'[p] = 0
                          THEN free[p] + 1 ELSE free[p]
    <2>1. free'[p] = IF Occurrences(R, p) > 0 /\ Unattach(R)[p] = 0 /\ ref'[p] = 0
                     THEN free[p] + 1 ELSE free[p]
      BY DEF Drops, Recycled
    <2> QED  BY <1>2, <1>5, <1>6, <2>1
  <1>8. attach' \in [Pages -> Nat]
    <2>1. attach' = [p \in Pages |-> attach'[p]]
      BY DEF Drops, Unattach
    <2>2. \A p \in Pages : attach'[p] \in Nat
      BY <1>3, <1>4, <1>6
    <2> QED  BY <2>1, <2>2
  <1>9. free' \in [Pages -> Nat]
    <2>1. free' = [p \in Pages |-> free'[p]]
      BY DEF Drops, Recycled
    <2>2. \A p \in Pages : free'[p] \in Nat
      BY <1>3, <1>7
    <2> QED  BY <2>1, <2>2
  <1>10. AttachExactButLostCopies'
    <2>1. ASSUME NEW p \in Pages
          PROVE  /\ p \in Range(X) /\ p \notin Range(table[s]) =>
                       attach'[p] = attach[p] + 1 /\ ~Lost(p)
                 /\ p \notin Range(X) /\ p \in Range(table[s]) => attach'[p] = attach[p] - 1
                 /\ (p \in Range(X) <=> p \in Range(table[s])) =>
                       attach'[p] = attach[p] /\ (ref[p] = 0 /\ p \notin Range(X) => ref'[p] = 0)
      <3>1. p \in Range(X) => p \in Range(table[s])
        BY DEF Drops
      <3>2. p \notin Range(R) => ref'[p] = ref[p]
        BY DEF Drops
      <3> QED  BY <1>1, <1>6, <3>1, <3>2
    <2>2. AttachFollows(table[s], X)
      BY <2>1 DEF AttachFollows
    <2>3. s \in Slots /\ table' = [table EXCEPT ![s] = X]
      BY DEF Drops
    <2> QED  BY <1>8, <2>2, <2>3, AttachStep
  <1>11. FreeExactlyUnreferenced'
    <2>1. ASSUME NEW p \in Pages
          PROVE  free'[p] = IF attach'[p] = 0 /\ ref'[p] = 0 THEN 1 ELSE 0
      <3>1. free[p] = IF attach[p] = 0 /\ ref[p] = 0 THEN 1 ELSE 0
        BY DEF PoolInv, FreeExactlyUnreferenced
      <3>2. p \notin Range(R) => ref'[p] = ref[p]
        BY DEF Drops
      <3> QED  BY <1>3, <1>4, <1>6, <1>7, <3>1, <3>2
    <2> QED  BY <2>1 DEF FreeExactlyUnreferenced
  <1> QED  BY <1>8, <1>9, <1>10, <1>11

\* R is the m pages of T behind the first a.
PartOf(R, T, a, m) ==
    /\ R \in Seq(Pages) /\ Len(R) = m /\ DOMAIN R = 1..m
    /\ \A i \in 1..m : a + i \in 1..Len(T) /\ R[i] = T[a + i]

\* Part of a page list.
LEMMA PartOfList ==
    ASSUME NEW T \in Seq(Pages), NEW a \in Nat, NEW m \in Nat, a + m <= Len(T),
           NEW R, R = SubSeq(T, a + 1, a + m)
    PROVE  PartOf(R, T, a, m)
  <1>1. PICK b : b = a + m /\ R = SubSeq(T, a + 1, b)
    OBVIOUS
  <1>2. b \in 0..Len(T) /\ Len(T) \in Nat
    BY <1>1
  <1>3. \A i \in (a + 1)..b : T[i] \in Pages
    BY <1>2
  <1>4. R \in Seq(Pages)
    BY <1>1, <1>2, <1>3
  <1>5. Len(R) = m
    BY <1>1, <1>2, <1>4
  <1>6. DOMAIN R = 1..m
    BY <1>4, <1>5
  <1>7. ASSUME NEW i \in 1..m PROVE a + i \in 1..Len(T) /\ R[i] = T[a + i]
    BY <1>1, <1>2, <1>4, <1>5
  <1> QED  BY <1>4, <1>5, <1>6, <1>7 DEF PartOf

\* Taking back rejected tokens drops the pages behind the ones still needed.
LEMMA TruncateStep ==
    ASSUME PoolInv, NEW s \in Slots, NEW len \in Nat, truncate_slot(s, len)
    PROVE  PoolInv'
  <1>1. PICK T \in Seq(Pages), L \in Nat, d \in Nat \ {0}, keep \in Nat :
            T = table[s] /\ L = Len(T) /\ d = PageSize /\ keep = CeilDiv(len, PageSize)
    <2>1. table[s] \in Seq(Pages) /\ PageSize \in Nat \ {0}
      BY PageSizeAssumption DEF PoolInv, PoolTypes
    <2>2. CeilDiv(len, PageSize) \in Nat
      BY <2>1, CeilDivBounds
    <2>3. Len(table[s]) \in Nat
      BY <2>1
    <2> QED  BY <2>1, <2>2, <2>3, Zenon
  <1>2. len < seqLen[s] /\ seqLen[s] \in Nat /\ seqLen[s] <= L * d /\ Injective(T)
    BY <1>1 DEF truncate_slot, PoolInv, PoolTypes, TablesSound
  <1>3. keep \in Nat /\ len <= keep * d /\ keep * d < len + d
    BY <1>1, CeilDivBounds
  <1>4. keep <= L
    <2>1. keep * d < L * d + d
      <3>1. L * d \in Nat /\ keep * d \in Nat
        BY <1>3
      <3> QED  BY <1>2, <1>3, <3>1
    <2> QED  BY <1>3, <2>1, TimesOrder
  <1>5. PICK X, R, m : X = SubSeq(T, 1, keep) /\ R = SubSeq(T, keep + 1, L) /\ m = L - keep
    OBVIOUS
  <1>6. /\ X \in Seq(Pages) /\ DOMAIN X = 1..keep /\ Len(X) = keep
        /\ \A i \in 1..keep : X[i] = T[i]
    <2>1. PICK a \in Nat : a = 0
      OBVIOUS
    <2>2. a + keep <= Len(T) /\ a + 1 = 1 /\ a + keep = keep /\ \A i \in 1..keep : a + i = i
      BY <1>1, <1>3, <1>4, <2>1
    <2>3. X = SubSeq(T, a + 1, a + keep)
      BY <1>5, <2>2
    <2>4. PartOf(X, T, a, keep)
      BY <1>3, <2>2, <2>3, PartOfList
    <2> QED  BY <2>2, <2>4 DEF PartOf
  <1>7. m \in Nat /\ DOMAIN R = 1..m /\ \A i \in 1..m : R[i] = T[keep + i] /\ keep + i \in 1..L
    <2>1. m \in Nat /\ keep + m = L
      BY <1>3, <1>4, <1>5
    <2>2. R = SubSeq(T, keep + 1, keep + m)
      BY <1>5, <2>1, Zenon
    <2>3. keep + m <= Len(T)
      BY <1>1, <2>1
    <2>4. PartOf(R, T, keep, m)
      BY <1>3, <2>1, <2>2, <2>3, PartOfList
    <2> QED  BY <1>1, <2>1, <2>4, Zenon DEF PartOf
  <1>8. DOMAIN T = 1..L
    BY <1>1
  <1>9. Injective(X)
    BY <1>2, <1>3, <1>4, <1>6, <1>8 DEF Injective
  <1>10. Injective(R)
    <2>1. ASSUME NEW i \in 1..m, NEW j \in 1..m, R[i] = R[j] PROVE i = j
      <3>1. keep + i = keep + j
        BY <1>2, <1>7, <1>8, <2>1 DEF Injective
      <3> QED  BY <1>3, <1>7, <3>1
    <2> QED  BY <1>7, <2>1 DEF Injective
  <1>11. ASSUME NEW p
         PROVE  /\ p \in Range(R) <=> p \in Range(T) /\ p \notin Range(X)
                /\ p \in Range(X) => p \in Range(T)
    <2>1. ASSUME NEW i \in 1..L, i > keep PROVE T[i] \in Range(R)
      <3>1. i - keep \in 1..m /\ keep + (i - keep) = i
        BY <1>3, <1>5, <2>1
      <3>2. R[i - keep] = T[i]
        BY <1>7, <3>1
      <3> QED  BY <1>7, <3>1, <3>2 DEF Range
    <2>2. ASSUME NEW i \in 1..L, i <= keep PROVE T[i] \in Range(X)
      <3>1. i \in 1..keep
        BY <2>2
      <3>2. X[i] = T[i] /\ i \in DOMAIN X
        BY <1>6, <3>1
      <3> QED  BY <3>2 DEF Range
    <2>3. ASSUME p \in Range(T) PROVE p \in Range(X) \/ p \in Range(R)
      <3>1. PICK i \in 1..L : p = T[i]
        BY <1>8, <2>3 DEF Range
      <3> QED  BY <1>3, <2>1, <2>2, <3>1
    <2>4. ASSUME p \in Range(X) PROVE \E i \in 1..keep : p = T[i] /\ i \in 1..L
      BY <1>3, <1>4, <1>6, <2>4 DEF Range
    <2>5. ASSUME p \in Range(R) PROVE \E i \in 1..m : p = T[keep + i] /\ keep + i \in 1..L
      BY <1>7, <2>5 DEF Range
    <2>6. ~(p \in Range(X) /\ p \in Range(R))
      <3> SUFFICES ASSUME p \in Range(X), p \in Range(R) PROVE FALSE
        OBVIOUS
      <3>1. PICK i \in 1..keep : p = T[i] /\ i \in 1..L
        BY <2>4
      <3>2. PICK j \in 1..m : p = T[keep + j] /\ keep + j \in 1..L
        BY <2>5
      <3>3. i = keep + j
        BY <1>2, <1>8, <3>1, <3>2 DEF Injective
      <3> QED  BY <1>3, <1>7, <3>3
    <2>7. (p \in Range(X) \/ p \in Range(R)) => p \in Range(T)
      BY <1>8, <2>4, <2>5 DEF Range
    <2> QED  BY <2>3, <2>6, <2>7
  <1>12. /\ table' = [table EXCEPT ![s] = X] /\ seqLen' = [seqLen EXCEPT ![s] = len]
         /\ attach' = Unattach(R) /\ free' = Recycled(R, ref)
         /\ ref' = ref /\ blockPages' = blockPages
    BY <1>1, <1>5 DEF truncate_slot
  <1>13. Drops(s, X, m, R)
    BY <1>1, <1>7, <1>10, <1>11, <1>12 DEF Drops
  <1>14. /\ attach' \in [Pages -> Nat] /\ free' \in [Pages -> Nat]
         /\ AttachExactButLostCopies' /\ FreeExactlyUnreferenced'
    BY <1>13, DropStep
  <1>15. PoolTypes'
    BY <1>6, <1>12, <1>14 DEF PoolInv, PoolTypes
  <1>16. TablesSound'
    <2>1. ASSUME NEW t \in Slots
          PROVE  Injective(table'[t]) /\ seqLen'[t] <= Len(table'[t]) * PageSize
      <3>1. CASE t = s
        <4>1. table'[t] = X /\ seqLen'[t] = len
          BY <1>12, <3>1 DEF PoolInv, PoolTypes
        <4> QED  BY <1>1, <1>3, <1>6, <1>9, <4>1
      <3>2. CASE t /= s
        <4>1. table'[t] = table[t] /\ seqLen'[t] = seqLen[t]
          BY <1>12, <3>2 DEF PoolInv, PoolTypes
        <4> QED  BY <4>1, Zenon DEF PoolInv, TablesSound
      <3> QED  BY <3>1, <3>2
    <2> QED  BY <2>1 DEF TablesSound, Injective
  <1>17. BlocksWhole'
    BY <1>12, Zenon DEF PoolInv, BlocksWhole, BlockWhole
  <1>18. Aligned'
    <2>1. PICK off, head : PlacesAgree(off, head)
      BY DEF PoolInv, Aligned
    <2>2. Fits(T, off, head) /\ keep \in 0..Len(T)
      BY <1>1, <1>3, <1>4, <2>1 DEF PlacesAgree
    <2>3. Fits(X, off, head)
      BY <1>5, <2>2, FitsPrefix
    <2>4. \A t \in Slots : table'[t] = table[t] \/ table'[t] = X
      BY <1>12 DEF PoolInv, PoolTypes
    <2>5. \A t \in Slots : Fits(table'[t], off, head)
      BY <2>1, <2>3, <2>4 DEF PlacesAgree
    <2>6. \A b \in Pages : Fits(blockPages'[b], off, head)
      BY <1>12, <2>1 DEF PlacesAgree
    <2>7. PlacesAgree(off, head)'
      BY <2>5, <2>6 DEF PlacesAgree, Fits
    <2> QED  BY <2>7 DEF Aligned
  <1> QED  BY <1>14, <1>15, <1>16, <1>17, <1>18 DEF PoolInv

------------------------------------------------------------------------------
(* Publishing and borrowing *)

\* B is a whole block of the first n blocks of T, its pages in their places.
BlockIn(B, T, n, off, head) ==
    /\ B \in Seq(Pages) /\ Len(B) = PagesPerBlock /\ Fits(B, off, head)
    /\ \A j \in 1..PagesPerBlock : \E k \in 1..n * PagesPerBlock : B[j] = T[k]

\* The i-th block of a page table: its pages, and their places.
LEMMA BlockOfTable ==
    ASSUME NEW T \in Seq(Pages), NEW n \in Nat, n * PagesPerBlock <= Len(T), NEW i \in 1..n,
           NEW off, NEW head, Fits(T, off, head),
           NEW B, B = SubSeq(T, (i - 1) * PagesPerBlock + 1, i * PagesPerBlock)
    PROVE  BlockIn(B, T, n, off, head)
  <1>1. PICK d \in Nat \ {0} : d = PagesPerBlock
    BY BlockIsPages
  <1>2. PICK k \in Nat : k = i - 1 /\ i = k + 1
    OBVIOUS
  <1>3. PICK a \in Nat : a = k * d
    OBVIOUS
  <1>4. a + d = i * d /\ i * d <= n * d /\ n * d <= Len(T) /\ i * d \in Nat /\ n * d \in Nat
    <2>1. (k + 1) * d = k * d + d
      OBVIOUS
    <2>2. i \in Nat /\ i <= n
      OBVIOUS
    <2> QED  BY <1>1, <1>2, <1>3, <2>1, <2>2, TimesOrder
  <1>5. a + d <= Len(T) /\ B = SubSeq(T, a + 1, a + d)
    <2>1. a + d <= Len(T)
      BY <1>3, <1>4
    <2>2. (i - 1) * PagesPerBlock + 1 = a + 1 /\ i * PagesPerBlock = a + d
      BY <1>1, <1>2, <1>3, <1>4
    <2> QED  BY <2>1, <2>2
  <1>6. /\ B \in Seq(Pages) /\ Len(B) = d /\ DOMAIN B = 1..d
        /\ \A j \in 1..d : a + j \in 1..Len(T) /\ B[j] = T[a + j]
    <2>1. d \in Nat
      OBVIOUS
    <2>2. PartOf(B, T, a, d)
      BY <1>5, <2>1, PartOfList
    <2> QED  BY <2>2 DEF PartOf
  <1>7. ASSUME NEW j \in 1..d PROVE off[B[j]] = (j - 1) % d /\ head[B[j]] = B[HeadOf(j, d)]
    <2>1. a + j \in DOMAIN T /\ B[j] = T[a + j]
      <3>1. DOMAIN T = 1..Len(T)
        OBVIOUS
      <3>2. a + j \in 1..Len(T) /\ B[j] = T[a + j]
        BY <1>6, Zenon
      <3> QED  BY <3>1, <3>2, Zenon
    <2>2. off[T[a + j]] = (a + j - 1) % d /\ head[T[a + j]] = T[HeadOf(a + j, d)]
      BY <1>1, <2>1 DEF Fits
    <2>3. (a + j - 1) % d = j - 1 /\ HeadOf(a + j, d) = a + 1
      BY <1>3, PlaceInBlock
    <2>4. (j - 1) % d = j - 1
      OBVIOUS
    <2>5. HeadOf(j, d) = 1
      BY <2>4 DEF HeadOf
    <2>6. B[1] = T[a + 1]
      BY <1>6
    <2> QED  BY <2>1, <2>2, <2>3, <2>4, <2>5, <2>6
  <1>8. Fits(B, off, head)
    BY <1>1, <1>6, <1>7 DEF Fits
  <1>9. ASSUME NEW j \in 1..d PROVE a + j \in 1..n * d /\ B[j] = T[a + j]
    <2>1. PICK N \in Nat, M \in Nat : N = n * d /\ M = i * d
      BY <1>4
    <2>2. a + d = M /\ M <= N
      BY <1>4, <2>1
    <2>3. a + j \in 1..N
      BY <2>2
    <2> QED  BY <1>6, <2>1, <2>3
  <1> QED  BY <1>1, <1>6, <1>8, <1>9 DEF BlockIn

\* The index after publish_to_prefix_cache: new entries are blocks of T.
Publishes(T, n) ==
    \A b \in Pages :
        \/ blockPages'[b] = blockPages[b]
        \/ \E i \in 1..n :
               /\ blockPages'[b] = SubSeq(T, (i - 1) * PagesPerBlock + 1, i * PagesPerBlock)
               /\ blockPages'[b][1] = b

\* What publish_and_free does to the index.
LEMMA PublishIndex ==
    ASSUME NEW s \in Slots, NEW n, publish_and_free(s, n)
    PROVE  /\ Publishes(table[s], n)
           /\ blockPages' = [b \in Pages |-> blockPages'[b]]
  <1> DEFINE block(i) == SubSeq(table[s], (i - 1) * PagesPerBlock + 1, i * PagesPerBlock)
  <1>1. blockPages' = [b \in Pages |->
                        LET is == {i \in 1..n : block(i)[1] = b}
                        IN  IF blockPages[b] = << >> /\ is /= {}
                            THEN block(CHOOSE i \in is : TRUE) ELSE blockPages[b]]
    BY DEF publish_and_free
  <1> HIDE DEF block
  <1>2. ASSUME NEW b \in Pages
        PROVE  \/ blockPages'[b] = blockPages[b]
               \/ \E i \in 1..n : blockPages'[b] = block(i) /\ block(i)[1] = b
    <2>1. PICK is : is = {i \in 1..n : block(i)[1] = b}
      OBVIOUS
    <2>2. blockPages'[b] = IF blockPages[b] = << >> /\ is /= {}
                           THEN block(CHOOSE i \in is : TRUE) ELSE blockPages[b]
      BY <1>1, <2>1
    <2>3. is /= {} => (CHOOSE i \in is : TRUE) \in is
      OBVIOUS
    <2> QED  BY <2>1, <2>2, <2>3
  <1>3. Publishes(table[s], n)
    BY <1>2 DEF Publishes, block
  <1>4. blockPages' = [b \in Pages |-> blockPages'[b]]
    BY <1>1
  <1> QED  BY <1>3, <1>4

\* A finished request leaves its blocks to the prefix cache and drops its table.
LEMMA PublishStep ==
    ASSUME PoolInv, NEW s \in Slots, NEW n \in Nat, publish_and_free(s, n)
    PROVE  PoolInv'
  <1>1. PICK T \in Seq(Pages), L \in Nat, d \in Nat \ {0}, D \in Nat \ {0} :
            T = table[s] /\ L = Len(T) /\ d = PageSize /\ D = PagesPerBlock
    BY PageSizeAssumption, BlockIsPages DEF PoolInv, PoolTypes
  <1>2. DOMAIN T = 1..L /\ Injective(T) /\ seqLen[s] <= L * d
    BY <1>1 DEF PoolInv, TablesSound
  <1>3. PICK N \in Nat : N = n * D
    BY <1>1
  <1>4. N <= L
    <2>1. n * BlockSize <= seqLen[s] /\ seqLen[s] \in Nat
      BY DEF publish_and_free, PoolInv, PoolTypes
    <2>2. n * BlockSize = N * d
      <3>1. BlockSize = D * d
        BY <1>1, BlockIsPages
      <3>2. n * (D * d) = (n * D) * d
        OBVIOUS
      <3> QED  BY <1>3, <3>1, <3>2
    <2>3. N * d < L * d + d
      <3>1. L * d \in Nat /\ N * d \in Nat
        OBVIOUS
      <3> QED  BY <1>2, <2>1, <2>2, <3>1
    <2> QED  BY <2>3, TimesOrder
  <1>5. PICK P : P = SubSeq(T, 1, N)
    OBVIOUS
  <1>6. DOMAIN P = 1..N /\ \A i \in 1..N : P[i] = T[i] /\ i \in DOMAIN T
    <2>1. PICK a \in Nat : a = 0
      OBVIOUS
    <2>2. a + N <= Len(T) /\ a + 1 = 1 /\ a + N = N /\ \A i \in 1..N : a + i = i
      BY <1>1, <1>4, <2>1
    <2>3. P = SubSeq(T, a + 1, a + N)
      BY <1>5, <2>2
    <2>4. PartOf(P, T, a, N)
      BY <2>2, <2>3, PartOfList
    <2> QED  BY <1>1, <1>2, <2>2, <2>4 DEF PartOf
  <1>7. ASSUME NEW p
        PROVE  /\ Occurrences(P, p) \in Nat /\ (Occurrences(P, p) = 0 <=> p \notin Range(P))
               /\ p \in Range(P) => p \in Range(T)
    BY <1>6, OccType DEF Range
  <1>8. ref' = [p \in Pages |-> ref[p] + Occurrences(P, p)]
    BY <1>1, <1>3, <1>5 DEF publish_and_free
  <1>9. \A p \in Pages : ref[p] \in Nat
    BY DEF PoolInv, PoolTypes
  <1>10. /\ ref' \in [Pages -> Nat]
         /\ \A p \in Pages : /\ p \notin Range(T) => ref'[p] = ref[p]
                             /\ ref[p] > 0 => ref'[p] > 0
                             /\ p \in Range(P) => ref'[p] > 0
    <2>1. ASSUME NEW p \in Pages
          PROVE  /\ ref[p] + Occurrences(P, p) \in Nat
                 /\ p \notin Range(T) => ref'[p] = ref[p]
                 /\ ref[p] > 0 => ref'[p] > 0
                 /\ p \in Range(P) => ref'[p] > 0
      BY <1>7, <1>8, <1>9
    <2> QED  BY <1>8, <2>1
  <1>11. PICK X : X = << >>
    OBVIOUS
  <1>12. X \in Seq(Pages) /\ Len(X) = 0 /\ DOMAIN X = {} /\ Injective(X) /\ Range(X) = {}
    BY <1>11 DEF Injective, Range
  <1>13. /\ table' = [table EXCEPT ![s] = X] /\ seqLen' = [seqLen EXCEPT ![s] = 0]
         /\ attach' = Unattach(T) /\ free' = Recycled(T, ref')
    BY <1>1, <1>11 DEF publish_and_free
  <1>14. Drops(s, X, L, T)
    BY <1>1, <1>2, <1>10, <1>12, <1>13 DEF Drops
  <1>15. /\ attach' \in [Pages -> Nat] /\ free' \in [Pages -> Nat]
         /\ AttachExactButLostCopies' /\ FreeExactlyUnreferenced'
    BY <1>14, DropStep
  <1>16. PICK off, head : PlacesAgree(off, head)
    BY DEF PoolInv, Aligned
  <1>17. Fits(T, off, head) /\ n * PagesPerBlock <= Len(T)
    BY <1>1, <1>3, <1>4, <1>16 DEF PlacesAgree
  <1>18. Publishes(T, n) /\ blockPages' = [b \in Pages |-> blockPages'[b]]
    BY <1>1, PublishIndex
  <1>19. ASSUME NEW b \in Pages, blockPages'[b] /= blockPages[b]
         PROVE  /\ blockPages'[b] \in Seq(Pages) /\ Len(blockPages'[b]) = PagesPerBlock
                /\ Fits(blockPages'[b], off, head) /\ blockPages'[b][1] = b
                /\ \A j \in 1..PagesPerBlock : blockPages'[b][j] \in Range(P)
    <2>1. PICK i \in 1..n :
              /\ blockPages'[b] = SubSeq(T, (i - 1) * PagesPerBlock + 1, i * PagesPerBlock)
              /\ blockPages'[b][1] = b
      BY <1>18, <1>19 DEF Publishes
    <2>2. PICK B : B = blockPages'[b]
      OBVIOUS
    <2>3. B = SubSeq(T, (i - 1) * PagesPerBlock + 1, i * PagesPerBlock)
      BY <2>1, <2>2
    <2>4. /\ B \in Seq(Pages) /\ Len(B) = PagesPerBlock /\ Fits(B, off, head)
          /\ \A j \in 1..PagesPerBlock : \E k \in 1..n * PagesPerBlock : B[j] = T[k]
      <3>1. BlockIn(B, T, n, off, head)
        BY <1>17, <2>3, BlockOfTable
      <3> QED  BY <3>1 DEF BlockIn
    <2>5. \A j \in 1..PagesPerBlock : B[j] \in Range(P)
      <3>1. \A k \in 1..N : T[k] \in Range(P)
        BY <1>6 DEF Range
      <3> QED  BY <1>1, <1>3, <2>4, <3>1
    <2> QED  BY <2>1, <2>2, <2>4, <2>5
  <1>20. PoolTypes'
    <2>1. ASSUME NEW b \in Pages PROVE blockPages'[b] \in Seq(Pages)
      BY <1>19 DEF PoolInv, PoolTypes
    <2>2. blockPages' \in [Pages -> Seq(Pages)]
      BY <1>18, <2>1
    <2>3. table' \in [Slots -> Seq(Pages)] /\ seqLen' \in [Slots -> Nat]
      BY <1>12, <1>13 DEF PoolInv, PoolTypes
    <2> QED  BY <1>10, <1>15, <2>2, <2>3 DEF PoolTypes
  <1>21. TablesSound'
    <2>1. ASSUME NEW t \in Slots
          PROVE  Injective(table'[t]) /\ seqLen'[t] <= Len(table'[t]) * PageSize
      <3>1. CASE t = s
        <4>1. table'[t] = X /\ seqLen'[t] = 0
          BY <1>13, <3>1 DEF PoolInv, PoolTypes
        <4>2. 0 <= 0 * d
          OBVIOUS
        <4> QED  BY <1>1, <1>12, <4>1, <4>2
      <3>2. CASE t /= s
        <4>1. table'[t] = table[t] /\ seqLen'[t] = seqLen[t]
          BY <1>13, <3>2 DEF PoolInv, PoolTypes
        <4> QED  BY <4>1, Zenon DEF PoolInv, TablesSound
      <3> QED  BY <3>1, <3>2
    <2> QED  BY <2>1 DEF TablesSound, Injective
  <1>22. BlocksWhole'
    <2> SUFFICES ASSUME NEW b \in Pages, blockPages'[b] /= << >>
                 PROVE  /\ Len(blockPages'[b]) = PagesPerBlock /\ blockPages'[b][1] = b
                        /\ \A i \in DOMAIN blockPages'[b] : ref'[blockPages'[b][i]] > 0
      BY DEF BlocksWhole, BlockWhole
    <2>1. CASE blockPages'[b] = blockPages[b]
      <3>1. BlockWhole(b) /\ blockPages[b] \in Seq(Pages)
        BY DEF PoolInv, PoolTypes, BlocksWhole
      <3>2. ASSUME NEW i \in DOMAIN blockPages[b] PROVE ref'[blockPages[b][i]] > 0
        BY <1>10, <2>1, <3>1 DEF BlockWhole
      <3> QED  BY <2>1, <3>1, <3>2 DEF BlockWhole
    <2>2. CASE blockPages'[b] /= blockPages[b]
      <3>1. PICK B \in Seq(Pages) : B = blockPages'[b]
        BY <1>19, <2>2
      <3>2. Len(B) = PagesPerBlock /\ B[1] = b /\ \A j \in 1..PagesPerBlock : B[j] \in Range(P)
        BY <1>19, <2>2, <3>1
      <3>3. \A j \in DOMAIN B : B[j] \in Pages /\ B[j] \in Range(P)
        BY <3>2
      <3> QED  BY <1>10, <3>1, <3>2, <3>3
    <2> QED  BY <2>1, <2>2
  <1>23. Aligned'
    <2>1. \A b \in Pages : Fits(blockPages'[b], off, head)
      BY <1>16, <1>19 DEF PlacesAgree
    <2>2. Fits(X, off, head)
      BY <1>12 DEF Fits
    <2>3. \A t \in Slots : table'[t] = table[t] \/ table'[t] = X
      BY <1>13 DEF PoolInv, PoolTypes
    <2>4. \A t \in Slots : Fits(table'[t], off, head)
      BY <1>16, <2>2, <2>3 DEF PlacesAgree
    <2>5. PlacesAgree(off, head)'
      BY <2>1, <2>4 DEF PlacesAgree, Fits
    <2> QED  BY <2>5 DEF Aligned
  <1> QED  BY <1>15, <1>20, <1>21, <1>22, <1>23 DEF PoolInv

\* The pages of different indexed blocks, one block after the other, are all
\* different and are in their places.
LEMMA BorrowedPages ==
    ASSUME PoolInv, NEW off, NEW head, PlacesAgree(off, head), NEW n \in Nat \ {0},
           NEW bids \in [1..n -> {b \in Pages : blockPages[b] /= << >>}], Injective(bids),
           NEW X, X = PagesOf(bids)
    PROVE  /\ X \in Seq(Pages) /\ Len(X) = n * PagesPerBlock /\ Injective(X)
           /\ Fits(X, off, head) /\ \A p \in Range(X) : ref[p] > 0
  <1>1. PICK D \in Nat \ {0}, N \in Nat : D = PagesPerBlock /\ N = n * D
    BY BlockIsPages
  <1>2. Len(bids) = n
    OBVIOUS
  <1>3. X = [i \in 1..N |-> blockPages[bids[CeilDiv(i, D)]][((i - 1) % D) + 1]]
    BY <1>1, <1>2 DEF PagesOf
  <1>4. ASSUME NEW c \in 1..n
        PROVE  /\ bids[c] \in Pages /\ blockPages[bids[c]] /= << >>
               /\ blockPages[bids[c]] \in [1..D -> Pages] /\ blockPages[bids[c]][1] = bids[c]
               /\ \A j \in 1..D : /\ off[blockPages[bids[c]][j]] = j - 1
                                  /\ head[blockPages[bids[c]][j]] = bids[c]
                                  /\ ref[blockPages[bids[c]][j]] > 0
    <2>1. PICK b \in Pages : b = bids[c] /\ blockPages[b] /= << >>
      OBVIOUS
    <2>2. /\ blockPages[b] \in [1..D -> Pages] /\ blockPages[b][1] = b
          /\ \A j \in 1..D : off[blockPages[b][j]] = j - 1 /\ head[blockPages[b][j]] = b
      BY <1>1, <2>1, BlockPlaces
    <2>3. \A j \in 1..D : ref[blockPages[b][j]] > 0
      BY <2>1, <2>2 DEF PoolInv, BlocksWhole, BlockWhole
    <2> QED  BY <2>1, <2>2, <2>3
  <1>5. ASSUME NEW i \in 1..N
        PROVE  \E c \in 1..n, r \in 0..D - 1 :
                   /\ i = (c - 1) * D + r + 1 /\ CeilDiv(i, D) = c /\ (i - 1) % D = r
                   /\ HeadOf(i, D) = (c - 1) * D + 1 /\ HeadOf(i, D) \in 1..i
    <2>1. PICK c, r : c = CeilDiv(i, D) /\ r = (i - 1) % D
      OBVIOUS
    <2>2. i \in Nat \ {0}
      OBVIOUS
    <2>3. /\ r \in 0..D - 1 /\ HeadOf(i, D) \in 1..i /\ c \in Nat \ {0}
          /\ i = (c - 1) * D + r + 1 /\ HeadOf(i, D) = (c - 1) * D + 1
      BY <2>1, <2>2, Placement
    <2>4. c \in 1..n
      <3>1. PICK k \in Nat : k = c - 1 /\ c = k + 1
        BY <2>3
      <3>2. k * D \in Nat /\ i = k * D + r + 1 /\ i <= n * D
        BY <1>1, <2>3, <3>1
      <3>3. k * D < n * D
        BY <1>1, <2>3, <3>2
      <3>4. k < n
        BY <3>3, TimesOrder
      <3> QED  BY <3>1, <3>4
    <2> QED  BY <2>1, <2>3, <2>4
  <1>6. ASSUME NEW i \in 1..N, NEW c \in 1..n, NEW r \in 0..D - 1,
               CeilDiv(i, D) = c, (i - 1) % D = r
        PROVE  /\ X[i] = blockPages[bids[c]][r + 1] /\ X[i] \in Pages
               /\ off[X[i]] = r /\ head[X[i]] = bids[c] /\ ref[X[i]] > 0
    <2>1. X[i] = blockPages[bids[c]][r + 1]
      BY <1>3, <1>6
    <2>2. r + 1 \in 1..D /\ (r + 1) - 1 = r
      OBVIOUS
    <2> QED  BY <1>4, <2>1, <2>2
  <1>7. X \in Seq(Pages) /\ Len(X) = N /\ DOMAIN X = 1..N
    <2>1. \A i \in 1..N : X[i] \in Pages
      BY <1>5, <1>6
    <2>2. X \in [1..N -> Pages]
      BY <1>3, <2>1
    <2> QED  BY <2>2
  <1>8. Injective(X)
    <2>1. ASSUME NEW i \in 1..N, NEW j \in 1..N, X[i] = X[j] PROVE i = j
      <3>1. PICK c \in 1..n, r \in 0..D - 1 :
                i = (c - 1) * D + r + 1 /\ CeilDiv(i, D) = c /\ (i - 1) % D = r
        BY <1>5
      <3>2. PICK e \in 1..n, q \in 0..D - 1 :
                j = (e - 1) * D + q + 1 /\ CeilDiv(j, D) = e /\ (j - 1) % D = q
        BY <1>5
      <3>3. off[X[i]] = r /\ head[X[i]] = bids[c] /\ off[X[j]] = q /\ head[X[j]] = bids[e]
        <4>1. off[X[i]] = r /\ head[X[i]] = bids[c]
          BY <1>6, <3>1
        <4>2. off[X[j]] = q /\ head[X[j]] = bids[e]
          BY <1>6, <3>2
        <4> QED  BY <4>1, <4>2
      <3>4. r = q /\ c = e
        BY <2>1, <3>3 DEF Injective
      <3> QED  BY <3>1, <3>2, <3>4
    <2> QED  BY <1>7, <2>1, Zenon DEF Injective
  <1>9. ASSUME NEW i \in 1..N PROVE off[X[i]] = (i - 1) % D /\ head[X[i]] = X[HeadOf(i, D)]
    <2>1. PICK c \in 1..n, r \in 0..D - 1 :
              /\ CeilDiv(i, D) = c /\ (i - 1) % D = r
              /\ HeadOf(i, D) = (c - 1) * D + 1 /\ HeadOf(i, D) \in 1..i
      BY <1>5
    <2>2. off[X[i]] = r /\ head[X[i]] = bids[c]
      BY <1>6, <2>1
    <2>3. PICK h \in 1..N : h = HeadOf(i, D)
      BY <2>1
    <2>4. CeilDiv(h, D) = c /\ (h - 1) % D = 0
      <3>1. PICK k \in Nat, j \in 1..D : k = c - 1 /\ c = k + 1 /\ j = 1
        <4>1. c - 1 \in Nat /\ c = (c - 1) + 1 /\ 1 \in 1..D
          OBVIOUS
        <4> QED  BY <4>1
      <3>2. (k * D + j - 1) % D = j - 1 /\ CeilDiv(k * D + j, D) = k + 1
        BY PlaceInBlock
      <3>3. h = k * D + j
        BY <2>1, <2>3, <3>1
      <3> QED  BY <3>1, <3>2, <3>3
    <2>5. X[h] = blockPages[bids[c]][0 + 1]
      BY <1>6, <2>4
    <2>6. X[h] = bids[c]
      BY <1>4, <2>5
    <2> QED  BY <2>1, <2>2, <2>3, <2>6
  <1>10. Fits(X, off, head)
    BY <1>1, <1>7, <1>9 DEF Fits
  <1>11. \A p \in Range(X) : ref[p] > 0
    <2>1. \A i \in 1..N : ref[X[i]] > 0
      BY <1>5, <1>6
    <2> QED  BY <1>7, <2>1 DEF Range
  <1> QED  BY <1>1, <1>7, <1>8, <1>10, <1>11

\* Borrowing cached blocks counts one holder more for each of their pages.
LEMMA BorrowStep ==
    ASSUME PoolInv, NEW s \in Slots, NEW n \in Nat \ {0}, NEW short \in BOOLEAN,
           NEW bids \in [1..n -> {b \in Pages : blockPages[b] /= << >>}], Injective(bids),
           attach_pages(s, bids, short)
    PROVE  PoolInv'
  <1>1. PICK off, head : PlacesAgree(off, head)
    BY DEF PoolInv, Aligned
  <1>2. PICK X : X = PagesOf(bids)
    OBVIOUS
  <1>3. /\ X \in Seq(Pages) /\ Len(X) = n * PagesPerBlock /\ Injective(X)
        /\ Fits(X, off, head) /\ \A p \in Range(X) : ref[p] > 0
    BY <1>1, <1>2, BorrowedPages
  <1>4. PICK count : count = n * BlockSize - (IF short THEN 1 ELSE 0)
    OBVIOUS
  <1>5. count \in Nat /\ count <= Len(X) * PageSize
    <2>1. PICK D \in Nat \ {0}, d \in Nat \ {0} : D = PagesPerBlock /\ d = PageSize
      BY BlockIsPages, PageSizeAssumption
    <2>2. n * BlockSize = (n * D) * d
      <3>1. BlockSize = D * d
        BY <2>1, BlockIsPages
      <3>2. n * (D * d) = (n * D) * d
        OBVIOUS
      <3> QED  BY <3>1, <3>2
    <2>3. n * BlockSize \in Nat \ {0}
      BY BlockSizeAssumption
    <2> QED  BY <1>3, <1>4, <2>1, <2>2, <2>3
  <1>6. Len(bids) = n
    OBVIOUS
  <1>7. /\ table[s] = << >> /\ table' = [table EXCEPT ![s] = X]
        /\ seqLen' = [seqLen EXCEPT ![s] = count]
        /\ attach' = [p \in Pages |-> attach[p] + Occurrences(X, p)]
        /\ free' = free /\ ref' = ref /\ blockPages' = blockPages
    BY <1>2, <1>4, <1>6 DEF attach_pages
  <1>8. PICK N \in Nat : N = Len(X) /\ DOMAIN X = 1..N
    BY <1>3
  <1>9. ASSUME NEW p \in Pages
        PROVE  attach'[p] = IF p \in Range(X) THEN attach[p] + 1 ELSE attach[p]
    <2>1. Occurrences(X, p) = IF p \in Range(X) THEN 1 ELSE 0
      BY <1>3, <1>8, OccOnce
    <2>2. attach[p] \in Nat
      BY DEF PoolInv, PoolTypes
    <2> QED  BY <1>7, <2>1, <2>2
  <1>10. attach' \in [Pages -> Nat]
    <2>1. attach' = [p \in Pages |-> attach'[p]]
      BY <1>7
    <2>2. ASSUME NEW p \in Pages PROVE attach'[p] \in Nat
      <3>1. attach[p] \in Nat
        BY DEF PoolInv, PoolTypes
      <3> QED  BY <1>9, <3>1
    <2> QED  BY <2>1, <2>2
  <1>11. PoolTypes'
    BY <1>3, <1>5, <1>7, <1>10 DEF PoolInv, PoolTypes
  <1>12. TablesSound'
    <2>1. ASSUME NEW t \in Slots
          PROVE  Injective(table'[t]) /\ seqLen'[t] <= Len(table'[t]) * PageSize
      <3>1. CASE t = s
        <4>1. table'[t] = X /\ seqLen'[t] = count
          BY <1>7, <3>1 DEF PoolInv, PoolTypes
        <4> QED  BY <1>3, <1>5, <4>1
      <3>2. CASE t /= s
        <4>1. table'[t] = table[t] /\ seqLen'[t] = seqLen[t]
          BY <1>7, <3>2 DEF PoolInv, PoolTypes
        <4> QED  BY <4>1, Zenon DEF PoolInv, TablesSound
      <3> QED  BY <3>1, <3>2
    <2> QED  BY <2>1 DEF TablesSound, Injective
  <1>13. BlocksWhole'
    BY <1>7, Zenon DEF PoolInv, BlocksWhole, BlockWhole
  <1>14. Aligned'
    <2>1. \A t \in Slots : table'[t] = table[t] \/ table'[t] = X
      BY <1>7 DEF PoolInv, PoolTypes
    <2>2. /\ \A t \in Slots : Fits(table'[t], off, head)
          /\ \A b \in Pages : Fits(blockPages'[b], off, head)
      BY <1>1, <1>3, <1>7, <2>1 DEF PlacesAgree
    <2>3. PlacesAgree(off, head)'
      BY <2>2 DEF PlacesAgree, Fits
    <2> QED  BY <2>3 DEF Aligned
  <1>15. AttachExactButLostCopies'
    <2>1. Range(table[s]) = {}
      BY <1>7 DEF Range
    <2>2. ASSUME NEW p \in Pages
          PROVE  /\ p \in Range(X) => attach'[p] = attach[p] + 1 /\ ~Lost(p)
                 /\ p \notin Range(X) => attach'[p] = attach[p] /\ ref'[p] = ref[p]
      BY <1>3, <1>7, <1>9 DEF Lost
    <2>3. AttachFollows(table[s], X)
      BY <2>1, <2>2 DEF AttachFollows
    <2> QED  BY <1>7, <1>10, <2>3, AttachStep
  <1>16. FreeExactlyUnreferenced'
    <2>1. ASSUME NEW p \in Pages
          PROVE  free'[p] = IF attach'[p] = 0 /\ ref'[p] = 0 THEN 1 ELSE 0
      <3>1. free[p] = IF attach[p] = 0 /\ ref[p] = 0 THEN 1 ELSE 0
        BY DEF PoolInv, FreeExactlyUnreferenced
      <3> QED  BY <1>3, <1>7, <1>9, <3>1
    <2> QED  BY <2>1 DEF FreeExactlyUnreferenced
  <1> QED  BY <1>11, <1>12, <1>13, <1>14, <1>15, <1>16 DEF PoolInv

------------------------------------------------------------------------------
(* The theorems *)

\* Every operation of the pool preserves the invariant.
LEMMA PoolInvStep == PoolInv /\ [Next]_vars => PoolInv'
  <1> SUFFICES ASSUME PoolInv, [Next]_vars PROVE PoolInv'
    OBVIOUS
  <1>1. ASSUME NEW s \in Slots, NEW n \in 1..MaxLen, NEW toks \in [1..n -> Tokens],
               append(s, toks)
        PROVE  PoolInv'
    <2>1. n \in Nat
      BY BoundAssumption
    <2> QED  BY <1>1, <2>1, AppendStep
  <1>2. ASSUME NEW s \in Slots, NEW n \in 1..MaxLen, append_out_of_pages(s, n)
        PROVE  PoolInv'
    BY <1>2, OutOfPagesStep
  <1>3. ASSUME NEW s \in Slots, append_copy_fails(s) PROVE PoolInv'
    BY <1>3, CopyFailsStep
  <1>4. ASSUME NEW s \in Slots, NEW n \in 1..MaxLen \div BlockSize, NEW short \in BOOLEAN,
               NEW bids \in [1..n -> {b \in Pages : blockPages[b] /= << >>}],
               \A i, j \in 1..n : bids[i] = bids[j] => i = j, attach_pages(s, bids, short)
        PROVE  PoolInv'
    <2>1. n \in Nat \ {0} /\ Injective(bids)
      BY <1>4, BoundAssumption, BlockSizeAssumption DEF Injective
    <2> QED  BY <1>4, <2>1, BorrowStep
  <1>5. ASSUME NEW s \in Slots, NEW n \in 0..MaxLen \div BlockSize, publish_and_free(s, n)
        PROVE  PoolInv'
    <2>1. n \in Nat
      BY BoundAssumption, BlockSizeAssumption
    <2> QED  BY <1>5, <2>1, PublishStep
  <1>6. ASSUME NEW s \in Slots, NEW len \in 0..MaxLen, truncate_slot(s, len)
        PROVE  PoolInv'
    <2>1. len \in Nat
      BY BoundAssumption
    <2> QED  BY <1>6, <2>1, TruncateStep
  <1>7. ASSUME NEW b \in Pages, release_block(b) PROVE PoolInv'
    BY <1>7, ReleaseStep
  <1>8. ASSUME NEW rows, install_block(rows) PROVE PoolInv'
    <2>1. PICK f \in Pops(PagesPerBlock) :
              /\ free' = AfterPops(f)
              /\ ref' = [p \in Pages |-> IF p \in Range(f) THEN 1 ELSE ref[p]]
              /\ blockPages' = [blockPages EXCEPT ![f[1]] = f]
              /\ UNCHANGED <<table, attach, seqLen>>
      BY <1>8 DEF install_block
    <2> QED  BY <2>1, InstallStep
  <1>9. ASSUME install_copy_fails PROVE PoolInv'
    <2>1. PICK f \in Pops(PagesPerBlock) :
              /\ free' = AfterPops(f)
              /\ ref' = [p \in Pages |-> IF p \in Range(f) THEN 1 ELSE ref[p]]
      BY <1>9 DEF install_copy_fails
    <2>2. UNCHANGED <<table, attach, seqLen>> /\ blockPages' = blockPages
      BY <1>9 DEF install_copy_fails
    <2> QED  BY <2>1, <2>2, InstallStep
  <1>10. ASSUME UNCHANGED vars PROVE PoolInv'
    <2>1. UNCHANGED <<free, table, seqLen, attach, ref, blockPages>>
      BY <1>10 DEF vars, poolVars
    <2>2. PoolTypes' /\ TablesSound' /\ BlocksWhole' /\ FreeExactlyUnreferenced'
      <3>1. PoolTypes'
        BY <2>1, Zenon DEF PoolInv, PoolTypes
      <3>2. TablesSound'
        BY <2>1, Zenon DEF PoolInv, TablesSound
      <3>3. BlocksWhole'
        BY <2>1, Zenon DEF PoolInv, BlocksWhole, BlockWhole
      <3>4. FreeExactlyUnreferenced'
        BY <2>1, Zenon DEF PoolInv, FreeExactlyUnreferenced
      <3> QED  BY <3>1, <3>2, <3>3, <3>4
    <2>3. Aligned'
      BY <2>1, AlignedKept DEF PoolInv
    <2>4. AttachExactButLostCopies'
      BY <2>1, AttachKept DEF Lost
    <2> QED  BY <2>2, <2>3, <2>4 DEF PoolInv
  <1>11. CASE Next
    BY <1>1, <1>2, <1>3, <1>4, <1>5, <1>6, <1>7, <1>8, <1>9, <1>11 DEF Next
  <1> QED  BY <1>10, <1>11

\* The free stack of TokenKVPool holds a page, once, exactly when it is neither
\* attached nor retained, for any pages, slots, page and block size: no use after
\* free, no double free, and no page that recycle_page_if_unreferenced misses.
THEOREM FreeStackExact == Spec => []FreeExactlyUnreferenced
  <1>1. PoolInv => FreeExactlyUnreferenced
    BY DEF PoolInv
  <1> QED  BY <1>1, PoolInvInit, PoolInvStep, PTL DEF Spec

\* page_attach_count is the number of page tables that list the page, but for
\* the pages that a failed tail copy left counted once and listed nowhere.
THEOREM AttachCountsExact == Spec => []AttachExactButLostCopies
  <1>1. PoolInv => AttachExactButLostCopies
    BY DEF PoolInv
  <1> QED  BY <1>1, PoolInvInit, PoolInvStep, PTL DEF Spec

------------------------------------------------------------------------------
(* The rows of pages and the tokens of slots *)

\* Pages hold rows of tokens, no more than fit on one.
RowsFit(K) == K \in [Pages -> Seq(Tokens)] /\ \A p \in Pages : Len(K[p]) <= PageSize

\* The token in row r of the j-th page.
TokenAt(j, r) == (j - 1) * PageSize + r

\* A slot with page table X reads the len tokens lg from the rows K.
Reads(K, X, len, lg) ==
    /\ lg \in Seq(Tokens) /\ Len(lg) = len
    /\ \A j \in DOMAIN X, r \in 1..PageSize :
           TokenAt(j, r) <= len => r <= Len(K[X[j]]) /\ K[X[j]][r] = lg[TokenAt(j, r)]

\* Every page of the table has a token.
Tight(X, len) == Len(X) * PageSize < len + PageSize

SlotReads(s) == Reads(kv, table[s], seqLen[s], log[s]) /\ Tight(table[s], seqLen[s])

\* An indexed page is full and as it was published.
CacheIntact ==
    \A b \in Pages : \A p \in Range(blockPages[b]) : Len(kv[p]) = PageSize /\ kv[p] = sealed[p]

KVInv ==
    /\ RowsFit(kv) /\ log \in [Slots -> Seq(Tokens)]
    /\ \A s \in Slots : SlotReads(s)
    /\ CacheIntact

\* Tokens are counted from 1.
LEMMA TokenAtType ==
    ASSUME NEW j \in Nat \ {0}, NEW r \in 1..PageSize
    PROVE  TokenAt(j, r) \in Nat \ {0}
  <1>1. j - 1 \in Nat /\ PageSize \in Nat
    BY PageSizeAssumption
  <1>2. (j - 1) * PageSize \in Nat
    BY <1>1
  <1> QED  BY <1>2 DEF TokenAt

\* S is the tokens of a slot from lo + 1 to hi, toks being the ones behind the
\* first len: the part that falls on the page behind the first from tokens.
ShareAt(S, toks, len, n, from, P, lo, hi) ==
    /\ lo >= from /\ lo >= len /\ (lo = from \/ lo = len)
    /\ hi <= len + n /\ hi <= from + P /\ (hi = len + n \/ hi = from + P)
    /\ lo >= hi => S = << >>
    /\ lo < hi => /\ S \in Seq(Tokens) /\ Len(S) = hi - lo
                  /\ \A i \in 1..hi - lo : S[i] = toks[lo - len + i]

\* What of the appended tokens falls on the j-th page.
LEMMA SharePart ==
    ASSUME NEW toks \in Seq(Tokens), NEW len \in Nat, NEW j, NEW from \in Nat,
           from = (j - 1) * PageSize
    PROVE  \E lo, hi \in Nat : ShareAt(Share(toks, len, j), toks, len, Len(toks), from, PageSize, lo, hi)
  <1>1. PICK P \in Nat \ {0}, k \in Nat : P = PageSize /\ k = Len(toks)
    BY PageSizeAssumption
  <1>2. PICK lo \in Nat : lo = IF len > from THEN len ELSE from
    OBVIOUS
  <1>3. PICK hi \in Nat : hi = IF len + k < from + P THEN len + k ELSE from + P
    OBVIOUS
  <1>4. PICK m \in Int, n \in Int : m = lo - len + 1 /\ n = hi - len
    OBVIOUS
  <1>5. PICK S : S = Share(toks, len, j)
    OBVIOUS
  <1>6. S = SubSeq(toks, m, n)
    <2>1. from + (IF len > from THEN len - from ELSE 0) - len + 1 = m
      BY <1>2, <1>4
    <2>2. (IF len + Len(toks) < from + PageSize THEN len + Len(toks) ELSE from + PageSize) - len = n
      BY <1>1, <1>3, <1>4
    <2> QED  BY <1>5, <2>1, <2>2 DEF Share
  <1>7. /\ lo >= from /\ lo >= len /\ (lo = from \/ lo = len)
        /\ hi <= len + k /\ hi <= from + P /\ (hi = len + k \/ hi = from + P)
    BY <1>2, <1>3
  <1>8. m \in Nat \ {0} /\ n <= k /\ (n < m <=> lo >= hi) /\ n - m + 1 = hi - lo
    BY <1>4, <1>7
  <1>9. \A i \in m..n : toks[i] \in Tokens
    BY <1>1, <1>8
  <1>10. /\ S \in Seq(Tokens) /\ Len(S) = (IF m <= n THEN n - m + 1 ELSE 0)
         /\ \A i \in 1..n - m + 1 : S[i] = toks[m + i - 1]
    BY <1>6, <1>9, SubSeqProperties
  <1>11. n < m => S = << >>
    BY <1>6, SubSeqEmpty
  <1>12. ASSUME NEW i \in 1..hi - lo PROVE S[i] = toks[lo - len + i]
    <2>1. i \in 1..n - m + 1 /\ m + i - 1 = lo - len + i
      BY <1>4, <1>8
    <2> QED  BY <1>10, <2>1
  <1>13. ShareAt(S, toks, len, k, from, P, lo, hi)
    <2>1. lo < hi => Len(S) = hi - lo
      BY <1>8, <1>10
    <2> QED  BY <1>7, <1>8, <1>10, <1>11, <1>12, <2>1 DEF ShareAt
  <1> QED  BY <1>1, <1>5, <1>13

\* O is the rows with those behind the first h replaced by S.
OverwriteOf(O, rows, h, S) ==
    /\ O \in Seq(Tokens)
    /\ Len(O) = (IF Len(rows) > h + Len(S) THEN Len(rows) ELSE h + Len(S))
    /\ \A i \in 1..h + Len(S) : O[i] = IF i > h THEN S[i - h] ELSE rows[i]

\* Writing rows of a page keeps the rows before them.
LEMMA Overwritten ==
    ASSUME NEW rows \in Seq(Tokens), NEW S \in Seq(Tokens), NEW h \in Nat, h <= Len(rows),
           NEW O, O = Overwrite(rows, h, S)
    PROVE  OverwriteOf(O, rows, h, S)
  <1>1. PICK a \in Nat, b \in Nat : a = Len(rows) /\ b = Len(S)
    OBVIOUS
  <1>2. PICK m \in Nat : m = IF a > h + b THEN a ELSE h + b
    OBVIOUS
  <1>3. O = [i \in 1..m |-> IF i > h /\ i <= h + b THEN S[i - h] ELSE rows[i]]
    BY <1>1, <1>2 DEF Overwrite
  <1>4. ASSUME NEW i \in 1..m PROVE O[i] \in Tokens
    <2>1. CASE i > h /\ i <= h + b
      <3>1. i - h \in 1..b
        BY <2>1
      <3>2. S[i - h] \in Tokens
        BY <1>1, <3>1
      <3> QED  BY <1>3, <2>1, <3>2
    <2>2. CASE ~(i > h /\ i <= h + b)
      <3>1. i \in 1..a
        BY <1>1, <1>2, <2>2
      <3>2. rows[i] \in Tokens
        BY <1>1, <3>1
      <3> QED  BY <1>3, <2>2, <3>2
    <2> QED  BY <2>1, <2>2
  <1>5. O \in [1..m -> Tokens]
    BY <1>3, <1>4
  <1>6. O \in Seq(Tokens) /\ Len(O) = m
    BY <1>5
  <1>7. ASSUME NEW i \in 1..h + b PROVE O[i] = IF i > h THEN S[i - h] ELSE rows[i]
    <2>1. i \in 1..m /\ i <= h + b
      BY <1>2
    <2> QED  BY <1>3, <2>1
  <1> QED  BY <1>1, <1>2, <1>6, <1>7 DEF OverwriteOf

\* The tokens behind the first len tokens of table X come from toks; the first
\* len keep their rows.
Wrote(K, R, X, len, n, toks) ==
    /\ RowsFit(K)
    /\ \A p \in Pages : p \notin Range(X) => K[p] = R[p]
    /\ \A j \in DOMAIN X : j * PageSize <= len => K[X[j]] = R[X[j]]
    /\ \A j \in DOMAIN X, r \in 1..PageSize :
           TokenAt(j, r) <= len + n =>
               /\ r <= Len(K[X[j]])
               /\ K[X[j]][r] = IF TokenAt(j, r) <= len THEN R[X[j]][r]
                               ELSE toks[TokenAt(j, r) - len]

\* The rows of the j-th page after the forward pass.
PageWrote(new, old, from, len, n, toks) ==
    /\ new \in Seq(Tokens) /\ Len(new) <= PageSize
    /\ from + PageSize <= len => new = old
    /\ \A r \in 1..PageSize :
           from + r <= len + n =>
               /\ r <= Len(new)
               /\ new[r] = IF from + r <= len THEN old[r] ELSE toks[from + r - len]

\* A page that gets a share of the tokens.
LEMMA OverwritePage ==
    ASSUME NEW old \in Seq(Tokens), NEW P \in Nat \ {0}, P = PageSize, Len(old) <= P,
           NEW len \in Nat, NEW n \in Nat, NEW from \in Nat, NEW toks, NEW S,
           NEW lo \in Nat, NEW hi \in Nat, ShareAt(S, toks, len, n, from, P, lo, hi), lo < hi,
           \A r \in 1..P : from + r <= len => r <= Len(old)
    PROVE  PageWrote(Overwrite(old, Saturating(len, from), S), old, from, len, n, toks)
  <1>1. /\ lo >= from /\ lo >= len /\ (lo = from \/ lo = len)
        /\ hi <= len + n /\ hi <= from + P /\ (hi = len + n \/ hi = from + P)
        /\ S \in Seq(Tokens) /\ Len(S) = hi - lo
        /\ \A i \in 1..hi - lo : S[i] = toks[lo - len + i]
    BY DEF ShareAt
  <1>2. PICK h \in Nat, m \in Nat : h = lo - from /\ m = hi - lo
    <2>1. lo - from \in Nat /\ hi - lo \in Nat
      BY <1>1
    <2> QED  BY <2>1
  <1>3. PICK new : new = Overwrite(old, h, S)
    OBVIOUS
  <1>4. Saturating(len, from) = h
    BY <1>1, <1>2 DEF Saturating
  <1>5. h + m <= P /\ h + m = hi - from /\ h < P /\ Len(S) = m
    BY <1>1, <1>2
  <1>6. h <= Len(old)
    <2>1. CASE h = 0
      BY <2>1
    <2>2. CASE h > 0
      <3>1. h \in 1..P /\ from + h <= len
        BY <1>1, <1>2, <1>5, <2>2
      <3> QED  BY <3>1
    <2> QED  BY <2>1, <2>2
  <1>7. /\ new \in Seq(Tokens)
        /\ Len(new) = (IF Len(old) > h + Len(S) THEN Len(old) ELSE h + Len(S))
        /\ \A i \in 1..h + Len(S) : new[i] = IF i > h THEN S[i - h] ELSE old[i]
    <2>1. S \in Seq(Tokens)
      BY <1>1
    <2>2. OverwriteOf(new, old, h, S)
      BY <1>3, <1>6, <2>1, Overwritten
    <2> QED  BY <2>2 DEF OverwriteOf
  <1>8. Len(new) <= P /\ ~(from + P <= len)
    BY <1>1, <1>2, <1>5, <1>7
  <1>9. ASSUME NEW r \in 1..P, from + r <= len + n
        PROVE  r <= Len(new) /\ new[r] = IF from + r <= len THEN old[r] ELSE toks[from + r - len]
    <2>1. r \in 1..h + m /\ (from + r <= len <=> r <= h)
      BY <1>1, <1>2, <1>9
    <2>2. r <= Len(new)
      BY <1>5, <1>7, <2>1
    <2>3. CASE r <= h
      BY <1>5, <1>7, <2>1, <2>2, <2>3
    <2>4. CASE r > h
      <3>1. PICK i \in 1..m : i = r - h
        BY <2>1, <2>4
      <3>2. lo - len + i = from + r - len
        BY <1>2, <3>1
      <3>3. new[r] = S[i] /\ S[i] = toks[lo - len + i]
        BY <1>1, <1>2, <1>5, <1>7, <2>1, <2>4, <3>1
      <3> QED  BY <2>1, <2>2, <2>4, <3>2, <3>3
    <2> QED  BY <2>3, <2>4
  <1>10. PageWrote(new, old, from, len, n, toks)
    BY <1>7, <1>8, <1>9 DEF PageWrote
  <1> QED  BY <1>3, <1>4, <1>10

\* The rows of one page of the table after the forward pass.
LEMMA WritePage ==
    ASSUME NEW R, RowsFit(R), NEW X \in Seq(Pages), Injective(X), NEW len \in Nat, NEW n \in Nat,
           NEW toks \in Seq(Tokens), Len(toks) = n, NEW j \in DOMAIN X,
           NEW from \in Nat, from = (j - 1) * PageSize,
           \A r \in 1..PageSize : from + r <= len => r <= Len(R[X[j]])
    PROVE  PageWrote(WriteTokens(R, X, len, toks)[X[j]], R[X[j]], from, len, n, toks)
  <1>1. PICK p \in Pages, old \in Seq(Tokens), P \in Nat \ {0} :
            p = X[j] /\ old = R[p] /\ P = PageSize /\ Len(old) <= P
    BY PageSizeAssumption DEF RowsFit
  <1> DEFINE S == Share(toks, len, j)
  <1> HIDE DEF S
  <1>2. PICK lo \in Nat, hi \in Nat : ShareAt(S, toks, len, n, from, P, lo, hi)
    BY <1>1, SharePart DEF S
  <1>4. PICK new : new = WriteTokens(R, X, len, toks)[p]
    OBVIOUS
  <1>5. PICK js : js = {k \in DOMAIN X : X[k] = p /\ Share(toks, len, k) /= << >>}
    OBVIOUS
  <1>6. new = IF js = {} THEN R[p]
              ELSE LET k == CHOOSE k \in js : TRUE
                   IN  Overwrite(R[p], Saturating(len, (k - 1) * PageSize), Share(toks, len, k))
    BY <1>4, <1>5 DEF WriteTokens
  <1>7. js = IF S = << >> THEN {} ELSE {j}
    <2>1. \A k \in DOMAIN X : X[k] = p => k = j
      BY <1>1 DEF Injective
    <2> QED  BY <1>1, <1>5, <2>1 DEF S
  <1>8. CASE S = << >>
    <2>1. new = old
      BY <1>1, <1>6, <1>7, <1>8
    <2>2. lo >= hi
      BY <1>2, <1>8 DEF ShareAt
    <2>3. /\ lo >= from /\ lo >= len /\ (lo = from \/ lo = len)
          /\ hi <= len + n /\ hi <= from + P /\ (hi = len + n \/ hi = from + P)
      BY <1>2 DEF ShareAt
    <2>4. ASSUME NEW r \in 1..P, from + r <= len + n
          PROVE  r <= Len(new) /\ new[r] = IF from + r <= len THEN old[r] ELSE toks[from + r - len]
      <3>1. from + r <= len
        BY <2>2, <2>3, <2>4
      <3> QED  BY <1>1, <2>1, <3>1
    <2> QED  BY <1>1, <1>4, <2>1, <2>4 DEF PageWrote
  <1>9. CASE S /= << >>
    <2>1. lo < hi
      BY <1>2, <1>9 DEF ShareAt
    <2>2. new = Overwrite(old, Saturating(len, from), S)
      <3>1. js = {j}
        BY <1>7, <1>9
      <3>2. (CHOOSE k \in js : TRUE) = j /\ js /= {}
        BY <3>1
      <3> QED  BY <1>1, <1>6, <3>2, Zenon DEF S
    <2>3. \A r \in 1..P : from + r <= len => r <= Len(old)
      BY <1>1
    <2>4. PageWrote(new, old, from, len, n, toks)
      BY <1>1, <1>2, <2>1, <2>2, <2>3, OverwritePage
    <2> QED  BY <1>1, <1>4, <2>4
  <1> QED  BY <1>8, <1>9

\* The forward pass writes the tokens where the page table puts them.
LEMMA WriteWrote ==
    ASSUME NEW R, RowsFit(R), NEW X \in Seq(Pages), Injective(X), NEW len \in Nat, NEW n \in Nat,
           NEW toks \in Seq(Tokens), Len(toks) = n,
           \A j \in DOMAIN X, r \in 1..PageSize : TokenAt(j, r) <= len => r <= Len(R[X[j]])
    PROVE  Wrote(WriteTokens(R, X, len, toks), R, X, len, n, toks)
  <1>1. PICK K : K = WriteTokens(R, X, len, toks)
    OBVIOUS
  <1>2. K = [p \in Pages |-> K[p]]
    BY <1>1 DEF WriteTokens
  <1>3. ASSUME NEW p \in Pages, p \notin Range(X) PROVE K[p] = R[p]
    <2>1. {j \in DOMAIN X : X[j] = p /\ Share(toks, len, j) /= << >>} = {}
      BY <1>3 DEF Range
    <2> QED  BY <1>1, <2>1 DEF WriteTokens
  <1>4. ASSUME NEW j \in DOMAIN X
        PROVE  PageWrote(K[X[j]], R[X[j]], (j - 1) * PageSize, len, n, toks)
    <2>1. PICK from \in Nat : from = (j - 1) * PageSize
      <3>1. j - 1 \in Nat /\ PageSize \in Nat
        BY PageSizeAssumption
      <3> QED  BY <3>1
    <2>2. \A r \in 1..PageSize : from + r <= len => r <= Len(R[X[j]])
      BY <2>1 DEF TokenAt
    <2>3. PageWrote(WriteTokens(R, X, len, toks)[X[j]], R[X[j]], from, len, n, toks)
      BY <2>1, <2>2, WritePage
    <2> QED  BY <1>1, <2>1, <2>3
  <1>5. RowsFit(K)
    <2>1. ASSUME NEW p \in Pages PROVE K[p] \in Seq(Tokens) /\ Len(K[p]) <= PageSize
      <3>1. CASE p \notin Range(X)
        BY <1>3, <3>1 DEF RowsFit
      <3>2. CASE p \in Range(X)
        <4>1. PICK j \in DOMAIN X : p = X[j]
          BY <3>2 DEF Range
        <4> QED  BY <1>4, <4>1 DEF PageWrote
      <3> QED  BY <3>1, <3>2
    <2> QED  BY <1>2, <2>1 DEF RowsFit
  <1>6. ASSUME NEW j \in DOMAIN X, j * PageSize <= len PROVE K[X[j]] = R[X[j]]
    <2>1. PICK P \in Nat, k \in Nat : P = PageSize /\ j = k + 1 /\ k = j - 1
      <3>1. j - 1 \in Nat /\ PageSize \in Nat /\ j = (j - 1) + 1
        BY PageSizeAssumption
      <3> QED  BY <3>1
    <2>2. (k + 1) * P = k * P + P
      OBVIOUS
    <2>3. (j - 1) * PageSize + PageSize <= len
      BY <1>6, <2>1, <2>2
    <2> QED  BY <1>4, <2>3 DEF PageWrote
  <1>7. ASSUME NEW j \in DOMAIN X, NEW r \in 1..PageSize, TokenAt(j, r) <= len + n
        PROVE  /\ r <= Len(K[X[j]])
               /\ K[X[j]][r] = IF TokenAt(j, r) <= len THEN R[X[j]][r]
                               ELSE toks[TokenAt(j, r) - len]
    <2>1. PICK from \in Nat : from = (j - 1) * PageSize
      <3>1. j - 1 \in Nat /\ PageSize \in Nat
        BY PageSizeAssumption
      <3> QED  BY <3>1
    <2>2. PageWrote(K[X[j]], R[X[j]], from, len, n, toks)
      BY <1>4, <2>1
    <2>3. PICK i \in Nat : i = TokenAt(j, r) /\ i = from + r
      BY <2>1 DEF TokenAt
    <2>4. /\ r <= Len(K[X[j]])
          /\ K[X[j]][r] = IF i <= len THEN R[X[j]][r] ELSE toks[i - len]
      BY <1>7, <2>2, <2>3 DEF PageWrote
    <2> QED  BY <2>3, <2>4
  <1>8. Wrote(K, R, X, len, n, toks)
    BY <1>3, <1>5, <1>6, <1>7 DEF Wrote
  <1> QED  BY <1>1, <1>8

------------------------------------------------------------------------------
(* What the operations do to the rows *)

\* Rows K differ from kv on pages that no slot but s, and no indexed block, lists.
WritesOwn(s, K) ==
    \A p \in Pages : K[p] /= kv[p] => /\ \A t \in Slots \ {s} : p \notin Range(table[t])
                                      /\ \A b \in Pages : p \notin Range(blockPages[b])

\* Slot s gets the table X and the tokens lg; rows change only on pages that no
\* other slot and no indexed block lists.
SlotWrites(s, X, len, lg, K) ==
    /\ s \in Slots /\ RowsFit(K) /\ Reads(K, X, len, lg) /\ Tight(X, len)
    /\ WritesOwn(s, K)
    /\ kv' = K /\ table' = [table EXCEPT ![s] = X] /\ seqLen' = [seqLen EXCEPT ![s] = len]
    /\ log' = [log EXCEPT ![s] = lg]

\* A slot whose pages keep their rows reads what it did.
LEMMA ReadsKept ==
    ASSUME NEW K, NEW Q, NEW X, NEW len, NEW lg, Reads(K, X, len, lg),
           \A p \in Range(X) : Q[p] = K[p]
    PROVE  Reads(Q, X, len, lg)
  <1>1. \A j \in DOMAIN X : Q[X[j]] = K[X[j]]
    BY DEF Range
  <1> QED  BY <1>1, Zenon DEF Reads

\* Such a step leaves every other slot's tokens as they were.
LEMMA SlotsKept ==
    ASSUME PoolInv, KVInv, NEW s, NEW X, NEW len, NEW lg, NEW K, SlotWrites(s, X, len, lg, K)
    PROVE  RowsFit(kv)' /\ log' \in [Slots -> Seq(Tokens)] /\ \A t \in Slots : SlotReads(t)'
  <1>1. /\ kv' = K /\ table' = [table EXCEPT ![s] = X] /\ seqLen' = [seqLen EXCEPT ![s] = len]
        /\ log' = [log EXCEPT ![s] = lg] /\ s \in Slots
    BY DEF SlotWrites
  <1>2. RowsFit(kv')
    BY <1>1 DEF SlotWrites
  <1>3. lg \in Seq(Tokens)
    BY DEF SlotWrites, Reads
  <1>4. log' \in [Slots -> Seq(Tokens)]
    BY <1>1, <1>3 DEF KVInv
  <1>5. table \in [Slots -> Seq(Pages)] /\ seqLen \in [Slots -> Nat] /\ log \in [Slots -> Seq(Tokens)]
    BY DEF PoolInv, PoolTypes, KVInv
  <1>6. ASSUME NEW t \in Slots
        PROVE  Reads(kv', table'[t], seqLen'[t], log'[t]) /\ Tight(table'[t], seqLen'[t])
    <2>1. CASE t = s
      <3>1. table'[t] = X /\ seqLen'[t] = len /\ log'[t] = lg
        BY <1>1, <1>5, <2>1
      <3> QED  BY <1>1, <3>1 DEF SlotWrites
    <2>2. CASE t /= s
      <3>1. table'[t] = table[t] /\ seqLen'[t] = seqLen[t] /\ log'[t] = log[t]
        BY <1>1, <1>5, <2>2
      <3>2. Reads(kv, table[t], seqLen[t], log[t]) /\ Tight(table[t], seqLen[t])
        BY DEF KVInv, SlotReads
      <3>3. \A p \in Range(table[t]) : K[p] = kv[p]
        <4>1. \A p \in Range(table[t]) : p \in Pages
          BY <1>5 DEF Range
        <4> QED  BY <2>2, <4>1 DEF SlotWrites, WritesOwn
      <3>4. Reads(K, table[t], seqLen[t], log[t])
        BY <3>2, <3>3, ReadsKept
      <3> QED  BY <1>1, <3>1, <3>2, <3>4
    <2> QED  BY <2>1, <2>2
  <1> QED  BY <1>2, <1>4, <1>6 DEF SlotReads, Reads, Tight, RowsFit

\* A step that writes for one slot and leaves the index alone.
LEMMA WriteStep ==
    ASSUME PoolInv, KVInv, NEW s, NEW X, NEW len, NEW lg, NEW K, SlotWrites(s, X, len, lg, K),
           blockPages' = blockPages, sealed' = sealed
    PROVE  KVInv'
  <1>1. RowsFit(kv)' /\ log' \in [Slots -> Seq(Tokens)] /\ \A t \in Slots : SlotReads(t)'
    BY SlotsKept
  <1>2. CacheIntact'
    <2> SUFFICES ASSUME NEW b \in Pages, NEW p \in Range(blockPages[b])
                 PROVE  Len(kv'[p]) = PageSize /\ kv'[p] = sealed[p]
      BY DEF CacheIntact
    <2>1. p \in Pages
      BY DEF PoolInv, PoolTypes, Range
    <2>2. kv'[p] = kv[p]
      BY <2>1 DEF SlotWrites, WritesOwn
    <2>3. Len(kv[p]) = PageSize /\ kv[p] = sealed[p]
      BY DEF KVInv, CacheIntact
    <2> QED  BY <2>2, <2>3
  <1> QED  BY <1>1, <1>2 DEF KVInv

\* A row of the first len tokens is on one of the first L pages.
LEMMA RowOnPage ==
    ASSUME NEW P \in Nat \ {0}, P = PageSize, NEW len \in Nat, NEW L \in Nat, len <= L * P,
           NEW j \in Nat \ {0}, NEW r \in 1..P, TokenAt(j, r) <= len
    PROVE  j <= L
  <1>1. PICK k \in Nat : k = j - 1 /\ j = k + 1
    OBVIOUS
  <1>2. k * P \in Nat /\ L * P \in Nat /\ k * P + r <= len
    BY <1>1 DEF TokenAt
  <1>3. k * P < L * P
    BY <1>2
  <1>4. k < L
    BY <1>3, TimesOrder
  <1> QED  BY <1>1, <1>4

\* Of a table without unused pages, the page that is not full is the last.
LEMMA PartialTail ==
    ASSUME NEW P \in Nat \ {0}, NEW len \in Nat, NEW L \in Nat, L * P < len + P,
           NEW j \in 1..L, ~(j * P <= len)
    PROVE  j = L /\ (len % P) /= 0
  <1>1. j * P \in Nat /\ L * P \in Nat /\ j \in Nat
    OBVIOUS
  <1>2. L * P < j * P + P
    BY <1>1
  <1>3. L <= j
    BY <1>1, <1>2, TimesOrder
  <1>4. ASSUME len % P = 0 PROVE FALSE
    <2>1. len \div P \in Nat /\ len = P * (len \div P) + (len % P)
      OBVIOUS
    <2>2. PICK q \in Nat : len = q * P
      <3>1. P * (len \div P) = (len \div P) * P
        BY <2>1
      <3> QED  BY <1>4, <2>1, <3>1
    <2>3. L <= q
      BY <2>2, TimesOrder
    <2>4. L * P <= q * P
      BY <2>3, TimesOrder
    <2> QED  BY <1>1, <1>3, <2>2, <2>4
  <1> QED  BY <1>3, <1>4

\* alloc_tokens takes no more pages than the tokens need.
LEMMA RoomExact ==
    ASSUME NEW s \in Slots, seqLen[s] \in Nat, NEW L \in Nat, seqLen[s] <= L * PageSize,
           L * PageSize < seqLen[s] + PageSize, NEW c \in Nat
    PROVE  (L + NewPages(s, c)) * PageSize < seqLen[s] + c + PageSize
  <1>1. PICK len \in Nat, d \in Nat \ {0} : len = seqLen[s] /\ d = PageSize
    BY PageSizeAssumption
  <1>2. PICK q \in Nat, r \in 0..d - 1 : len = q * d + r /\ r = len % d
    <2>1. len \div d \in Nat /\ len % d \in 0..d - 1 /\ len = d * (len \div d) + (len % d)
      OBVIOUS
    <2>2. d * (len \div d) = (len \div d) * d
      BY <2>1
    <2> QED  BY <2>1, <2>2
  <1>3. PICK room \in Nat : room = IF r = 0 THEN 0 ELSE d - r
    <2>1. d - r \in Nat /\ 0 \in Nat
      OBVIOUS
    <2>2. (IF r = 0 THEN 0 ELSE d - r) \in Nat
      BY <2>1, Zenon
    <2> QED  BY <2>2
  <1>4. PICK m \in Nat : m = Saturating(c, room)
    BY DEF Saturating
  <1>5. PICK new \in Nat : new = CeilDiv(m, d) /\ new * d < m + d
    BY CeilDivBounds
  <1>6. NewPages(s, c) = new
    BY <1>1, <1>2, <1>3, <1>4, <1>5 DEF NewPages, slot_hot_tail_len
  <1>7. L * d \in Nat /\ q * d \in Nat /\ new * d \in Nat
    OBVIOUS
  <1>8. L * d = len + room
    <2>1. CASE r = 0
      <3>1. L <= q
        BY <1>1, <1>2, <2>1, TimesOrder
      <3>2. L * d <= q * d
        BY <3>1, TimesOrder
      <3> QED  BY <1>1, <1>2, <1>3, <1>7, <2>1, <3>2
    <2>2. CASE r /= 0
      <3>1. (q + 1) * d = q * d + d
        OBVIOUS
      <3>2. q * d < L * d
        BY <1>1, <1>2, <1>7, <2>2
      <3>3. q + 1 <= L
        BY <3>2, TimesOrder
      <3>4. L * d < (q + 1) * d + d
        BY <1>1, <1>2, <1>7, <3>1
      <3>5. L <= q + 1
        BY <3>4, TimesOrder
      <3>6. L = q + 1
        BY <3>3, <3>5
      <3> QED  BY <1>2, <1>3, <1>7, <2>2, <3>1, <3>6
    <2> QED  BY <2>1, <2>2
  <1>9. (L + new) * d = L * d + new * d
    OBVIOUS
  <1>10. new * d + room < c + d
    <2>1. CASE c > room
      <3>1. m = c - room
        BY <1>4, <2>1 DEF Saturating
      <3> QED  BY <1>5, <1>7, <3>1
    <2>2. CASE c <= room
      <3>1. m = 0
        BY <1>4, <2>2 DEF Saturating
      <3>2. new = 0
        <4>1. new * d < 1 * d
          BY <1>5, <3>1
        <4>2. new < 1
          BY <4>1, TimesOrder
        <4> QED  BY <4>2
      <3>3. 0 * d = 0 /\ room < d
        BY <1>3
      <3> QED  BY <3>2, <3>3
    <2> QED  BY <2>1, <2>2
  <1>11. (L + new) * d < len + c + d
    BY <1>7, <1>8, <1>9, <1>10
  <1> QED  BY <1>1, <1>6, <1>11

\* The slot reads the appended tokens behind the ones it had.
LEMMA ReadsAppend ==
    ASSUME NEW K, NEW R, NEW X, NEW len \in Nat, NEW n \in Nat, NEW lg, NEW toks \in Seq(Tokens),
           Len(toks) = n, Reads(R, X, len, lg), Wrote(K, R, X, len, n, toks), X \in Seq(Pages)
    PROVE  Reads(K, X, len + n, lg \o toks)
  <1>1. lg \in Seq(Tokens) /\ Len(lg) = len
    BY DEF Reads
  <1>2. PICK ll : ll = lg \o toks
    OBVIOUS
  <1>3. /\ ll \in Seq(Tokens) /\ Len(ll) = len + n
        /\ \A i \in 1..len + n : ll[i] = IF i <= len THEN lg[i] ELSE toks[i - len]
    BY <1>1, <1>2, ConcatProperties
  <1>4. ASSUME NEW j \in DOMAIN X, NEW r \in 1..PageSize, TokenAt(j, r) <= len + n
        PROVE  r <= Len(K[X[j]]) /\ K[X[j]][r] = ll[TokenAt(j, r)]
    <2>1. j \in Nat \ {0} /\ TokenAt(j, r) \in Nat \ {0}
      BY TokenAtType
    <2>2. PICK i \in 1..len + n : i = TokenAt(j, r)
      BY <1>4, <2>1
    <2>3. r <= Len(K[X[j]]) /\ K[X[j]][r] = IF i <= len THEN R[X[j]][r] ELSE toks[i - len]
      BY <1>4, <2>2 DEF Wrote
    <2>4. i <= len => R[X[j]][r] = lg[i]
      BY <2>2 DEF Reads
    <2>5. ll[i] = IF i <= len THEN lg[i] ELSE toks[i - len]
      BY <1>3
    <2> QED  BY <2>2, <2>3, <2>4, <2>5
  <1> QED  BY <1>2, <1>3, <1>4 DEF Reads

\* A page with one attachment is listed by one slot.
LEMMA OnlyHolder ==
    ASSUME PoolInv, NEW s \in Slots, NEW p, p \in Range(table[s]), ~(attach[p] > 1),
           NEW t \in Slots, t /= s
    PROVE  p \notin Range(table[t])
  <1> SUFFICES ASSUME p \in Range(table[t]) PROVE FALSE
    OBVIOUS
  <1>1. attach[p] = Holders(p)
    BY ListedAttached
  <1>2. PICK I : I = Listed(p)
    OBVIOUS
  <1>3. IsFiniteSet(I) /\ Cardinality(I) = Holders(p) /\ Holders(p) \in Nat
    BY <1>2, HoldersType DEF Holders
  <1>4. {s, t} \in SUBSET I
    BY <1>2 DEF Listed
  <1>5. Cardinality({s, t}) = 2
    <2>1. IsFiniteSet({s}) /\ Cardinality({s}) = 1 /\ {s} \cup {t} = {s, t} /\ t \notin {s}
      BY FS_Singleton
    <2>2. Cardinality({s} \cup {t}) = Cardinality({s}) + 1
      BY <2>1, FS_AddElement
    <2> QED  BY <2>1, <2>2
  <1>6. Cardinality({s, t}) <= Cardinality(I)
    BY <1>3, <1>4, FS_Subset
  <1> QED  BY <1>1, <1>3, <1>5, <1>6
\* A table that keeps its first k pages and takes popped ones; the rows R are kv
\* but for popped pages, and the tokens are already readable in it.
Prepared(s, T, L, k, m, f, X, len, R) ==
    /\ T = table[s] /\ len = seqLen[s] /\ L = Len(T) /\ f \in Pops(m) /\ Grown(X, T, k, m, f)
    /\ RowsFit(R) /\ Reads(R, X, len, log[s])
    /\ \A p \in Pages : p \notin Range(f) => R[p] = kv[p]
    /\ \A j \in 1..k : ~(j * PageSize <= len) => ref[T[j]] = 0 /\ ~(attach[T[j]] > 1)

\* The pages of a prepared table.
LEMMA PreparedLists ==
    ASSUME PoolInv, NEW s \in Slots, NEW T \in Seq(Pages), NEW L \in Nat, NEW k \in 0..L,
           NEW m \in Nat, NEW f, NEW X, NEW len \in Nat, NEW R,
           Prepared(s, T, L, k, m, f, X, len, R)
    PROVE  /\ X \in Seq(Pages) /\ DOMAIN X = 1..(k + m) /\ Injective(X)
           /\ \A i \in DOMAIN X : (i > k => X[i] \in Range(f)) /\ (i <= k => X[i] = T[i])
           /\ \A p \in Range(f) : /\ p \in Pages /\ \A t \in Slots : p \notin Range(table[t])
                                  /\ \A b \in Pages : p \notin Range(blockPages[b])
  <1>1. T = table[s] /\ L = Len(T) /\ f \in Pops(m) /\ Grown(X, T, k, m, f)
    BY DEF Prepared
  <1>2. /\ f \in [1..m -> Pages] /\ Injective(f)
        /\ \A p \in Range(f) : /\ p \in Pages /\ \A t \in Slots : p \notin Range(table[t])
                               /\ \A b \in Pages : p \notin Range(blockPages[b])
    BY <1>1, PopsFresh
  <1>3. Injective(T) /\ k \in 0..Len(T) /\ \A p \in Range(f) : p \notin Range(T)
    BY <1>1, <1>2 DEF PoolInv, TablesSound
  <1>4. /\ DOMAIN X = 1..(k + m) /\ Injective(X)
        /\ \A i \in DOMAIN X : (i > k => X[i] \in Range(f)) /\ (i <= k => X[i] = T[i])
    <2>1. f \in [1..m -> Pages] /\ Injective(f)
      BY <1>2
    <2>2. Grown(X, T, k, m, f)
      BY <1>1
    <2>3. /\ DOMAIN X = 1..(k + m) /\ Injective(X)
          /\ \A i \in DOMAIN X : (i > k => X[i] \in Range(f)) /\ (i <= k => X[i] = T[i])
          /\ \A p : p \in Range(X) <=> p \in Range(f) \/ \E i \in 1..k : p = T[i]
      BY <1>3, <2>1, <2>2, GrownLists, Zenon
    <2> QED  BY <2>3
  <1>5. X \in Seq(Pages)
    BY <1>1 DEF Grown
  <1> QED  BY <1>2, <1>4, <1>5

\* The forward pass over a prepared table writes no page of anybody else.
LEMMA GrowWrites ==
    ASSUME PoolInv, KVInv, NEW s \in Slots, NEW T \in Seq(Pages), NEW L \in Nat, NEW k \in 0..L,
           NEW m \in Nat, NEW f, NEW X, NEW len \in Nat, NEW R,
           Prepared(s, T, L, k, m, f, X, len, R),
           NEW n \in Nat, NEW toks \in Seq(Tokens), Len(toks) = n,
           NEW K, K = WriteTokens(R, X, len, toks)
    PROVE  RowsFit(K) /\ Reads(K, X, len + n, log[s] \o toks) /\ WritesOwn(s, K)
  <1>1. /\ X \in Seq(Pages) /\ DOMAIN X = 1..(k + m) /\ Injective(X)
        /\ \A i \in DOMAIN X : (i > k => X[i] \in Range(f)) /\ (i <= k => X[i] = T[i])
        /\ \A p \in Range(f) : /\ p \in Pages /\ \A t \in Slots : p \notin Range(table[t])
                               /\ \A b \in Pages : p \notin Range(blockPages[b])
    BY PreparedLists
  <1>2. RowsFit(R) /\ Reads(R, X, len, log[s]) /\ T = table[s] /\ L = Len(T)
    BY DEF Prepared
  <1>3. \A j \in DOMAIN X, r \in 1..PageSize : TokenAt(j, r) <= len => r <= Len(R[X[j]])
    BY <1>2, Zenon DEF Reads
  <1>4. Wrote(K, R, X, len, n, toks)
    BY <1>1, <1>2, <1>3, WriteWrote
  <1>5. Reads(K, X, len + n, log[s] \o toks)
    BY <1>1, <1>2, <1>4, ReadsAppend
  <1>6. ASSUME NEW p \in Pages, K[p] /= kv[p], p \notin Range(f)
        PROVE  p \in Range(table[s]) /\ ref[p] = 0 /\ ~(attach[p] > 1)
    <2>1. R[p] = kv[p]
      BY <1>6 DEF Prepared
    <2>2. PICK j \in DOMAIN X : p = X[j] /\ ~(j * PageSize <= len)
      BY <1>4, <1>6, <2>1 DEF Wrote, Range
    <2>3. j \in 1..k /\ p = T[j]
      BY <1>1, <1>6, <2>2
    <2>4. ref[p] = 0 /\ ~(attach[p] > 1)
      BY <2>2, <2>3 DEF Prepared
    <2>5. j \in DOMAIN T
      BY <1>2, <2>3
    <2> QED  BY <1>2, <2>3, <2>4, <2>5 DEF Range
  <1>7. WritesOwn(s, K)
    <2> SUFFICES ASSUME NEW p \in Pages, K[p] /= kv[p]
                 PROVE  /\ \A t \in Slots \ {s} : p \notin Range(table[t])
                        /\ \A b \in Pages : p \notin Range(blockPages[b])
      BY DEF WritesOwn
    <2>1. CASE p \in Range(f)
      BY <1>1, <2>1
    <2>2. CASE p \notin Range(f)
      <3>1. p \in Range(table[s]) /\ ref[p] = 0 /\ ~(attach[p] > 1)
        BY <1>6, <2>2
      <3>2. \A t \in Slots \ {s} : p \notin Range(table[t])
        BY <3>1, OnlyHolder
      <3>3. ASSUME NEW b \in Pages PROVE p \notin Range(blockPages[b])
        <4>1. blockPages[b] \in Seq(Pages) /\ BlockWhole(b)
          BY DEF PoolInv, PoolTypes, BlocksWhole
        <4> QED  BY <3>1, <4>1 DEF BlockWhole, Range
      <3> QED  BY <3>2, <3>3
    <2> QED  BY <2>1, <2>2
  <1> QED  BY <1>4, <1>5, <1>7 DEF Wrote

\* A slot's table and tokens, and the room in it.
LEMMA SlotFacts ==
    ASSUME PoolInv, KVInv, NEW s \in Slots
    PROVE  \E T \in Seq(Pages), L \in Nat, len \in Nat, P \in Nat \ {0} :
               /\ T = table[s] /\ L = Len(T) /\ len = seqLen[s] /\ P = PageSize
               /\ Injective(T) /\ len <= L * P /\ L * P < len + P
               /\ Reads(kv, T, len, log[s]) /\ DOMAIN T = 1..L
  <1>1. table[s] \in Seq(Pages) /\ seqLen[s] \in Nat /\ PageSize \in Nat \ {0}
    BY PageSizeAssumption DEF PoolInv, PoolTypes
  <1>2. Injective(table[s]) /\ seqLen[s] <= Len(table[s]) * PageSize
    BY DEF PoolInv, TablesSound
  <1>3. Reads(kv, table[s], seqLen[s], log[s]) /\ Len(table[s]) * PageSize < seqLen[s] + PageSize
    BY DEF KVInv, SlotReads, Tight
  <1>4. Len(table[s]) \in Nat /\ DOMAIN table[s] = 1..Len(table[s])
    BY <1>1
  <1> QED  BY <1>1, <1>2, <1>3, <1>4

\* Without a copy the slot's tail is full or its own.
LEMMA PlainPrepared ==
    ASSUME PoolInv, KVInv, NEW s \in Slots, append_cow_pages_needed(s) = 0,
           NEW m \in Nat, NEW f \in Pops(m), NEW X, X = table[s] \o SubSeq(f, 1, m)
    PROVE  Prepared(s, table[s], Len(table[s]), Len(table[s]), m, f, X, seqLen[s], kv)
  <1>1. PICK T \in Seq(Pages), L \in Nat, len \in Nat, P \in Nat \ {0} :
               /\ T = table[s] /\ L = Len(T) /\ len = seqLen[s] /\ P = PageSize
               /\ Injective(T) /\ len <= L * P /\ L * P < len + P
               /\ Reads(kv, T, len, log[s]) /\ DOMAIN T = 1..L
    BY SlotFacts
  <1>2. f \in [1..m -> Pages]
    BY DEF Pops
  <1>3. Grown(X, T, L, m, f)
    BY <1>1, <1>2, PlainGrown
  <1>4. Reads(kv, X, len, log[s])
    <2>1. log[s] \in Seq(Tokens) /\ Len(log[s]) = len
      BY <1>1 DEF Reads
    <2>2. ASSUME NEW j \in DOMAIN X, NEW r \in 1..PageSize, TokenAt(j, r) <= len
          PROVE  r <= Len(kv[X[j]]) /\ kv[X[j]][r] = log[s][TokenAt(j, r)]
      <3>1. X \in Seq(Pages)
        BY <1>3 DEF Grown
      <3>2. j \in Nat \ {0}
        BY <3>1
      <3>3. j <= L
        BY <1>1, <2>2, <3>2, RowOnPage
      <3>4. j \in 1..L /\ j \in DOMAIN T
        BY <1>1, <3>2, <3>3
      <3>5. X[j] = T[j]
        BY <1>3, <3>4 DEF Grown
      <3>6. r <= Len(kv[T[j]]) /\ kv[T[j]][r] = log[s][TokenAt(j, r)]
        BY <1>1, <2>2, <3>4 DEF Reads
      <3> QED  BY <3>5, <3>6
    <2> QED  BY <2>1, <2>2 DEF Reads
  <1>5. ASSUME NEW j \in 1..L, ~(j * PageSize <= len) PROVE ref[T[j]] = 0 /\ ~(attach[T[j]] > 1)
    <2>1. j = L /\ (len % P) /= 0
      <3>1. ~(j * P <= len) /\ L * P < len + P
        BY <1>1, <1>5
      <3> QED  BY <3>1, PartialTail
    <2>2. slot_hot_tail_len(s) /= 0 /\ HotTailPage(s) = T[j]
      BY <1>1, <2>1 DEF slot_hot_tail_len, HotTailPage
    <2>3. ~page_is_shared_read_only(T[j])
      BY <2>2 DEF append_cow_pages_needed
    <2>4. ref[T[j]] \in Nat
      BY <1>1 DEF PoolInv, PoolTypes
    <2> QED  BY <2>3, <2>4 DEF page_is_shared_read_only
  <1>6. RowsFit(kv)
    BY DEF KVInv
  <1>7. Prepared(s, T, L, L, m, f, X, len, kv)
    BY <1>1, <1>3, <1>4, <1>5, <1>6 DEF Prepared
  <1> QED  BY <1>1, <1>7

\* A copied tail holds the rows of the shared one.
LEMMA CowPrepared ==
    ASSUME PoolInv, KVInv, NEW s \in Slots, append_cow_pages_needed(s) = 1,
           NEW m \in Nat, NEW f \in Pops(1 + m),
           NEW X, X = CowTable(s, f[1]) \o SubSeq(f, 2, 1 + m)
    PROVE  \E k \in Nat : /\ Len(table[s]) = k + 1
                          /\ Prepared(s, table[s], Len(table[s]), k, 1 + m, f, X, seqLen[s],
                                      CowRows(s, f[1]))
  <1>1. PICK T \in Seq(Pages), L \in Nat, len \in Nat, P \in Nat \ {0} :
               /\ T = table[s] /\ L = Len(T) /\ len = seqLen[s] /\ P = PageSize
               /\ Injective(T) /\ len <= L * P /\ L * P < len + P
               /\ Reads(kv, T, len, log[s]) /\ DOMAIN T = 1..L
    BY SlotFacts
  <1>2. L \in Nat \ {0} /\ HotTailPage(s) = T[L]
    BY <1>1, CowTail
  <1>3. PICK k \in Nat : L = k + 1
    <2>1. L - 1 \in Nat /\ L = (L - 1) + 1
      BY <1>2
    <2> QED  BY <2>1
  <1>4. PICK n \in Nat : n = 1 + m
    OBVIOUS
  <1>4a. PICK c, R : c = f[1] /\ R = CowRows(s, f[1])
    OBVIOUS
  <1>5. /\ f \in [1..n -> Pages] /\ f \in Pops(n)
        /\ \A p \in Range(f) : p \in Pages /\ \A t \in Slots : p \notin Range(table[t])
    BY <1>4, <1>4a, PopsFresh
  <1>6. c \in Range(f) /\ c \in Pages /\ T[L] \in Pages
    <2>1. 1 \in 1..n /\ L \in 1..L
      BY <1>2, <1>4, <1>4a
    <2>2. T[L] \in Pages
      BY <1>1, <2>1
    <2> QED  BY <1>4, <1>4a, <1>5, <2>1, <2>2 DEF Range
  <1>7. Grown(X, T, k, n, f)
    <2>1. X = [T EXCEPT ![Len(T)] = f[1]] \o SubSeq(f, 2, 1 + m)
      BY <1>1 DEF CowTable
    <2>2. f \in [1..1 + m -> Pages] /\ Len(T) = k + 1
      BY <1>1, <1>3, <1>4, <1>4a, <1>5
    <2>3. Grown(X, T, k, 1 + m, f)
      BY <2>1, <2>2, CowGrown
    <2> QED  BY <1>4, <1>4a, <2>3
  <1>8. RowsFit(kv)
    BY DEF KVInv
  <1>9. R = [kv EXCEPT ![c] = kv[T[L]]]
    BY <1>1, <1>2, <1>4, <1>4a DEF CowRows
  <1>10. RowsFit(R) /\ \A p \in Pages : R[p] = IF p = c THEN kv[T[L]] ELSE kv[p]
    BY <1>6, <1>8, <1>9 DEF RowsFit
  <1>11. Reads(R, X, len, log[s])
    <2>1. log[s] \in Seq(Tokens) /\ Len(log[s]) = len
      BY <1>1 DEF Reads
    <2>2. ASSUME NEW j \in DOMAIN X, NEW r \in 1..PageSize, TokenAt(j, r) <= len
          PROVE  r <= Len(R[X[j]]) /\ R[X[j]][r] = log[s][TokenAt(j, r)]
      <3>1. X \in Seq(Pages)
        BY <1>7 DEF Grown
      <3>2. j \in Nat \ {0}
        BY <3>1
      <3>3. j <= L
        BY <1>1, <2>2, <3>2, RowOnPage
      <3>4. j \in 1..L /\ j \in DOMAIN T
        BY <1>1, <3>2, <3>3
      <3>5. R[X[j]] = kv[T[j]]
        <4>1. CASE j = L
          <5>1. 1 \in 1..n /\ j = k + 1
            BY <1>3, <1>4, <1>4a, <4>1
          <5>2. X[j] = c
            BY <1>4, <1>4a, <1>7, <5>1 DEF Grown
          <5> QED  BY <1>6, <1>10, <4>1, <5>2
        <4>2. CASE j /= L
          <5>1. j \in 1..k
            BY <1>3, <3>4, <4>2
          <5>2. X[j] = T[j]
            BY <1>7, <5>1 DEF Grown
          <5>3. T[j] \in Range(table[s]) /\ T[j] \in Pages
            BY <1>1, <3>4 DEF Range
          <5>4. T[j] /= c
            BY <1>5, <1>6, <5>3
          <5> QED  BY <1>10, <5>2, <5>3, <5>4
        <4> QED  BY <4>1, <4>2
      <3>6. r <= Len(kv[T[j]]) /\ kv[T[j]][r] = log[s][TokenAt(j, r)]
        BY <1>1, <2>2, <3>4 DEF Reads
      <3> QED  BY <3>5, <3>6
    <2> QED  BY <2>1, <2>2 DEF Reads
  <1>12. ASSUME NEW j \in 1..k PROVE j * PageSize <= len
    <2> SUFFICES ASSUME ~(j * P <= len) PROVE FALSE
      BY <1>1
    <2>1. j \in 1..L /\ L * P < len + P
      BY <1>1, <1>3
    <2>2. j = L
      BY <2>1, PartialTail
    <2> QED  BY <1>3, <2>2
  <1>13. \A p \in Pages : p \notin Range(f) => R[p] = kv[p]
    BY <1>6, <1>10
  <1>14. Prepared(s, T, L, k, n, f, X, len, R)
    BY <1>1, <1>5, <1>7, <1>10, <1>11, <1>12, <1>13 DEF Prepared
  <1> QED  BY <1>1, <1>3, <1>4, <1>4a, <1>14

\* Appending reads back, and writes nobody else's rows.
LEMMA AppendKV ==
    ASSUME PoolInv, KVInv, NEW s \in Slots, NEW n \in Nat, NEW toks \in [1..n -> Tokens],
           append(s, toks)
    PROVE  KVInv'
  <1>1. toks \in Seq(Tokens) /\ Len(toks) = n
    OBVIOUS
  <1>2. PICK T \in Seq(Pages), L \in Nat, len \in Nat, P \in Nat \ {0} :
               /\ T = table[s] /\ L = Len(T) /\ len = seqLen[s] /\ P = PageSize
               /\ Injective(T) /\ len <= L * P /\ L * P < len + P
               /\ Reads(kv, T, len, log[s]) /\ DOMAIN T = 1..L
    BY SlotFacts
  <1>3. PICK new \in Nat, cow \in {0, 1} :
            new = NewPages(s, Len(toks)) /\ cow = append_cow_pages_needed(s)
    <2>1. NewPages(s, n) \in Nat
      BY <1>2, RoomEnough
    <2>2. append_cow_pages_needed(s) \in {0, 1}
      BY DEF append_cow_pages_needed
    <2> QED  BY <1>1, <2>1, <2>2
  <1>4. (L + new) * P < len + n + P
    BY <1>1, <1>2, <1>3, RoomExact
  <1>5. PICK f \in Pops(cow + new) : \E X, R :
            /\ X = (IF cow = 1 THEN CowTable(s, f[1]) ELSE table[s])
                   \o SubSeq(f, cow + 1, cow + new)
            /\ R = (IF cow = 1 THEN CowRows(s, f[1]) ELSE kv)
            /\ table' = [table EXCEPT ![s] = X]
            /\ kv' = WriteTokens(R, X, seqLen[s], toks)
    BY <1>3 DEF append
  <1>5a. PICK X, R :
            /\ X = (IF cow = 1 THEN CowTable(s, f[1]) ELSE table[s])
                   \o SubSeq(f, cow + 1, cow + new)
            /\ R = (IF cow = 1 THEN CowRows(s, f[1]) ELSE kv)
            /\ table' = [table EXCEPT ![s] = X]
            /\ kv' = WriteTokens(R, X, seqLen[s], toks)
    BY <1>5
  <1>6. /\ seqLen' = [seqLen EXCEPT ![s] = len + n] /\ log' = [log EXCEPT ![s] = log[s] \o toks]
        /\ blockPages' = blockPages /\ sealed' = sealed
    BY <1>1, <1>2 DEF append
  <1>7. \E k \in 0..L : \E m \in Nat : k + m = L + new /\ Prepared(s, T, L, k, m, f, X, len, R)
    <2>1. CASE cow = 1
      <3>1. cow + new = 1 + new /\ cow + 1 = 2
        BY <2>1
      <3>2. f \in Pops(1 + new) /\ X = CowTable(s, f[1]) \o SubSeq(f, 2, 1 + new)
        BY <1>5a, <2>1, <3>1
      <3>3. PICK k \in Nat : /\ Len(table[s]) = k + 1
                             /\ Prepared(s, table[s], Len(table[s]), k, 1 + new, f, X, seqLen[s],
                                         CowRows(s, f[1]))
        BY <1>3, <2>1, <3>2, CowPrepared
      <3>4. k \in 0..L /\ 1 + new \in Nat /\ k + (1 + new) = L + new
        BY <1>2, <3>3
      <3>5. Prepared(s, T, L, k, 1 + new, f, X, len, R)
        BY <1>2, <1>5a, <2>1, <3>3
      <3> QED  BY <3>4, <3>5
    <2>2. CASE cow = 0
      <3>1. cow + new = new /\ cow + 1 = 1
        BY <2>2
      <3>2. f \in Pops(new) /\ X = table[s] \o SubSeq(f, 1, new)
        BY <1>5a, <2>2, <3>1
      <3>3. Prepared(s, table[s], Len(table[s]), Len(table[s]), new, f, X, seqLen[s], kv)
        BY <1>3, <2>2, <3>2, PlainPrepared
      <3>4. Prepared(s, T, L, L, new, f, X, len, R)
        BY <1>2, <1>5a, <2>2, <3>3
      <3> QED  BY <3>4
    <2> QED  BY <2>1, <2>2
  <1>8. PICK k \in 0..L : \E m \in Nat : k + m = L + new /\ Prepared(s, T, L, k, m, f, X, len, R)
    BY <1>7
  <1>9. PICK m \in Nat : k + m = L + new /\ Prepared(s, T, L, k, m, f, X, len, R)
    BY <1>8
  <1>10. PICK K : K = WriteTokens(R, X, len, toks)
    OBVIOUS
  <1>11. RowsFit(K) /\ Reads(K, X, len + n, log[s] \o toks) /\ WritesOwn(s, K)
    BY <1>1, <1>9, <1>10, GrowWrites
  <1>12. Tight(X, len + n)
    <2>1. Grown(X, T, k, m, f)
      BY <1>9 DEF Prepared
    <2>2. Len(X) = L + new
      BY <1>9, <2>1 DEF Grown
    <2> QED  BY <1>2, <1>4, <2>2 DEF Tight
  <1>13. kv' = K /\ table' = [table EXCEPT ![s] = X]
    BY <1>2, <1>5a, <1>10
  <1>14. SlotWrites(s, X, len + n, log[s] \o toks, K)
    BY <1>6, <1>11, <1>12, <1>13 DEF SlotWrites
  <1> QED  BY <1>6, <1>14, WriteStep

\* A single popped page.
LEMMA OnePop ==
    ASSUME NEW f \in Pops(1)
    PROVE  f \in Seq(Pages) /\ f[1] \in Pages
  <1>1. f \in [1..1 -> Pages]
    BY DEF Pops
  <1>2. f \in Seq(Pages)
    BY <1>1
  <1> QED  BY <1>1, <1>2

\* The copy of the tail alone.
LEMMA OutOfPagesKV ==
    ASSUME PoolInv, KVInv, NEW s \in Slots, NEW n, append_out_of_pages(s, n)
    PROVE  KVInv'
  <1>1. PICK T \in Seq(Pages), L \in Nat, len \in Nat, P \in Nat \ {0} :
               /\ T = table[s] /\ L = Len(T) /\ len = seqLen[s] /\ P = PageSize
               /\ Injective(T) /\ len <= L * P /\ L * P < len + P
               /\ Reads(kv, T, len, log[s]) /\ DOMAIN T = 1..L
    BY SlotFacts
  <1>2. PICK f \in Pops(1) : /\ table' = [table EXCEPT ![s] = CowTable(s, f[1])]
                             /\ kv' = CowRows(s, f[1])
    BY DEF append_out_of_pages
  <1>3. /\ append_cow_pages_needed(s) = 1
        /\ UNCHANGED <<seqLen, log, blockPages, sealed>>
    BY DEF append_out_of_pages
  <1>4a. PICK X, K : X = CowTable(s, f[1]) /\ K = CowRows(s, f[1])
    OBVIOUS
  <1>4b. PICK m \in Nat : m = 0
    OBVIOUS
  <1>5. f \in Pops(1 + m) /\ X = CowTable(s, f[1]) \o SubSeq(f, 2, 1 + m)
    <2>1. 1 + m = 1
      BY <1>4a, <1>4b
    <2>2. f \in [1..1 -> Pages]
      BY DEF Pops
    <2>3. f \in Seq(Pages) /\ f[1] \in Pages
      BY OnePop
    <2>4. SubSeq(f, 2, 1) = << >>
      BY <2>3, SubSeqEmpty
    <2>5. PICK c \in Pages : c = f[1]
      BY <2>3
    <2>6. T \in [1..L -> Pages]
      BY <1>1
    <2>7. [T EXCEPT ![L] = c] \in [1..L -> Pages]
      BY <2>6
    <2>8. [T EXCEPT ![L] = c] \in Seq(Pages)
      BY <2>7
    <2>9. X \in Seq(Pages)
      BY <1>1, <1>4a, <1>4b, <2>5, <2>8 DEF CowTable
    <2>10. X \o << >> = X
      BY <2>9, ConcatEmptySeq
    <2> QED  BY <1>4a, <1>4b, <2>1, <2>4, <2>10
  <1>6. PICK k \in Nat : /\ Len(table[s]) = k + 1
                         /\ Prepared(s, table[s], Len(table[s]), k, 1 + m, f, X, seqLen[s],
                                     CowRows(s, f[1]))
    BY <1>3, <1>5, CowPrepared
  <1>7. PICK j \in Nat : j = 1 + m /\ Prepared(s, T, L, k, j, f, X, len, K) /\ k + j = L
    BY <1>1, <1>4a, <1>4b, <1>6
  <1>8. k \in 0..L
    BY <1>7
  <1>9. \A p \in Range(f) : /\ p \in Pages /\ \A t \in Slots : p \notin Range(table[t])
                            /\ \A b \in Pages : p \notin Range(blockPages[b])
    BY <1>7, <1>8, PreparedLists
  <1>10. WritesOwn(s, K)
    <2>1. \A p \in Pages : K[p] /= kv[p] => p \in Range(f)
      BY <1>7 DEF Prepared
    <2> QED  BY <1>9, <2>1 DEF WritesOwn
  <1>11. Tight(X, len)
    <2>1. Grown(X, T, k, j, f)
      BY <1>7 DEF Prepared
    <2>2. Len(X) = L
      BY <1>7, <2>1 DEF Grown
    <2> QED  BY <1>1, <2>2 DEF Tight
  <1>12. RowsFit(K) /\ Reads(K, X, len, log[s])
    BY <1>7 DEF Prepared
  <1>13. seqLen' = [seqLen EXCEPT ![s] = len] /\ log' = [log EXCEPT ![s] = log[s]]
    BY <1>1, <1>3 DEF PoolInv, PoolTypes, KVInv
  <1>14. SlotWrites(s, X, len, log[s], K)
    BY <1>2, <1>4a, <1>4b, <1>10, <1>11, <1>12, <1>13 DEF SlotWrites
  <1> QED  BY <1>3, <1>14, WriteStep

\* Nothing that is read, or where it is read, changes.
LEMMA KVKept ==
    ASSUME KVInv, UNCHANGED <<table, seqLen, blockPages, kv, log, sealed>>
    PROVE  KVInv'
  <1>1. RowsFit(kv)' /\ log' \in [Slots -> Seq(Tokens)]
    BY DEF KVInv, RowsFit
  <1>2. CacheIntact'
    BY DEF KVInv, CacheIntact
  <1>3. ASSUME NEW s \in Slots PROVE SlotReads(s)'
    <2>1. SlotReads(s)
      BY DEF KVInv
    <2> QED  BY <2>1, Zenon DEF SlotReads, Reads, Tight
  <1> QED  BY <1>1, <1>2, <1>3 DEF KVInv

\* Taking back rejected tokens leaves the first ones readable.
LEMMA TruncateKV ==
    ASSUME PoolInv, KVInv, NEW s \in Slots, NEW len \in Nat, truncate_slot(s, len)
    PROVE  KVInv'
  <1>1. PICK T \in Seq(Pages), L \in Nat, old \in Nat, P \in Nat \ {0} :
               /\ T = table[s] /\ L = Len(T) /\ old = seqLen[s] /\ P = PageSize
               /\ Injective(T) /\ old <= L * P /\ L * P < old + P
               /\ Reads(kv, T, old, log[s]) /\ DOMAIN T = 1..L
    BY SlotFacts
  <1>2. PICK keep \in Nat : keep = CeilDiv(len, P) /\ len <= keep * P /\ keep * P < len + P
    BY CeilDivBounds
  <1>3. len < old
    BY <1>1 DEF truncate_slot
  <1>4. keep <= L
    <2>1. keep * P < L * P + P
      <3>1. L * P \in Nat /\ keep * P \in Nat
        OBVIOUS
      <3> QED  BY <1>1, <1>2, <1>3, <3>1
    <2> QED  BY <2>1, TimesOrder
  <1>5. PICK X, lg : X = SubSeq(T, 1, keep) /\ lg = SubSeq(log[s], 1, len)
    OBVIOUS
  <1>6. X \in Seq(Pages) /\ Len(X) = keep /\ DOMAIN X = 1..keep /\ \A i \in 1..keep : X[i] = T[i]
    <2>1. PICK a \in Nat : a = 0
      OBVIOUS
    <2>2. a + keep <= Len(T) /\ a + 1 = 1 /\ a + keep = keep /\ \A i \in 1..keep : a + i = i
      BY <1>1, <1>4, <2>1
    <2>3. X = SubSeq(T, a + 1, a + keep)
      BY <1>5, <2>2
    <2>4. PartOf(X, T, a, keep)
      BY <2>2, <2>3, PartOfList
    <2> QED  BY <2>2, <2>4 DEF PartOf
  <1>7. log[s] \in Seq(Tokens) /\ Len(log[s]) = old
    BY <1>1 DEF Reads
  <1>8. lg \in Seq(Tokens) /\ Len(lg) = len /\ \A i \in 1..len : lg[i] = log[s][i]
    <2>1. PICK g \in Seq(Tokens) : g = log[s] /\ Len(g) = old
      BY <1>7
    <2>2. \A i \in 1..len : g[i] \in Tokens
      BY <1>3, <2>1
    <2>3. /\ SubSeq(g, 1, len) \in Seq(Tokens)
          /\ Len(SubSeq(g, 1, len)) = (IF 1 <= len THEN len - 1 + 1 ELSE 0)
          /\ \A i \in 1..len - 1 + 1 : SubSeq(g, 1, len)[i] = g[1 + i - 1]
      BY <2>2, SubSeqProperties
    <2>4. (IF 1 <= len THEN len - 1 + 1 ELSE 0) = len /\ len - 1 + 1 = len
      OBVIOUS
    <2>5. \A i \in 1..len : 1 + i - 1 = i
      OBVIOUS
    <2> QED  BY <1>5, <2>1, <2>3, <2>4, <2>5
  <1>9. Reads(kv, X, len, lg)
    <2>1. ASSUME NEW j \in DOMAIN X, NEW r \in 1..PageSize, TokenAt(j, r) <= len
          PROVE  r <= Len(kv[X[j]]) /\ kv[X[j]][r] = lg[TokenAt(j, r)]
      <3>1. j \in 1..keep /\ j \in DOMAIN T /\ j \in Nat \ {0}
        BY <1>1, <1>4, <1>6
      <3>2. TokenAt(j, r) \in Nat \ {0}
        BY <3>1, TokenAtType
      <3>3. PICK i \in 1..len : i = TokenAt(j, r) /\ i <= old
        BY <1>3, <2>1, <3>2
      <3>4. r <= Len(kv[T[j]]) /\ kv[T[j]][r] = log[s][i]
        BY <1>1, <3>1, <3>3 DEF Reads
      <3> QED  BY <1>6, <1>8, <3>1, <3>3, <3>4
    <2> QED  BY <1>8, <2>1 DEF Reads
  <1>10. Tight(X, len)
    BY <1>1, <1>2, <1>6 DEF Tight
  <1>11. /\ table' = [table EXCEPT ![s] = X] /\ seqLen' = [seqLen EXCEPT ![s] = len]
         /\ log' = [log EXCEPT ![s] = lg] /\ kv' = kv /\ blockPages' = blockPages
         /\ sealed' = sealed
    BY <1>1, <1>2, <1>5 DEF truncate_slot
  <1>12. RowsFit(kv) /\ WritesOwn(s, kv)
    BY DEF KVInv, WritesOwn
  <1>13. SlotWrites(s, X, len, lg, kv)
    BY <1>9, <1>10, <1>11, <1>12 DEF SlotWrites
  <1> QED  BY <1>11, <1>13, WriteStep

\* Tables and indexed blocks list pages.
LEMMA PagesListed ==
    ASSUME PoolInv
    PROVE  /\ \A s \in Slots : \A p \in Range(table[s]) : p \in Pages
           /\ \A b \in Pages : \A p \in Range(blockPages[b]) : p \in Pages
  <1>1. table \in [Slots -> Seq(Pages)] /\ blockPages \in [Pages -> Seq(Pages)]
    BY DEF PoolInv, PoolTypes
  <1>2. ASSUME NEW X \in Seq(Pages), NEW p \in Range(X) PROVE p \in Pages
    BY <1>2 DEF Range
  <1> QED  BY <1>1, <1>2

\* Rows that change only where no slot reads.
LEMMA SlotsUntouched ==
    ASSUME PoolInv, KVInv, UNCHANGED <<table, seqLen, log>>,
           \A s \in Slots : \A p \in Range(table[s]) : kv'[p] = kv[p]
    PROVE  \A s \in Slots : SlotReads(s)'
  <1> SUFFICES ASSUME NEW s \in Slots PROVE SlotReads(s)'
    OBVIOUS
  <1>1. Reads(kv, table[s], seqLen[s], log[s]) /\ Tight(table[s], seqLen[s])
    BY DEF KVInv, SlotReads
  <1>2. PICK K : K = kv'
    OBVIOUS
  <1>3. Reads(K, table[s], seqLen[s], log[s])
    BY <1>1, <1>2, ReadsKept
  <1>4. Reads(kv', table'[s], seqLen'[s], log'[s]) /\ Tight(table'[s], seqLen'[s])
    BY <1>1, <1>2, <1>3
  <1> QED  BY <1>4 DEF SlotReads, Reads, Tight

\* Forgetting a block leaves the pages of the others sealed.
LEMMA ReleaseKV ==
    ASSUME PoolInv, KVInv, NEW b \in Pages, release_block(b)
    PROVE  KVInv'
  <1>1. /\ blockPages' = [blockPages EXCEPT ![b] = << >>]
        /\ sealed' = [p \in Pages |-> IF ref'[p] = 0 THEN << >> ELSE sealed[p]]
        /\ UNCHANGED <<table, seqLen, log, kv>>
    BY DEF release_block
  <1>2. PoolInv'
    BY ReleaseStep
  <1>3. \A s \in Slots : SlotReads(s)'
    BY <1>1, SlotsUntouched
  <1>4. CacheIntact'
    <2> SUFFICES ASSUME NEW c \in Pages, NEW p \in Range(blockPages'[c])
                 PROVE  Len(kv'[p]) = PageSize /\ kv'[p] = sealed'[p]
      BY DEF CacheIntact
    <2>1. /\ blockPages' \in [Pages -> Seq(Pages)] /\ ref' \in [Pages -> Nat]
          /\ blockPages'[c] /= << >> =>
                 \A i \in DOMAIN blockPages'[c] : ref'[blockPages'[c][i]] > 0
      BY <1>2 DEF PoolInv, PoolTypes, BlocksWhole, BlockWhole
    <2>2. PICK B \in Seq(Pages) : B = blockPages'[c]
      BY <2>1
    <2>3. PICK i \in DOMAIN B : p = B[i]
      BY <2>2 DEF Range
    <2>4. p \in Pages /\ B /= << >>
      BY <2>3
    <2>5. ref'[p] > 0 /\ ref'[p] \in Nat
      BY <2>1, <2>2, <2>3, <2>4
    <2>6. B = blockPages[c]
      BY <1>1, <2>2, <2>4 DEF PoolInv, PoolTypes
    <2>7. p \in Range(blockPages[c])
      BY <2>2, <2>6
    <2>8. Len(kv[p]) = PageSize /\ kv[p] = sealed[p]
      BY <2>7 DEF KVInv, CacheIntact
    <2>9. sealed'[p] = sealed[p]
      BY <1>1, <2>4, <2>5
    <2> QED  BY <1>1, <2>8, <2>9
  <1>5. RowsFit(kv)' /\ log' \in [Slots -> Seq(Tokens)]
    BY <1>1 DEF KVInv, RowsFit
  <1> QED  BY <1>3, <1>4, <1>5 DEF KVInv

\* S is the j-th run of P tokens of g.
RunOf(S, g, j, P) ==
    S \in Seq(Tokens) /\ Len(S) = P /\ \A r \in 1..P : S[r] = g[(j - 1) * P + r]

\* A page of rows cut out of those of a longer run of tokens.
LEMMA PageOfRows ==
    ASSUME NEW g \in Seq(Tokens), NEW P \in Nat \ {0}, NEW j \in Nat \ {0}, j * P <= Len(g),
           NEW S, S = SubSeq(g, (j - 1) * P + 1, j * P)
    PROVE  RunOf(S, g, j, P)
  <1>1. PICK k \in Nat, a \in Nat, b \in Nat : k = j - 1 /\ a = k * P /\ b = j * P
    OBVIOUS
  <1>2. b = a + P
    <2>1. (k + 1) * P = k * P + P /\ j = k + 1
      BY <1>1
    <2> QED  BY <1>1, <2>1
  <1>3. S = SubSeq(g, a + 1, b)
    BY <1>1
  <1>4. \A i \in a + 1..b : g[i] \in Tokens
    BY <1>1
  <1>5. /\ S \in Seq(Tokens) /\ Len(S) = (IF a + 1 <= b THEN b - (a + 1) + 1 ELSE 0)
        /\ \A i \in 1..b - (a + 1) + 1 : S[i] = g[(a + 1) + i - 1]
    BY <1>3, <1>4, SubSeqProperties
  <1>6. b - (a + 1) + 1 = P /\ a + 1 <= b
    BY <1>2
  <1>7. ASSUME NEW r \in 1..P PROVE S[r] = g[a + r]
    <2>1. (a + 1) + r - 1 = a + r /\ r \in 1..b - (a + 1) + 1
      BY <1>6
    <2> QED  BY <1>5, <2>1
  <1> QED  BY <1>1, <1>5, <1>6, <1>7 DEF RunOf

\* A block from a lower tier is written to pages that nobody reads.
LEMMA InstallKV ==
    ASSUME PoolInv, KVInv, NEW rows \in [1..BlockSize -> Tokens], install_block(rows)
    PROVE  KVInv'
  <1>1. PICK D \in Nat \ {0}, P \in Nat \ {0} : D = PagesPerBlock /\ P = PageSize /\ D * P = BlockSize
    BY BlockIsPages, PageSizeAssumption
  <1>2. rows \in Seq(Tokens) /\ Len(rows) = D * P
    <2>1. BlockSize \in Nat
      BY BlockSizeAssumption
    <2>2. rows \in Seq(Tokens)
      BY <2>1
    <2>3. Len(rows) = BlockSize
      BY <2>1
    <2> QED  BY <1>1, <2>2, <2>3
  <1> DEFINE row(f, p) == CHOOSE i \in DOMAIN f : f[i] = p
  <1>3. PICK f \in Pops(PagesPerBlock) :
            /\ kv' = [p \in Pages |-> IF p \in Range(f)
                        THEN SubSeq(rows, (row(f, p) - 1) * PageSize + 1, row(f, p) * PageSize)
                        ELSE kv[p]]
            /\ sealed' = [p \in Pages |-> IF p \in Range(f) THEN kv'[p] ELSE sealed[p]]
            /\ blockPages' = [blockPages EXCEPT ![f[1]] = f]
            /\ UNCHANGED <<table, seqLen, log>>
    BY DEF install_block
  <1>4. /\ f \in [1..D -> Pages]
        /\ \A p \in Range(f) : /\ p \in Pages /\ \A s \in Slots : p \notin Range(table[s])
                               /\ \A b \in Pages : p \notin Range(blockPages[b])
    BY <1>1, PopsFresh
  <1>5. ASSUME NEW p \in Range(f)
        PROVE  p \in Pages /\ kv'[p] \in Seq(Tokens) /\ Len(kv'[p]) = PageSize /\ kv'[p] = sealed'[p]
    <2>1. PICK i : i = row(f, p)
      OBVIOUS
    <2>2. i \in DOMAIN f /\ f[i] = p
      BY <1>5, <2>1 DEF Range
    <2>3. i \in Nat \ {0} /\ i <= D
      BY <1>4, <2>2
    <2>4. i * P <= D * P
      BY <2>3, TimesOrder
    <2>5. kv'[p] = SubSeq(rows, (i - 1) * P + 1, i * P)
      BY <1>1, <1>3, <1>4, <1>5, <2>1
    <2>6. PICK S : S = kv'[p]
      OBVIOUS
    <2>7. S = SubSeq(rows, (i - 1) * P + 1, i * P) /\ i * P <= Len(rows)
      BY <1>2, <2>4, <2>5, <2>6
    <2>8. S \in Seq(Tokens) /\ Len(S) = P
      <3>1. PICK g \in Seq(Tokens) : g = rows
        BY <1>2
      <3>2. S = SubSeq(g, (i - 1) * P + 1, i * P) /\ i * P <= Len(g)
        BY <2>7, <3>1
      <3>3. RunOf(S, g, i, P)
        BY <2>3, <3>2, PageOfRows
      <3> QED  BY <3>3 DEF RunOf
    <2> QED  BY <1>1, <1>3, <1>4, <2>6, <2>8
  <1> HIDE DEF row
  <1>6. \A p \in Pages : p \notin Range(f) => kv'[p] = kv[p] /\ sealed'[p] = sealed[p]
    BY <1>3
  <1>7. RowsFit(kv)'
    <2>1. kv' = [p \in Pages |-> kv'[p]]
      BY <1>3
    <2>2. ASSUME NEW p \in Pages PROVE kv'[p] \in Seq(Tokens) /\ Len(kv'[p]) <= PageSize
      <3>1. CASE p \in Range(f)
        BY <1>1, <1>5, <3>1
      <3>2. CASE p \notin Range(f)
        BY <1>6, <3>2 DEF KVInv, RowsFit
      <3> QED  BY <3>1, <3>2
    <2> QED  BY <2>1, <2>2 DEF RowsFit
  <1>8. \A s \in Slots : SlotReads(s)'
    <2>1. ASSUME NEW s \in Slots, NEW p \in Range(table[s]) PROVE p \in Pages /\ p \notin Range(f)
      BY <1>4, PagesListed
    <2> QED  BY <1>3, <1>6, <2>1, SlotsUntouched
  <1>9. CacheIntact'
    <2> SUFFICES ASSUME NEW c \in Pages, NEW p \in Range(blockPages'[c])
                 PROVE  Len(kv'[p]) = PageSize /\ kv'[p] = sealed'[p]
      BY DEF CacheIntact
    <2>1. CASE p \in Range(f)
      BY <1>5, <2>1
    <2>2. CASE p \notin Range(f)
      <3>1. blockPages'[c] = blockPages[c]
        BY <1>3, <2>2 DEF PoolInv, PoolTypes
      <3>2. p \in Pages /\ Len(kv[p]) = PageSize /\ kv[p] = sealed[p]
        BY <3>1, PagesListed DEF KVInv, CacheIntact
      <3> QED  BY <1>6, <2>2, <3>2
    <2> QED  BY <2>1, <2>2
  <1>10. log' \in [Slots -> Seq(Tokens)]
    BY <1>3 DEF KVInv
  <1> QED  BY <1>7, <1>8, <1>9, <1>10 DEF KVInv

\* The tokens of lg that belong on the j-th page, and a page p that holds them.
RunFor(lg, j) == SubSeq(lg, (j - 1) * PageSize + 1, j * PageSize)
HoldsRun(p, lg, j) == Len(kv[p]) = PageSize /\ kv[p] = RunFor(lg, j)

\* A page that the slot's tokens fill holds exactly those tokens.
LEMMA FullPage ==
    ASSUME RowsFit(kv), NEW T \in Seq(Pages), NEW len \in Nat, NEW lg, Reads(kv, T, len, lg),
           NEW P \in Nat \ {0}, P = PageSize, NEW j \in DOMAIN T, j * P <= len
    PROVE  HoldsRun(T[j], lg, j)
  <1>1. PICK g \in Seq(Tokens) : g = lg /\ Len(g) = len
    BY DEF Reads
  <1>2. PICK K \in Seq(Tokens) : K = kv[T[j]] /\ Len(K) <= P
    BY DEF RowsFit
  <1>3. PICK S : S = SubSeq(g, (j - 1) * P + 1, j * P)
    OBVIOUS
  <1>4. j \in Nat \ {0} /\ j * P <= Len(g)
    BY <1>1
  <1>5. RunOf(S, g, j, P)
    BY <1>3, <1>4, PageOfRows
  <1>6. ASSUME NEW r \in 1..P PROVE TokenAt(j, r) <= len /\ TokenAt(j, r) = (j - 1) * P + r
    <2>1. PICK k \in Nat, a \in Nat : k = j - 1 /\ a = k * P
      BY <1>4
    <2>2. (k + 1) * P = k * P + P /\ j = k + 1
      BY <1>4, <2>1
    <2>3. a + P <= len
      BY <2>1, <2>2
    <2>4. TokenAt(j, r) = a + r
      BY <2>1 DEF TokenAt
    <2> QED  BY <2>1, <2>3, <2>4
  <1>7. ASSUME NEW r \in 1..P PROVE r <= Len(K) /\ K[r] = S[r]
    <2>1. r <= Len(K) /\ K[r] = g[TokenAt(j, r)]
      BY <1>1, <1>2, <1>6 DEF Reads
    <2>2. S[r] = g[(j - 1) * P + r]
      BY <1>5 DEF RunOf
    <2> QED  BY <1>6, <2>1, <2>2
  <1>8. Len(K) = P
    <2>1. P \in 1..P
      OBVIOUS
    <2>2. P <= Len(K)
      BY <1>7, <2>1
    <2> QED  BY <1>2, <2>2
  <1>9. S \in Seq(Tokens) /\ Len(S) = P
    BY <1>5 DEF RunOf
  <1>10. \A i \in 1..Len(K) : K[i] = S[i]
    BY <1>7, <1>8
  <1>11. K = S
    BY <1>8, <1>9, <1>10, SeqEqual
  <1> QED  BY <1>1, <1>2, <1>3, <1>8, <1>11 DEF HoldsRun, RunFor

\* The list of published pages, and what they are sealed with.
LEMMA PublishSeals ==
    ASSUME PoolInv, KVInv, NEW s \in Slots, NEW n \in Nat, publish_and_free(s, n)
    PROVE  \E N \in Nat : /\ N = n * PagesPerBlock /\ N <= Len(table[s])
                          /\ \A i \in 1..N : /\ Len(kv[table[s][i]]) = PageSize
                                             /\ sealed'[table[s][i]] = kv[table[s][i]]
                          /\ \A p \in Pages : \/ \E i \in 1..N : p = table[s][i]
                                              \/ sealed'[p] = sealed[p]
  <1>1. PICK T \in Seq(Pages), L \in Nat, len \in Nat, P \in Nat \ {0} :
               /\ T = table[s] /\ L = Len(T) /\ len = seqLen[s] /\ P = PageSize
               /\ Injective(T) /\ len <= L * P /\ L * P < len + P
               /\ Reads(kv, T, len, log[s]) /\ DOMAIN T = 1..L
    BY SlotFacts
  <1>2. PICK D \in Nat \ {0}, N \in Nat : D = PagesPerBlock /\ N = n * D
    BY BlockIsPages
  <1>3. N * P <= len
    <2>1. BlockSize = D * P
      BY <1>1, <1>2, BlockIsPages
    <2>2. n * (D * P) = (n * D) * P
      OBVIOUS
    <2>3. n * BlockSize <= len
      BY <1>1 DEF publish_and_free
    <2> QED  BY <1>2, <2>1, <2>2, <2>3
  <1>4. N <= L
    <2>1. N * P < L * P + P
      <3>1. L * P \in Nat /\ N * P \in Nat
        OBVIOUS
      <3> QED  BY <1>1, <1>3, <3>1
    <2> QED  BY <2>1, TimesOrder
  <1> DEFINE Q == SubSeq(table[s], 1, n * PagesPerBlock)
  <1>5. ASSUME NEW p \in Pages
        PROVE  LET js == {j \in DOMAIN Q : Q[j] = p}
               IN  sealed'[p] = IF js = {} THEN sealed[p]
                                ELSE RunFor(log[s], CHOOSE j \in js : TRUE)
    BY Zenon DEF publish_and_free, RunFor
  <1> HIDE DEF Q
  <1>6. DOMAIN Q = 1..N /\ \A i \in 1..N : Q[i] = T[i] /\ i \in DOMAIN T
    <2>1. PICK a \in Nat : a = 0
      OBVIOUS
    <2>2. a + N <= Len(T) /\ a + 1 = 1 /\ a + N = N /\ \A i \in 1..N : a + i = i
      BY <1>1, <1>4, <2>1
    <2>3. Q = SubSeq(T, a + 1, a + N)
      BY <1>1, <1>2, <2>2 DEF Q
    <2>4. PartOf(Q, T, a, N)
      BY <2>2, <2>3, PartOfList
    <2> QED  BY <1>1, <2>2, <2>4 DEF PartOf
  <1>8. ASSUME NEW i \in 1..N
        PROVE  Len(kv[T[i]]) = PageSize /\ sealed'[T[i]] = kv[T[i]]
    <2>1. i \in DOMAIN T /\ T[i] \in Pages
      BY <1>6
    <2>2. {j \in DOMAIN Q : Q[j] = T[i]} = {i}
      <3>1. ASSUME NEW j \in DOMAIN Q, Q[j] = T[i] PROVE j = i
        BY <1>1, <1>6, <2>1, <3>1 DEF Injective
      <3>2. i \in DOMAIN Q /\ Q[i] = T[i]
        BY <1>6
      <3> QED  BY <3>1, <3>2
    <2>3. (CHOOSE j \in {i} : TRUE) = i
      OBVIOUS
    <2>4. sealed'[T[i]] = RunFor(log[s], i)
      BY <1>5, <2>1, <2>2, <2>3
    <2>5. i * P <= len
      <3>1. i \in Nat /\ i <= N
        OBVIOUS
      <3>2. i * P <= N * P /\ i * P \in Nat /\ N * P \in Nat
        BY <3>1, TimesOrder
      <3> QED  BY <1>3, <3>2
    <2>6. RowsFit(kv)
      BY DEF KVInv
    <2>7. HoldsRun(T[i], log[s], i)
      BY <1>1, <2>1, <2>5, <2>6, FullPage
    <2> QED  BY <2>4, <2>7 DEF HoldsRun
  <1>9. ASSUME NEW p \in Pages, ~\E i \in 1..N : p = T[i] PROVE sealed'[p] = sealed[p]
    <2>1. {j \in DOMAIN Q : Q[j] = p} = {}
      BY <1>6, <1>9
    <2> QED  BY <1>5, <2>1
  <1> QED  BY <1>1, <1>2, <1>4, <1>8, <1>9

\* The pages of a newly indexed block are among the published ones.
LEMMA PublishPages ==
    ASSUME PoolInv, NEW s \in Slots, NEW n \in Nat, publish_and_free(s, n),
           n * PagesPerBlock <= Len(table[s]), NEW b \in Pages, blockPages'[b] /= blockPages[b],
           NEW p \in Range(blockPages'[b])
    PROVE  \E i \in 1..n * PagesPerBlock : p = table[s][i]
  <1>1. PICK T \in Seq(Pages) : T = table[s]
    BY DEF PoolInv, PoolTypes
  <1>2. PICK off, head : PlacesAgree(off, head)
    BY DEF PoolInv, Aligned
  <1>3. Fits(T, off, head) /\ n * PagesPerBlock <= Len(T)
    BY <1>1, <1>2 DEF PlacesAgree
  <1>4. Publishes(T, n)
    BY <1>1, PublishIndex
  <1>5. PICK i \in 1..n :
            blockPages'[b] = SubSeq(T, (i - 1) * PagesPerBlock + 1, i * PagesPerBlock)
    BY <1>4 DEF Publishes
  <1>6. PICK B : B = blockPages'[b]
    OBVIOUS
  <1>7. BlockIn(B, T, n, off, head)
    BY <1>3, <1>5, <1>6, BlockOfTable
  <1>8. /\ B \in Seq(Pages) /\ Len(B) = PagesPerBlock
        /\ \A j \in 1..PagesPerBlock : \E k \in 1..n * PagesPerBlock : B[j] = T[k]
    BY <1>7 DEF BlockIn
  <1>9. PICK j \in DOMAIN B : p = B[j]
    BY <1>6 DEF Range
  <1> QED  BY <1>1, <1>8, <1>9

\* A published page is sealed as it is; the slot that filled it is empty.
LEMMA PublishKV ==
    ASSUME PoolInv, KVInv, NEW s \in Slots, NEW n \in Nat, publish_and_free(s, n)
    PROVE  KVInv'
  <1>1. PICK N \in Nat : /\ N = n * PagesPerBlock /\ N <= Len(table[s])
                         /\ \A i \in 1..N : /\ Len(kv[table[s][i]]) = PageSize
                                            /\ sealed'[table[s][i]] = kv[table[s][i]]
                         /\ \A p \in Pages : \/ \E i \in 1..N : p = table[s][i]
                                             \/ sealed'[p] = sealed[p]
    BY PublishSeals
  <1>2. PICK X, lg : X = << >> /\ lg = << >>
    OBVIOUS
  <1>3. Reads(kv, X, 0, lg) /\ Tight(X, 0)
    <2>1. Reads(kv, X, 0, lg)
      BY <1>2 DEF Reads
    <2>2. 0 * PageSize < 0 + PageSize /\ Len(X) = 0
      BY <1>2, PageSizeAssumption
    <2> QED  BY <2>1, <2>2 DEF Tight
  <1>4. /\ kv' = kv /\ table' = [table EXCEPT ![s] = X] /\ seqLen' = [seqLen EXCEPT ![s] = 0]
        /\ log' = [log EXCEPT ![s] = lg]
    BY <1>2 DEF publish_and_free
  <1>5. RowsFit(kv) /\ WritesOwn(s, kv)
    BY DEF KVInv, WritesOwn
  <1>6. SlotWrites(s, X, 0, lg, kv)
    BY <1>3, <1>4, <1>5 DEF SlotWrites
  <1>7. RowsFit(kv)' /\ log' \in [Slots -> Seq(Tokens)] /\ \A t \in Slots : SlotReads(t)'
    BY <1>6, SlotsKept
  <1>8. CacheIntact'
    <2> SUFFICES ASSUME NEW b \in Pages, NEW p \in Range(blockPages'[b])
                 PROVE  Len(kv'[p]) = PageSize /\ kv'[p] = sealed'[p]
      BY DEF CacheIntact
    <2>1. CASE \E i \in 1..N : p = table[s][i]
      BY <1>1, <1>4, <2>1
    <2>2. CASE ~\E i \in 1..N : p = table[s][i]
      <3>1. blockPages'[b] = blockPages[b]
        BY <1>1, <2>2, PublishPages
      <3>2. p \in Range(blockPages[b])
        BY <3>1
      <3>3. p \in Pages
        BY <3>2, PagesListed
      <3>4. Len(kv[p]) = PageSize /\ kv[p] = sealed[p]
        BY <3>2 DEF KVInv, CacheIntact
      <3> QED  BY <1>1, <1>4, <2>2, <3>3, <3>4
    <2> QED  BY <2>1, <2>2
  <1> QED  BY <1>7, <1>8 DEF KVInv

\* Borrowed pages are pages of indexed blocks.
LEMMA BorrowedIndexed ==
    ASSUME PoolInv, NEW n \in Nat \ {0},
           NEW bids \in [1..n -> {b \in Pages : blockPages[b] /= << >>}],
           NEW X, X = PagesOf(bids), NEW p \in Range(X)
    PROVE  \E b \in Pages : p \in Range(blockPages[b])
  <1>1. PICK D \in Nat \ {0}, N \in Nat : D = PagesPerBlock /\ N = n * D
    BY BlockIsPages
  <1>2. Len(bids) = n
    OBVIOUS
  <1>3. X = [i \in 1..N |-> blockPages[bids[CeilDiv(i, D)]][((i - 1) % D) + 1]]
    BY <1>1, <1>2 DEF PagesOf
  <1>4. PICK i \in 1..N : p = X[i]
    BY <1>3 DEF Range
  <1>5. PICK c, r : c = CeilDiv(i, D) /\ r = (i - 1) % D
    OBVIOUS
  <1>6. i \in Nat \ {0}
    OBVIOUS
  <1>7. r \in 0..D - 1 /\ c \in Nat \ {0} /\ i = (c - 1) * D + r + 1
    BY <1>5, <1>6, Placement
  <1>8. c \in 1..n
    <2>1. PICK k \in Nat : k = c - 1 /\ c = k + 1
      BY <1>7
    <2>2. k * D \in Nat /\ i = k * D + r + 1 /\ i <= n * D
      BY <1>1, <1>7, <2>1
    <2>3. k * D < n * D
      BY <1>1, <1>7, <2>2
    <2>4. k < n
      BY <2>3, TimesOrder
    <2> QED  BY <2>1, <2>4
  <1>9. PICK b \in Pages : b = bids[c] /\ blockPages[b] /= << >>
    BY <1>8
  <1>10. blockPages[b] \in Seq(Pages) /\ Len(blockPages[b]) = D
    BY <1>1, <1>9 DEF PoolInv, PoolTypes, BlocksWhole, BlockWhole
  <1>11. r + 1 \in DOMAIN blockPages[b]
    BY <1>7, <1>10
  <1>12. p = blockPages[b][r + 1]
    BY <1>3, <1>4, <1>5, <1>9
  <1> QED  BY <1>11, <1>12 DEF Range

\* The j-th page's r-th row, seen from its token.
LEMMA RowOfToken ==
    ASSUME NEW j \in Nat \ {0}, NEW r \in 1..PageSize
    PROVE  /\ CeilDiv(TokenAt(j, r), PageSize) = j
           /\ ((TokenAt(j, r) - 1) % PageSize) + 1 = r
  <1>1. PICK P \in Nat \ {0}, k \in Nat : P = PageSize /\ k = j - 1 /\ j = k + 1
    <2>1. j - 1 \in Nat /\ j = (j - 1) + 1
      OBVIOUS
    <2> QED  BY <2>1, PageSizeAssumption
  <1>2. /\ k * P + r \in Nat \ {0} /\ (k * P + r - 1) % P = r - 1
        /\ CeilDiv(k * P + r, P) = k + 1
    <2>1. PICK q \in 1..P : q = r
      BY <1>1
    <2>2. /\ k * P + q \in Nat \ {0} /\ (k * P + q - 1) % P = q - 1
          /\ CeilDiv(k * P + q, P) = k + 1 /\ HeadOf(k * P + q, P) = k * P + 1
      BY PlaceInBlock, Zenon
    <2> QED  BY <2>1, <2>2
  <1>3. PICK i \in Nat \ {0} : i = k * P + r /\ i = TokenAt(j, r)
    BY <1>1, <1>2 DEF TokenAt
  <1>4. (i - 1) % P = r - 1 /\ CeilDiv(i, P) = j
    BY <1>1, <1>2, <1>3
  <1> QED  BY <1>1, <1>3, <1>4

\* Every token has a page and a row.
LEMMA TokenOnPage ==
    ASSUME NEW L \in Nat, NEW len \in Nat, len <= L * PageSize, NEW i \in 1..len
    PROVE  \E j \in 1..L, r \in 1..PageSize :
               /\ i = TokenAt(j, r) /\ CeilDiv(i, PageSize) = j /\ ((i - 1) % PageSize) + 1 = r
  <1>1. PICK P \in Nat \ {0} : P = PageSize
    BY PageSizeAssumption
  <1>2. i \in Nat \ {0}
    OBVIOUS
  <1>3. /\ (i - 1) % P \in 0..P - 1 /\ CeilDiv(i, P) \in Nat \ {0}
        /\ i = (CeilDiv(i, P) - 1) * P + ((i - 1) % P) + 1
    BY <1>2, Placement
  <1>4. PICK j \in Nat \ {0}, q \in 0..P - 1 : j = CeilDiv(i, P) /\ q = (i - 1) % P
    BY <1>3
  <1>5. PICK r \in 1..P : r = q + 1
    OBVIOUS
  <1>6. PICK k \in Nat, a \in Nat : k = j - 1 /\ a = k * P
    OBVIOUS
  <1>7. i = a + r
    BY <1>3, <1>4, <1>5, <1>6
  <1>8. TokenAt(j, r) = i
    BY <1>1, <1>6, <1>7 DEF TokenAt
  <1>9. len <= L * P /\ TokenAt(j, r) <= len
    BY <1>1, <1>8
  <1>10. j <= L
    BY <1>1, <1>9, RowOnPage
  <1>11. j \in 1..L
    BY <1>10
  <1> QED  BY <1>1, <1>4, <1>5, <1>8, <1>11

\* A slot that borrows sealed pages reads what they were sealed with.
LEMMA BorrowReads ==
    ASSUME KVInv, NEW X \in Seq(Pages), NEW len \in Nat, len <= Len(X) * PageSize,
           \A p \in Range(X) : \E b \in Pages : p \in Range(blockPages[b]),
           NEW lg, lg = [i \in 1..len |->
                            sealed[X[CeilDiv(i, PageSize)]][((i - 1) % PageSize) + 1]]
    PROVE  Reads(kv, X, len, lg)
  <1>1. ASSUME NEW j \in DOMAIN X
        PROVE  kv[X[j]] \in Seq(Tokens) /\ Len(kv[X[j]]) = PageSize /\ kv[X[j]] = sealed[X[j]]
    <2>1. X[j] \in Range(X) /\ X[j] \in Pages
      BY DEF Range
    <2> QED  BY <2>1 DEF KVInv, RowsFit, CacheIntact
  <1>2. ASSUME NEW i \in 1..len PROVE lg[i] \in Tokens
    <2>1. PICK L \in Nat : L = Len(X) /\ DOMAIN X = 1..L
      OBVIOUS
    <2>2. PICK j \in 1..L, r \in 1..PageSize :
              /\ i = TokenAt(j, r) /\ CeilDiv(i, PageSize) = j /\ ((i - 1) % PageSize) + 1 = r
      BY <2>1, TokenOnPage
    <2>3. lg[i] = sealed[X[j]][r]
      BY <2>2
    <2>4. PICK K \in Seq(Tokens) : K = sealed[X[j]] /\ Len(K) = PageSize
      BY <1>1, <2>1
    <2>5. K[r] \in Tokens
      <3>1. r \in 1..Len(K)
        BY <2>4
      <3> QED  BY <3>1
    <2> QED  BY <2>3, <2>4, <2>5
  <1>3. lg \in Seq(Tokens) /\ Len(lg) = len
    <2>1. lg \in [1..len -> Tokens]
      BY <1>2
    <2>2. lg \in Seq(Tokens)
      BY <2>1
    <2>3. Len(lg) = len
      BY <2>1
    <2> QED  BY <2>2, <2>3
  <1>4. ASSUME NEW j \in DOMAIN X, NEW r \in 1..PageSize, TokenAt(j, r) <= len
        PROVE  r <= Len(kv[X[j]]) /\ kv[X[j]][r] = lg[TokenAt(j, r)]
    <2>1. j \in Nat \ {0} /\ TokenAt(j, r) \in Nat \ {0}
      BY TokenAtType
    <2>2. PICK i \in 1..len : i = TokenAt(j, r)
      BY <1>4, <2>1
    <2>3. CeilDiv(i, PageSize) = j /\ ((i - 1) % PageSize) + 1 = r
      BY <2>1, <2>2, RowOfToken
    <2>4. lg[i] = sealed[X[j]][r]
      BY <2>3
    <2>5. r <= PageSize
      BY PageSizeAssumption
    <2> QED  BY <1>1, <2>2, <2>4, <2>5
  <1> QED  BY <1>3, <1>4 DEF Reads

\* Borrowing cached blocks.  One token short of a page of one row, the last page

\* of the table would hold none of the slot's tokens.
LEMMA BorrowKV ==
    ASSUME PageSize > 1 \/ ~CrossSlotAttach,
           PoolInv, KVInv, NEW s \in Slots, NEW n \in Nat \ {0}, NEW short \in BOOLEAN,
           NEW bids \in [1..n -> {b \in Pages : blockPages[b] /= << >>}], Injective(bids),
           attach_pages(s, bids, short)
    PROVE  KVInv'
  <1>1. PICK off, head : PlacesAgree(off, head)
    BY DEF PoolInv, Aligned
  <1>2. PICK X : X = PagesOf(bids)
    OBVIOUS
  <1>3. X \in Seq(Pages) /\ Len(X) = n * PagesPerBlock
    BY <1>1, <1>2, BorrowedPages
  <1>4. PICK M \in Nat \ {0} : M = n * BlockSize /\ M = Len(X) * PageSize
    <2>1. PICK D \in Nat \ {0}, d \in Nat \ {0} : D = PagesPerBlock /\ d = PageSize
      BY BlockIsPages, PageSizeAssumption
    <2>2. n * BlockSize = (n * D) * d
      <3>1. BlockSize = D * d
        BY <2>1, BlockIsPages
      <3>2. n * (D * d) = (n * D) * d
        OBVIOUS
      <3> QED  BY <3>1, <3>2
    <2>3. n * BlockSize \in Nat \ {0}
      BY BlockSizeAssumption
    <2> QED  BY <1>3, <2>1, <2>2, <2>3
  <1>5. PICK count \in Nat : count = M - (IF short THEN 1 ELSE 0)
    <2>1. M - (IF short THEN 1 ELSE 0) \in Nat
      OBVIOUS
    <2> QED  BY <2>1
  <1>6. count <= Len(X) * PageSize
    BY <1>4, <1>5
  <1>7. PICK lg : lg = [i \in 1..count |->
                           sealed[X[CeilDiv(i, PageSize)]][((i - 1) % PageSize) + 1]]
    OBVIOUS
  <1>8. Reads(kv, X, count, lg)
    <2>1. \A p \in Range(X) : \E b \in Pages : p \in Range(blockPages[b])
      BY <1>2, BorrowedIndexed
    <2> QED  BY <1>3, <1>6, <1>7, <2>1, BorrowReads
  <1>9. Tight(X, count)
    <2>1. PICK P \in Nat : P = PageSize /\ P > 1
      BY PageSizeAssumption DEF attach_pages
    <2>2. M < count + P
      BY <1>5, <2>1
    <2> QED  BY <1>4, <2>1, <2>2 DEF Tight
  <1>10. Len(bids) = n
    OBVIOUS
  <1>11. /\ table' = [table EXCEPT ![s] = X] /\ seqLen' = [seqLen EXCEPT ![s] = count]
         /\ log' = [log EXCEPT ![s] = lg] /\ kv' = kv /\ blockPages' = blockPages
         /\ sealed' = sealed
    BY <1>2, <1>4, <1>5, <1>7, <1>10 DEF attach_pages
  <1>12. RowsFit(kv) /\ WritesOwn(s, kv)
    BY DEF KVInv, WritesOwn
  <1>13. SlotWrites(s, X, count, lg, kv)
    BY <1>8, <1>9, <1>11, <1>12 DEF SlotWrites
  <1> QED  BY <1>11, <1>13, WriteStep

------------------------------------------------------------------------------
(* Sharing is invisible *)

\* A new pool has nothing to read.
LEMMA KVInvInit == Init => KVInv
  <1> SUFFICES ASSUME Init PROVE KVInv
    OBVIOUS
  <1>1. RowsFit(kv)
    <2>1. 0 <= PageSize
      BY PageSizeAssumption
    <2> QED  BY <2>1 DEF Init, RowsFit
  <1>2. ASSUME NEW s \in Slots PROVE SlotReads(s)
    <2>1. table[s] = << >> /\ seqLen[s] = 0 /\ log[s] = << >>
      BY DEF Init
    <2>2. 0 * PageSize < 0 + PageSize
      BY PageSizeAssumption
    <2>3. Tight(<< >>, 0)
      BY <2>2 DEF Tight
    <2>4. Reads(kv, << >>, 0, << >>)
      BY DEF Reads
    <2> QED  BY <2>1, <2>3, <2>4 DEF SlotReads
  <1>3. CacheIntact
    BY DEF Init, CacheIntact, Range
  <1>4. log \in [Slots -> Seq(Tokens)]
    BY DEF Init
  <1> QED  BY <1>1, <1>2, <1>3, <1>4 DEF KVInv

\* Every operation of the pool keeps what slots and the cache read.
LEMMA KVInvStep ==
    ASSUME PageSize > 1 \/ ~CrossSlotAttach
    PROVE  PoolInv /\ KVInv /\ [Next]_vars => KVInv'
  <1> SUFFICES ASSUME PoolInv, KVInv, [Next]_vars PROVE KVInv'
    OBVIOUS
  <1>1. ASSUME NEW s \in Slots, NEW n \in 1..MaxLen, NEW toks \in [1..n -> Tokens],
               append(s, toks)
        PROVE  KVInv'
    <2>1. n \in Nat
      BY BoundAssumption
    <2> QED  BY <1>1, <2>1, AppendKV
  <1>2. ASSUME NEW s \in Slots, NEW n \in 1..MaxLen, append_out_of_pages(s, n)
        PROVE  KVInv'
    BY <1>2, OutOfPagesKV
  <1>3. ASSUME NEW s \in Slots, append_copy_fails(s) PROVE KVInv'
    BY <1>3, KVKept DEF append_copy_fails, dataVars
  <1>4. ASSUME NEW s \in Slots, NEW n \in 1..MaxLen \div BlockSize, NEW short \in BOOLEAN,
               NEW bids \in [1..n -> {b \in Pages : blockPages[b] /= << >>}],
               \A i, j \in 1..n : bids[i] = bids[j] => i = j, attach_pages(s, bids, short)
        PROVE  KVInv'
    <2>1. n \in Nat \ {0} /\ Injective(bids)
      BY <1>4, BoundAssumption, BlockSizeAssumption DEF Injective
    <2> QED  BY <1>4, <2>1, BorrowKV
  <1>5. ASSUME NEW s \in Slots, NEW n \in 0..MaxLen \div BlockSize, publish_and_free(s, n)
        PROVE  KVInv'
    <2>1. n \in Nat
      BY BoundAssumption, BlockSizeAssumption
    <2> QED  BY <1>5, <2>1, PublishKV
  <1>6. ASSUME NEW s \in Slots, NEW len \in 0..MaxLen, truncate_slot(s, len)
        PROVE  KVInv'
    <2>1. len \in Nat
      BY BoundAssumption
    <2> QED  BY <1>6, <2>1, TruncateKV
  <1>7. ASSUME NEW b \in Pages, release_block(b) PROVE KVInv'
    BY <1>7, ReleaseKV
  <1>8. ASSUME NEW rows \in [1..BlockSize -> Tokens], install_block(rows) PROVE KVInv'
    BY <1>8, InstallKV
  <1>9. ASSUME install_copy_fails PROVE KVInv'
    BY <1>9, KVKept DEF install_copy_fails, dataVars
  <1>10. ASSUME UNCHANGED vars PROVE KVInv'
    BY <1>10, KVKept DEF vars, poolVars, dataVars
  <1>11. CASE Next
    BY <1>1, <1>2, <1>3, <1>4, <1>5, <1>6, <1>7, <1>8, <1>9, <1>11 DEF Next
  <1> QED  BY <1>10, <1>11

\* The invariant in the words of the property.
LEMMA KVInvIntact == PoolInv /\ KVInv => KVIntact
  <1> SUFFICES ASSUME PoolInv, KVInv PROVE KVIntact
    OBVIOUS
  <1>1. ASSUME NEW s \in Slots, NEW i \in 1..seqLen[s] PROVE Row(s, i) = log[s][i]
    <2>1. PICK T \in Seq(Pages), L \in Nat, len \in Nat, P \in Nat \ {0} :
               /\ T = table[s] /\ L = Len(T) /\ len = seqLen[s] /\ P = PageSize
               /\ Injective(T) /\ len <= L * P /\ L * P < len + P
               /\ Reads(kv, T, len, log[s]) /\ DOMAIN T = 1..L
      BY SlotFacts
    <2>2. len <= L * PageSize /\ i \in 1..len
      BY <2>1
    <2>3. PICK j \in 1..L, r \in 1..PageSize :
              /\ i = TokenAt(j, r) /\ CeilDiv(i, PageSize) = j /\ ((i - 1) % PageSize) + 1 = r
      BY <2>2, TokenOnPage
    <2>4. i <= len
      BY <2>2
    <2>5. kv[T[j]][r] = log[s][i]
      BY <2>1, <2>3, <2>4 DEF Reads
    <2> QED  BY <2>1, <2>3, <2>5 DEF Row
  <1>2. ASSUME NEW b \in Pages, NEW p \in Range(blockPages[b]) PROVE ref[p] > 0 /\ kv[p] = sealed[p]
    <2>1. blockPages[b] \in Seq(Pages) /\ BlockWhole(b)
      BY DEF PoolInv, PoolTypes, BlocksWhole
    <2>2. PICK B \in Seq(Pages) : B = blockPages[b]
      BY <2>1
    <2>3. PICK i \in DOMAIN B : p = B[i]
      BY <1>2, <2>2 DEF Range
    <2>4. B /= << >>
      BY <2>3
    <2>5. ref[p] > 0
      BY <2>1, <2>2, <2>3, <2>4 DEF BlockWhole
    <2> QED  BY <1>2, <2>5 DEF KVInv, CacheIntact
  <1> QED  BY <1>1, <1>2 DEF KVIntact

\* A slot reads back the tokens it appended or borrowed and a cached page keeps
\* what it was published with, for any pages, slots and block size: appending
\* copies a shared tail before it writes (detach_shared_hot_tail_page_for_append)
\* and writes no page that anybody else reads.  Left out are borrowed prefixes of
\* pages of one token: attached one token short, such a table has a page too many
\* and no copy is ever made (those pools prefill a contiguous cache instead).
THEOREM KVNeverOverwritten ==
    ASSUME PageSize > 1 \/ ~CrossSlotAttach
    PROVE  Spec => []KVIntact
  <1>1. Init => PoolInv /\ KVInv
    BY PoolInvInit, KVInvInit
  <1>2. PoolInv /\ KVInv /\ [Next]_vars => PoolInv' /\ KVInv'
    BY PoolInvStep, KVInvStep
  <1>3. PoolInv /\ KVInv => KVIntact
    BY KVInvIntact
  <1> QED  BY <1>1, <1>2, <1>3, PTL DEF Spec
==============================================================================
