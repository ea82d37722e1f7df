--------------------------- MODULE KvNativeProofs ----------------------------
(***************************************************************************)
(* Proofs about the storage of kv-native-sys.  HostArena, for every        *)
(* capacity and every set of lengths: the regions handed out and the free  *)
(* list tile the arena below the bump pointer, and released space can be   *)
(* reserved again.  DiskStore, for every number of nodes, puts, faults and *)
(* losses: the canonical name of a block never leads to a partial file,    *)
(* and an acknowledged block survives a crash.  Wal, for any keys, values  *)
(* and bounds: replay returns what was appended.                           *)
(***************************************************************************)
EXTENDS HostArena, DiskStore, Wal, FiniteSetTheorems, SequenceTheorems, Induction

------------------------------------------------------------------------------
(* The arena *)

\* Outside host_arena_rewind_tail the bump pointer does not stand behind a free
\* entry: the rewind has taken them all.
TailTaken ==
    ~rewinding => \A i \in DOMAIN free_list : region_end(free_list[i]) /= next_offset

\* In a pool that is asked for one length every region has it.
OneLength ==
    \A len \in sizes : sizes = {len} =>
        /\ \A r \in live_regions : r.len = len
        /\ \A i \in DOMAIN free_list : free_list[i].len = len

\* The inductive invariant: the tiling, with what the two parts of
\* SpaceComesBack follow from.
ArenaInv == ArenaTiled /\ TailTaken /\ OneLength

------------------------------------------------------------------------------
(* Regions, and the free list as a sequence *)

\* The fields of a region are numbers and a region is not empty.
LEMMA RegionFields ==
    ASSUME NEW r \in Regions
    PROVE  /\ r.offset \in Nat /\ r.len \in Nat /\ r.len >= 1 /\ r.offset <= ArenaBytes
           /\ r.len <= ArenaBytes /\ region_end(r) \in Nat /\ region_end(r) = r.offset + r.len
BY ArenaAssumption DEF Regions, region_end

\* swap_remove keeps every entry but the i-th: the last one moves to its place.
LEMMA SwapRemove ==
    ASSUME NEW S, NEW s \in Seq(S), NEW i \in DOMAIN s, NEW t, t = swap_remove(s, i)
    PROVE  /\ t \in Seq(S) /\ Len(t) = Len(s) - 1 /\ DOMAIN t = 1..Len(s) - 1
           /\ \A j \in DOMAIN t : t[j] = s[IF j = i THEN Len(s) ELSE j]
           /\ \A k \in DOMAIN s : k # i => \E j \in DOMAIN t : t[j] = s[k]
<1>1. Len(s) \in Nat /\ DOMAIN s = 1..Len(s) /\ Len(s) - 1 \in Nat
  OBVIOUS
<1>2. DOMAIN t = 1..Len(s) - 1 /\ t \in [1..Len(s) - 1 -> S]
  BY <1>1 DEF swap_remove
<1>3. t \in Seq(S)
  BY <1>1, <1>2, SeqDef
<1>4. Len(t) = Len(s) - 1
  <2>1. PICK n \in Nat : n = Len(s) - 1
    BY <1>1
  <2>2. Len(t) \in Nat /\ 1..Len(t) = 1..n
    BY <1>2, <1>3, <2>1, LenProperties
  <2>3. Len(t) = n
    BY <2>2
  <2> QED BY <2>1, <2>3
<1>5. \A j \in DOMAIN t : t[j] = s[IF j = i THEN Len(s) ELSE j]
  BY <1>1, <1>2 DEF swap_remove
<1>6. ASSUME NEW k \in DOMAIN s, k # i
      PROVE  \E j \in DOMAIN t : t[j] = s[k]
  <2>1. CASE k = Len(s)
    <3>1. i \in DOMAIN t /\ t[i] = s[k]
      BY <1>1, <1>2, <1>5, <1>6, <2>1
    <3> QED BY <3>1
  <2>2. CASE k # Len(s)
    <3>1. k \in DOMAIN t /\ t[k] = s[k]
      BY <1>1, <1>2, <1>5, <1>6, <2>2
    <3> QED BY <3>1
  <2> QED BY <2>1, <2>2
<1> QED BY <1>2, <1>3, <1>4, <1>5, <1>6

\* Append leaves the entries in place and puts the new one last.
LEMMA AppendEntry ==
    ASSUME NEW S, NEW s \in Seq(S), NEW x \in S, NEW t, t = Append(s, x)
    PROVE  /\ t \in Seq(S) /\ Len(t) = Len(s) + 1 /\ DOMAIN t = 1..Len(s) + 1
           /\ DOMAIN s = 1..Len(s) /\ Len(s) \in Nat
           /\ t[Len(s) + 1] = x /\ \A j \in DOMAIN s : t[j] = s[j]
BY AppendProperties, LenProperties

\* The bytes of the arena between two offsets are finite in number.
LEMMA HandedOutFinite ==
    IsFiniteSet(HandedOut) /\ Cardinality(HandedOut) \in Nat
<1>1. IsFiniteSet(0..ArenaBytes - 1)
  BY FS_Interval, ArenaAssumption
<1>2. HandedOut \in SUBSET (0..ArenaBytes - 1)
  BY DEF HandedOut
<1> QED BY <1>1, <1>2, FS_Subset, FS_CardinalityType

\* Handing out a region that overlaps none adds its length to the bytes handed
\* out, and taking one back subtracts it.
LEMMA BytesOfRegion ==
    ASSUME NEW r \in Regions, region_end(r) <= ArenaBytes, NEW H \in SUBSET Nat, IsFiniteSet(H)
    PROVE  LET bytes == r.offset..region_end(r) - 1 IN
           /\ H \cap bytes = {} =>
                 IsFiniteSet(H \cup bytes) /\ Cardinality(H \cup bytes) = Cardinality(H) + r.len
           /\ bytes \subseteq H =>
                 IsFiniteSet(H \ bytes) /\ Cardinality(H \ bytes) = Cardinality(H) - r.len
<1> DEFINE bytes == r.offset..region_end(r) - 1
<1>1. IsFiniteSet(bytes) /\ Cardinality(bytes) = r.len /\ r.len \in Nat
  <2>1. r.offset \in Int /\ region_end(r) - 1 \in Int /\ ~(r.offset > region_end(r) - 1)
        /\ region_end(r) - 1 - r.offset + 1 = r.len
    BY RegionFields
  <2> QED BY <2>1, FS_Interval, RegionFields
<1>2. Cardinality(H) \in Nat
  BY FS_CardinalityType
<1> HIDE DEF bytes
<1>3. ASSUME H \cap bytes = {}
      PROVE  IsFiniteSet(H \cup bytes) /\ Cardinality(H \cup bytes) = Cardinality(H) + r.len
  <2>1. Cardinality(H \cap bytes) = 0
    BY <1>3, FS_EmptySet
  <2>2. /\ IsFiniteSet(H \cup bytes)
        /\ Cardinality(H \cup bytes) = Cardinality(H) + Cardinality(bytes) - Cardinality(H \cap bytes)
    BY <1>1, FS_Union
  <2> QED BY <1>1, <1>2, <2>1, <2>2
<1>4. ASSUME bytes \subseteq H
      PROVE  IsFiniteSet(H \ bytes) /\ Cardinality(H \ bytes) = Cardinality(H) - r.len
  <2>1. H \cap bytes = bytes
    BY <1>4
  <2>2. Cardinality(H \cap bytes) = Cardinality(bytes)
    BY <2>1, Zenon
  <2>3. /\ IsFiniteSet(H \ bytes)
        /\ Cardinality(H \ bytes) = Cardinality(H) - Cardinality(H \cap bytes)
    BY FS_Difference
  <2> QED BY <1>1, <1>2, <2>2, <2>3
<1> QED BY <1>3, <1>4 DEF bytes

------------------------------------------------------------------------------
(* The inductive invariant *)

\* What ArenaTypeOK says of the regions and of the free list.
LEMMA TypeFacts ==
    ASSUME ArenaTypeOK
    PROVE  /\ next_offset \in Nat /\ next_offset <= ArenaBytes /\ reserved_bytes \in Nat
           /\ sizes \subseteq Nat \ {0} /\ ArenaBytes \in Nat
           /\ \A r \in live_regions : r \in Regions /\ region_end(r) <= next_offset
           /\ free_list \in Seq(Regions) /\ Len(free_list) \in Nat
           /\ DOMAIN free_list = 1..Len(free_list)
           /\ \A i \in DOMAIN free_list :
                 free_list[i] \in Regions /\ region_end(free_list[i]) <= next_offset
BY ArenaAssumption DEF ArenaTypeOK

\* The bytes handed out once r has joined the regions handed out.
LEMMA HandOut ==
    ASSUME ArenaTypeOK, NEW r \in Regions, region_end(r) <= ArenaBytes,
           \A p \in live_regions : Disjoint(p, r),
           live_regions' = live_regions \cup {r}
    PROVE  Cardinality(HandedOut)' = Cardinality(HandedOut) + r.len
<1> DEFINE bytes == r.offset..region_end(r) - 1
<1>1. /\ r.offset \in Nat /\ region_end(r) \in Nat /\ ArenaBytes \in Nat
      /\ \A p \in live_regions : p.offset \in Nat /\ region_end(p) \in Nat
  BY TypeFacts, RegionFields
<1>2. HandedOut' = HandedOut \cup bytes
  BY <1>1 DEF HandedOut, Covers
<1>3. HandedOut \cap bytes = {}
  BY <1>1 DEF HandedOut, Covers, Disjoint
<1>4. HandedOut \in SUBSET Nat
  BY DEF HandedOut
<1>5. Cardinality(HandedOut \cup bytes) = Cardinality(HandedOut) + r.len
  BY <1>3, <1>4, HandedOutFinite, BytesOfRegion
<1>6. Cardinality(HandedOut)' = Cardinality(HandedOut \cup bytes)
  BY <1>2, Zenon
<1> QED BY <1>5, <1>6

\* The bytes handed out once r has left the regions handed out.
LEMMA TakeBack ==
    ASSUME ArenaTypeOK, RegionsDisjoint, NEW r \in live_regions, live_regions' = live_regions \ {r}
    PROVE  Cardinality(HandedOut)' = Cardinality(HandedOut) - r.len
<1> DEFINE bytes == r.offset..region_end(r) - 1
<1>1. /\ r.offset \in Nat /\ region_end(r) \in Nat /\ ArenaBytes \in Nat
      /\ r \in Regions /\ region_end(r) <= ArenaBytes
      /\ \A p \in live_regions : p.offset \in Nat /\ region_end(p) \in Nat
  BY TypeFacts, RegionFields
<1>2. HandedOut' = HandedOut \ bytes
  <2>1. \A p \in live_regions : p # r => Disjoint(p, r)
    BY DEF RegionsDisjoint
  <2> QED BY <1>1, <2>1 DEF HandedOut, Covers, Disjoint
<1>3. bytes \subseteq HandedOut
  BY <1>1 DEF HandedOut, Covers
<1>4. HandedOut \in SUBSET Nat
  BY DEF HandedOut
<1>5. Cardinality(HandedOut \ bytes) = Cardinality(HandedOut) - r.len
  BY <1>1, <1>3, <1>4, HandedOutFinite, BytesOfRegion
<1>6. Cardinality(HandedOut)' = Cardinality(HandedOut \ bytes)
  BY <1>2, Zenon
<1> QED BY <1>5, <1>6

\* reserved_bytes never exceeds the arena.
LEMMA HandedOutBounded ==
    Cardinality(HandedOut) <= ArenaBytes /\ Cardinality(HandedOut)' <= ArenaBytes
    /\ Cardinality(HandedOut)' \in Nat
<1>1. IsFiniteSet(0..ArenaBytes - 1) /\ Cardinality(0..ArenaBytes - 1) = ArenaBytes
  BY FS_Interval, ArenaAssumption
<1>2. HandedOut \in SUBSET (0..ArenaBytes - 1) /\ HandedOut' \in SUBSET (0..ArenaBytes - 1)
  BY DEF HandedOut
<1>3. /\ IsFiniteSet(HandedOut') /\ Cardinality(HandedOut') <= Cardinality(0..ArenaBytes - 1)
      /\ Cardinality(HandedOut) <= Cardinality(0..ArenaBytes - 1)
  BY <1>1, <1>2, FS_Subset, Zenon
<1>4. Cardinality(HandedOut') \in Nat
  BY <1>3, FS_CardinalityType
<1> QED BY <1>1, <1>3, <1>4

\* A pool starts whole.
LEMMA InitArenaInv == ArenaInit => ArenaInv
<1> SUFFICES ASSUME ArenaInit PROVE ArenaInv
  OBVIOUS
<1>1. HandedOut = {}
  BY DEF ArenaInit, HandedOut
<1>2. Cardinality(HandedOut) = 0
  BY <1>1, FS_EmptySet
<1>3. ArenaTypeOK
  <2>1. rewinding \in BOOLEAN
    BY DEF ArenaInit
  <2>2. 0 \in 0..ArenaBytes
    BY ArenaAssumption
  <2> QED BY <2>1, <2>2 DEF ArenaInit, ArenaTypeOK
<1>4. RegionsDisjoint /\ NoByteLost
  BY <1>2 DEF ArenaInit, RegionsDisjoint, NoByteLost
<1>5. TailTaken /\ OneLength
  BY DEF ArenaInit, TailTaken, OneLength
<1> QED
  BY <1>3, <1>4, <1>5 DEF ArenaInv, ArenaTiled

\* An entry of the free list serves a reservation: first fit, swap_remove and
\* the rest of a longer entry pushed back.
LEMMA ReserveFromFreeListInv ==
    ASSUME ArenaInv, NEW len \in sizes, ReserveFromFreeList(len)
    PROVE  ArenaInv'
<1> USE DEF ArenaInv, ArenaTiled
<1>1. PICK i \in DOMAIN free_list :
        /\ FirstFit(i, len)
        /\ live_regions' = live_regions \cup {Region(free_list[i].offset, len)}
        /\ free_list' = Carved(i, len)
  BY DEF ReserveFromFreeList
<1>2. PICK e, N, r, rest, t :
        /\ e = free_list[i] /\ N = Len(free_list) /\ r = Region(e.offset, len)
        /\ rest = Region(e.offset + len, e.len - len) /\ t = swap_remove(free_list, i)
  OBVIOUS
<1>3. /\ e \in Regions /\ e.offset \in Nat /\ e.len \in Nat /\ region_end(e) = e.offset + e.len
      /\ region_end(e) <= next_offset /\ e.len >= len /\ len \in Nat /\ len >= 1 /\ e.len <= ArenaBytes
      /\ ArenaBytes \in Nat /\ next_offset \in Nat /\ next_offset <= ArenaBytes
  BY <1>1, <1>2, TypeFacts, RegionFields DEF FirstFit
<1>4. r \in Regions /\ r.offset = e.offset /\ r.len = len /\ region_end(r) = e.offset + len
  BY <1>2, <1>3 DEF Region, Regions, region_end
<1>5. e.len > len => /\ rest \in Regions /\ rest.offset = e.offset + len /\ rest.len = e.len - len
                     /\ region_end(rest) = region_end(e)
  <2> HIDE DEF ArenaInv, ArenaTiled
  <2>1. PICK o \in Nat, l \in Nat : o = e.offset /\ l = e.len
    BY <1>3
  <2>2. len \in Nat /\ region_end(e) = o + l /\ o + l <= ArenaBytes /\ ArenaBytes \in Nat
    BY <1>3, <2>1
  <2>3. rest = [offset |-> o + len, len |-> l - len]
    BY <1>2, <2>1, Zenon DEF Region
  <2>4. ASSUME l > len PROVE rest \in Regions /\ region_end(rest) = o + l
    BY <2>1, <2>2, <2>3, <2>4 DEF Regions, region_end
  <2> QED  BY <2>1, <2>2, <2>3, <2>4
<1>6. N \in Nat /\ DOMAIN free_list = 1..N /\ i \in 1..N /\ free_list \in Seq(Regions)
  BY <1>2, TypeFacts
<1>7. /\ t \in Seq(Regions) /\ Len(t) = N - 1 /\ DOMAIN t = 1..N - 1
      /\ \A j \in 1..N - 1 : t[j] = free_list[IF j = i THEN N ELSE j]
      /\ \A k \in 1..N : k # i => \E j \in 1..N - 1 : t[j] = free_list[k]
  <2>1. /\ t \in Seq(Regions) /\ Len(t) = Len(free_list) - 1 /\ DOMAIN t = 1..Len(free_list) - 1
        /\ \A j \in DOMAIN t : t[j] = free_list[IF j = i THEN Len(free_list) ELSE j]
        /\ \A k \in DOMAIN free_list : k # i => \E j \in DOMAIN t : t[j] = free_list[k]
    <3>1. free_list \in Seq(Regions) /\ t = swap_remove(free_list, i)
      BY <1>2, <1>6
    <3> QED BY <3>1, SwapRemove
  <2> QED BY <1>2, <1>6, <2>1
\* The new free list: the old entries but the i-th, and the rest if there is one.
<1>8. /\ free_list' \in Seq(Regions) /\ \A j \in 1..N - 1 : free_list'[j] = t[j]
      /\ \/ e.len = len /\ DOMAIN free_list' = 1..N - 1
         \/ e.len > len /\ DOMAIN free_list' = 1..N /\ free_list'[N] = rest
  <2>1. CASE e.len > len
    <3>1. free_list' = Append(t, rest)
      BY <1>1, <1>2, <2>1 DEF Carved
    <3>2. /\ free_list' \in Seq(Regions) /\ DOMAIN free_list' = 1..Len(t) + 1
          /\ free_list'[Len(t) + 1] = rest /\ \A j \in DOMAIN t : free_list'[j] = t[j]
      BY <1>5, <1>7, <2>1, <3>1, AppendEntry
    <3>3. Len(t) + 1 = N
      BY <1>6, <1>7
    <3> QED BY <1>7, <2>1, <3>2, <3>3
  <2>2. CASE ~(e.len > len)
    <3>1. free_list' = t
      BY <1>1, <1>2, <2>2 DEF Carved
    <3> QED BY <1>3, <1>7, <2>2, <3>1
  <2> QED BY <2>1, <2>2
<1>9. \A j \in DOMAIN free_list' :
         \/ j \in 1..N - 1 /\ (IF j = i THEN N ELSE j) \in 1..N \ {i}
               /\ free_list'[j] = free_list[IF j = i THEN N ELSE j]
         \/ j = N /\ e.len > len /\ free_list'[j] = rest
  BY <1>6, <1>7, <1>8
<1>10. /\ \A p \in live_regions : p \in Regions /\ p.offset \in Nat /\ region_end(p) \in Nat
       /\ \A k \in 1..N : free_list[k] \in Regions /\ free_list[k].offset \in Nat /\ region_end(free_list[k]) \in Nat
  BY <1>6, TypeFacts, RegionFields
<1>11. /\ \A p \in live_regions : Disjoint(p, r) /\ (e.len > len => Disjoint(p, rest))
       /\ \A k \in 1..N : k # i => Disjoint(free_list[k], r) /\ (e.len > len => Disjoint(free_list[k], rest))
  <2>1. /\ \A p \in live_regions : Disjoint(p, e)
        /\ \A k \in 1..N : k # i => Disjoint(free_list[k], e)
    BY <1>2, <1>6 DEF RegionsDisjoint
  <2>2. ASSUME NEW q, q.offset \in Nat, region_end(q) \in Nat, Disjoint(q, e)
        PROVE  Disjoint(q, r) /\ (e.len > len => Disjoint(q, rest))
    BY <1>3, <1>4, <1>5, <2>2 DEF Disjoint
  <2> QED BY <1>10, <2>1, <2>2
<1>12. RegionsDisjoint'
  <2>1. live_regions' = live_regions \cup {r}
    BY <1>1, <1>2
  <2>2. \A p, q \in live_regions' : p /= q => Disjoint(p, q)
    BY <2>1, <1>11 DEF RegionsDisjoint, Disjoint
  <2>3. \A j, k \in DOMAIN free_list' : j /= k => Disjoint(free_list'[j], free_list'[k])
    <3> SUFFICES ASSUME NEW j \in DOMAIN free_list', NEW k \in DOMAIN free_list', j /= k
                 PROVE  Disjoint(free_list'[j], free_list'[k])
      OBVIOUS
    <3>1. CASE j \in 1..N - 1 /\ k \in 1..N - 1
      <4>1. (IF j = i THEN N ELSE j) # (IF k = i THEN N ELSE k)
        BY <1>6, <3>1
      <4> QED BY <1>6, <1>9, <3>1, <4>1 DEF RegionsDisjoint
    <3>2. CASE j = N /\ k \in 1..N - 1
      BY <1>6, <1>9, <1>11, <3>2 DEF Disjoint
    <3>3. CASE k = N /\ j \in 1..N - 1
      BY <1>6, <1>9, <1>11, <3>3 DEF Disjoint
    <3> QED BY <3>1, <3>2, <3>3, <1>9
  <2>4. \A p \in live_regions' : \A j \in DOMAIN free_list' : Disjoint(p, free_list'[j])
    <3> SUFFICES ASSUME NEW p \in live_regions', NEW j \in DOMAIN free_list'
                 PROVE  Disjoint(p, free_list'[j])
      OBVIOUS
    <3>1. CASE p \in live_regions
      BY <1>6, <1>9, <1>11, <3>1 DEF RegionsDisjoint
    <3>2. CASE p = r
      BY <1>3, <1>4, <1>5, <1>6, <1>9, <1>11, <3>2 DEF Disjoint
    <3> QED BY <2>1, <3>1, <3>2
  <2> QED BY <2>2, <2>3, <2>4 DEF RegionsDisjoint
<1>13. reserved_bytes' = Cardinality(HandedOut)'
  <2>1. Cardinality(HandedOut)' = Cardinality(HandedOut) + r.len
    <3>1. region_end(r) <= ArenaBytes /\ live_regions' = live_regions \cup {r}
      BY <1>1, <1>2, <1>3, <1>4
    <3> QED BY <1>4, <1>11, <3>1, HandOut
  <2> QED BY <1>4, <2>1 DEF ReserveFromFreeList, NoByteLost
<1>14. NoByteLost'
  <2> SUFFICES ASSUME NEW x \in 0..next_offset - 1
               PROVE  \/ \E p \in live_regions' : Covers(p, x)
                      \/ \E j \in DOMAIN free_list' : Covers(free_list'[j], x)
    BY <1>13 DEF NoByteLost, ReserveFromFreeList
  <2>1. CASE \E p \in live_regions : Covers(p, x)
    BY <2>1, <1>1
  <2>2. ASSUME NEW k \in 1..N, Covers(free_list[k], x), k # i
        PROVE  \E j \in DOMAIN free_list' : Covers(free_list'[j], x)
    <3>1. PICK j \in 1..N - 1 : t[j] = free_list[k]
      BY <1>7, <2>2
    <3>2. j \in DOMAIN free_list' /\ free_list'[j] = free_list[k]
      BY <1>6, <1>8, <3>1
    <3> QED BY <2>2, <3>2
  <2>3. ASSUME Covers(e, x)
        PROVE  \/ \E p \in live_regions' : Covers(p, x)
               \/ \E j \in DOMAIN free_list' : Covers(free_list'[j], x)
    <3>1. CASE x < e.offset + len
      <4>1. Covers(r, x) /\ r \in live_regions'
        BY <1>1, <1>2, <1>3, <1>4, <2>3, <3>1 DEF Covers
      <4> QED BY <4>1
    <3>2. CASE ~(x < e.offset + len)
      <4>1. e.len > len /\ Covers(rest, x)
        BY <1>3, <1>5, <2>3, <3>2 DEF Covers
      <4>2. N \in DOMAIN free_list' /\ free_list'[N] = rest
        BY <1>3, <1>6, <1>8, <4>1
      <4> QED BY <4>1, <4>2
    <3> QED BY <3>1, <3>2
  <2> QED BY <2>1, <2>2, <2>3, <1>2, <1>6 DEF NoByteLost
<1>15. ArenaTypeOK'
  <2>1. rewinding' \in BOOLEAN /\ sizes' \in SizeSets /\ next_offset' \in 0..ArenaBytes
    BY DEF ReserveFromFreeList, ArenaTypeOK
  <2>2. reserved_bytes' \in 0..ArenaBytes
    BY <1>3, <1>13, HandedOutBounded
  <2>3. live_regions' \subseteq Regions /\ \A p \in live_regions' : region_end(p) <= next_offset'
    <3>1. live_regions' = live_regions \cup {r} /\ next_offset' = next_offset
      BY <1>1, <1>2 DEF ReserveFromFreeList
    <3>2. r \in Regions /\ region_end(r) <= next_offset
      BY <1>2, <1>3, <1>4, TypeFacts
    <3>3. \A p \in live_regions : p \in Regions /\ region_end(p) <= next_offset
      BY TypeFacts
    <3> QED BY <3>1, <3>2, <3>3
  <2>4. \A j \in DOMAIN free_list' : region_end(free_list'[j]) <= next_offset'
    BY <1>3, <1>5, <1>6, <1>9, TypeFacts DEF ReserveFromFreeList
  <2> QED BY <1>8, <2>1, <2>2, <2>3, <2>4 DEF ArenaTypeOK
<1>16. TailTaken'
  BY <1>2, <1>5, <1>6, <1>9 DEF TailTaken, ReserveFromFreeList
<1>17. OneLength'
  <2> SUFFICES ASSUME sizes = {len}
               PROVE  /\ \A p \in live_regions' : p.len = len
                      /\ \A j \in DOMAIN free_list' : free_list'[j].len = len
    BY DEF OneLength, ReserveFromFreeList
  <2>1. /\ \A p \in live_regions : p.len = len
        /\ \A k \in 1..N : free_list[k].len = len
    BY <1>6 DEF OneLength
  <2>2. e.len = len
    BY <1>2, <1>6, <2>1
  <2> QED BY <1>1, <1>2, <1>3, <1>4, <1>9, <2>1, <2>2
<1> QED BY <1>12, <1>14, <1>15, <1>16, <1>17

\* The bump pointer serves a reservation the free list cannot.
LEMMA ReserveAtTailInv ==
    ASSUME ArenaInv, NEW len \in sizes, ReserveAtTail(len)
    PROVE  ArenaInv'
<1> USE DEF ArenaInv, ArenaTiled
<1>1. PICK r : r = Region(next_offset, len)
  OBVIOUS
<1>2. /\ len \in Nat /\ len >= 1 /\ next_offset \in Nat /\ ArenaBytes \in Nat
      /\ next_offset + len <= ArenaBytes /\ next_offset' = next_offset + len
      /\ live_regions' = live_regions \cup {r} /\ reserved_bytes' = reserved_bytes + len
      /\ free_list' = free_list /\ sizes' = sizes /\ ~rewinding
  BY <1>1, TypeFacts DEF ReserveAtTail
<1>3. r \in Regions /\ r.offset = next_offset /\ r.len = len /\ region_end(r) = next_offset + len
  BY <1>1, <1>2 DEF Region, Regions, region_end
<1>4. /\ \A p \in live_regions : p \in Regions /\ region_end(p) <= next_offset /\ region_end(p) \in Nat
      /\ \A i \in DOMAIN free_list : /\ region_end(free_list[i]) <= next_offset
                                     /\ region_end(free_list[i]) \in Nat
  BY TypeFacts, RegionFields
<1>5. \A p \in live_regions : Disjoint(p, r)
  BY <1>3, <1>4 DEF Disjoint
<1>6. RegionsDisjoint'
  BY <1>2, <1>3, <1>4, <1>5 DEF RegionsDisjoint, Disjoint
<1>7. reserved_bytes' = Cardinality(HandedOut)'
  <2>1. Cardinality(HandedOut)' = Cardinality(HandedOut) + r.len
    BY <1>2, <1>3, <1>5, HandOut
  <2> QED BY <1>2, <1>3, <2>1 DEF NoByteLost
<1>8. NoByteLost'
  <2> SUFFICES ASSUME NEW x \in 0..next_offset' - 1
               PROVE  \/ \E p \in live_regions' : Covers(p, x)
                      \/ \E i \in DOMAIN free_list : Covers(free_list[i], x)
    BY <1>2, <1>7 DEF NoByteLost
  <2>1. CASE x < next_offset
    <3>1. x \in 0..next_offset - 1
      BY <1>2, <2>1
    <3> QED BY <1>2, <3>1 DEF NoByteLost
  <2>2. CASE ~(x < next_offset)
    <3>1. Covers(r, x) /\ r \in live_regions'
      BY <1>2, <1>3, <2>2 DEF Covers
    <3> QED BY <3>1
  <2> QED BY <2>1, <2>2
<1>9. ArenaTypeOK'
  <2>1. rewinding' \in BOOLEAN /\ sizes' \in SizeSets
    BY DEF ReserveAtTail, ArenaTypeOK
  <2>2. reserved_bytes' \in 0..ArenaBytes
    BY <1>2, <1>7, HandedOutBounded
  <2>3. next_offset' \in 0..ArenaBytes /\ \A p \in live_regions' : p \in Regions /\ region_end(p) <= next_offset'
    BY <1>2, <1>3, <1>4
  <2>4. free_list' \in Seq(Regions) /\ \A i \in DOMAIN free_list' : region_end(free_list'[i]) <= next_offset'
    BY <1>2, <1>4, TypeFacts
  <2> QED BY <2>1, <2>2, <2>3, <2>4 DEF ArenaTypeOK
<1>10. TailTaken'
  BY <1>2, <1>4 DEF TailTaken
<1>11. OneLength'
  BY <1>2, <1>3 DEF OneLength
<1> QED BY <1>6, <1>8, <1>9, <1>10, <1>11

\* A region or entry that ends at the bump pointer lies above all that are
\* disjoint from it: the pointer may fall to its start.
LEMMA AboveAll ==
    ASSUME NEW e \in Regions, NEW p \in Regions, Disjoint(p, e), region_end(p) <= region_end(e)
    PROVE  region_end(p) <= e.offset
BY RegionFields DEF Disjoint

\* release of the last region lowers the bump pointer.
LEMMA ReleaseLastInv ==
    ASSUME ArenaInv, NEW r \in live_regions, release(r), region_end(r) = next_offset
    PROVE  ArenaInv'
<1> USE DEF ArenaInv, ArenaTiled
<1>1. /\ live_regions' = live_regions \ {r} /\ reserved_bytes' = reserved_bytes - r.len
      /\ next_offset' = r.offset /\ free_list' = free_list /\ sizes' = sizes
  BY DEF release
<1>2. rewinding' = TRUE
  BY DEF release
<1>3. /\ r \in Regions /\ r.offset \in Nat /\ region_end(r) = r.offset + r.len /\ r.len \in Nat /\ r.len >= 1
      /\ next_offset <= ArenaBytes /\ ArenaBytes \in Nat
  BY TypeFacts, RegionFields
<1>4. /\ \A p \in live_regions' : p \in Regions /\ region_end(p) <= r.offset
      /\ \A i \in DOMAIN free_list : free_list[i] \in Regions /\ region_end(free_list[i]) <= r.offset
  <2>1. \A p \in live_regions' : p \in Regions /\ Disjoint(p, r) /\ region_end(p) <= region_end(r)
    BY <1>1, TypeFacts DEF RegionsDisjoint
  <2>2. \A i \in DOMAIN free_list : /\ free_list[i] \in Regions /\ Disjoint(free_list[i], r)
                                    /\ region_end(free_list[i]) <= region_end(r)
    BY TypeFacts DEF RegionsDisjoint, Disjoint
  <2> QED BY <1>3, <2>1, <2>2, AboveAll
<1>5. RegionsDisjoint'
  BY <1>1 DEF RegionsDisjoint, Disjoint
<1>6. reserved_bytes' = Cardinality(HandedOut)'
  BY <1>1, TakeBack DEF NoByteLost
<1>7. NoByteLost'
  <2> SUFFICES ASSUME NEW x \in 0..r.offset - 1
               PROVE  \/ \E p \in live_regions' : Covers(p, x)
                      \/ \E i \in DOMAIN free_list : Covers(free_list[i], x)
    BY <1>1, <1>6 DEF NoByteLost
  <2>1. x \in 0..next_offset - 1 /\ ~Covers(r, x)
    BY <1>3 DEF Covers
  <2> QED BY <1>1, <2>1 DEF NoByteLost
<1>8. ArenaTypeOK'
  <2>1. rewinding' \in BOOLEAN
    BY <1>2
  <2>2. sizes' \in SizeSets
    BY <1>1 DEF ArenaTypeOK
  <2>3. reserved_bytes' \in 0..ArenaBytes /\ next_offset' \in 0..ArenaBytes
    BY <1>1, <1>3, <1>6, HandedOutBounded
  <2>4. free_list' \in Seq(Regions)
    BY <1>1, TypeFacts
  <2> QED BY <1>1, <1>4, <2>1, <2>2, <2>3, <2>4 DEF ArenaTypeOK
<1>9. TailTaken' /\ OneLength'
  BY <1>1, <1>2 DEF TailTaken, OneLength
<1> QED BY <1>5, <1>7, <1>8, <1>9

\* release of any other region puts it on the free list.
LEMMA ReleaseInnerInv ==
    ASSUME ArenaInv, NEW r \in live_regions, release(r), region_end(r) # next_offset
    PROVE  ArenaInv'
<1> USE DEF ArenaInv, ArenaTiled
<1>1. /\ live_regions' = live_regions \ {r} /\ reserved_bytes' = reserved_bytes - r.len
      /\ free_list' = Append(free_list, r) /\ next_offset' = next_offset /\ sizes' = sizes
  BY DEF release
<1>2. rewinding' = rewinding
  BY DEF release
<1>3. /\ r \in Regions /\ r.offset \in Nat /\ region_end(r) \in Nat /\ region_end(r) <= next_offset
      /\ next_offset \in Nat /\ ArenaBytes \in Nat
  BY TypeFacts, RegionFields
<1>4. PICK N : N = Len(free_list) + 1
  OBVIOUS
<1>5. /\ free_list' \in Seq(Regions) /\ DOMAIN free_list' = 1..N /\ DOMAIN free_list = 1..N - 1
      /\ N \in Nat \ {0} /\ free_list'[N] = r /\ \A j \in 1..N - 1 : free_list'[j] = free_list[j]
  <2>1. free_list \in Seq(Regions)
    BY TypeFacts
  <2>2. /\ free_list' \in Seq(Regions) /\ DOMAIN free_list' = 1..Len(free_list) + 1
        /\ DOMAIN free_list = 1..Len(free_list) /\ Len(free_list) \in Nat
        /\ free_list'[Len(free_list) + 1] = r /\ \A j \in DOMAIN free_list : free_list'[j] = free_list[j]
    BY <1>1, <1>3, <2>1, AppendEntry
  <2> QED BY <1>4, <2>2
<1>6. /\ \A p \in live_regions' : p \in live_regions /\ Disjoint(p, r)
      /\ \A j \in 1..N - 1 : Disjoint(free_list[j], r)
  BY <1>1, <1>5 DEF RegionsDisjoint, Disjoint
<1>7. RegionsDisjoint'
  <2>1. \A p, q \in live_regions' : p /= q => Disjoint(p, q)
    BY <1>1 DEF RegionsDisjoint
  <2>2. \A j, k \in DOMAIN free_list' : j /= k => Disjoint(free_list'[j], free_list'[k])
    <3> SUFFICES ASSUME NEW j \in 1..N, NEW k \in 1..N, j /= k
                 PROVE  Disjoint(free_list'[j], free_list'[k])
      BY <1>5
    <3>1. CASE j = N
      BY <1>5, <1>6, <3>1 DEF Disjoint
    <3>2. CASE k = N
      BY <1>5, <1>6, <3>2
    <3>3. CASE j # N /\ k # N
      BY <1>5, <3>3 DEF RegionsDisjoint
    <3> QED BY <3>1, <3>2, <3>3
  <2>3. \A p \in live_regions' : \A j \in DOMAIN free_list' : Disjoint(p, free_list'[j])
    BY <1>1, <1>5, <1>6 DEF RegionsDisjoint
  <2> QED BY <2>1, <2>2, <2>3 DEF RegionsDisjoint
<1>8. reserved_bytes' = Cardinality(HandedOut)'
  BY <1>1, TakeBack DEF NoByteLost
<1>9. NoByteLost'
  <2> SUFFICES ASSUME NEW x \in 0..next_offset - 1
               PROVE  \/ \E p \in live_regions' : Covers(p, x)
                      \/ \E i \in DOMAIN free_list' : Covers(free_list'[i], x)
    BY <1>1, <1>8 DEF NoByteLost
  <2>1. CASE Covers(r, x)
    <3>1. N \in DOMAIN free_list' /\ Covers(free_list'[N], x)
      BY <1>5, <2>1
    <3> QED BY <3>1
  <2>2. CASE \E p \in live_regions' : Covers(p, x)
    BY <2>2
  <2>3. ASSUME NEW i \in DOMAIN free_list, Covers(free_list[i], x)
        PROVE  \E j \in DOMAIN free_list' : Covers(free_list'[j], x)
    <3>1. i \in DOMAIN free_list' /\ free_list'[i] = free_list[i]
      BY <1>5
    <3> QED BY <2>3, <3>1
  <2> QED BY <1>1, <2>1, <2>2, <2>3 DEF NoByteLost
<1>10. ArenaTypeOK'
  <2>1. rewinding' \in BOOLEAN
    BY <1>2 DEF ArenaTypeOK
  <2>2. sizes' \in SizeSets /\ next_offset' \in 0..ArenaBytes /\ live_regions' \subseteq Regions
    BY <1>1 DEF ArenaTypeOK
  <2>3. reserved_bytes' \in 0..ArenaBytes
    BY <1>3, <1>8, HandedOutBounded
  <2>4. /\ \A p \in live_regions' : region_end(p) <= next_offset'
        /\ \A j \in DOMAIN free_list' : region_end(free_list'[j]) <= next_offset'
    BY <1>1, <1>3, <1>5, TypeFacts
  <2> QED BY <1>5, <2>1, <2>2, <2>3, <2>4 DEF ArenaTypeOK
<1>11. TailTaken'
  BY <1>1, <1>2, <1>5 DEF TailTaken
<1>12. OneLength'
  BY <1>1, <1>5 DEF OneLength
<1> QED BY <1>7, <1>9, <1>10, <1>11, <1>12

\* One turn of host_arena_rewind_tail takes the entry behind the bump pointer
\* off the free list.
LEMMA RewindOneInv ==
    ASSUME ArenaInv, rewinding, UNCHANGED <<sizes, live_regions, reserved_bytes, rewinding>>,
           NEW i \in DOMAIN free_list, AtTail(i), free_list' = swap_remove(free_list, i),
           next_offset' = free_list[i].offset
    PROVE  ArenaInv'
<1> USE DEF ArenaInv, ArenaTiled
<1>1. PICK e, N : e = free_list[i] /\ N = Len(free_list)
  OBVIOUS
<1>2. N \in Nat /\ DOMAIN free_list = 1..N /\ i \in 1..N /\ free_list \in Seq(Regions)
  BY <1>1, TypeFacts
<1>3. /\ e \in Regions /\ e.offset \in Nat /\ region_end(e) = next_offset /\ region_end(e) = e.offset + e.len
      /\ e.len \in Nat /\ e.len >= 1 /\ next_offset <= ArenaBytes /\ ArenaBytes \in Nat
      /\ next_offset' = e.offset
  BY <1>1, TypeFacts, RegionFields DEF AtTail
<1>4. /\ free_list' \in Seq(Regions) /\ DOMAIN free_list' = 1..N - 1
      /\ \A j \in 1..N - 1 : free_list'[j] = free_list[IF j = i THEN N ELSE j]
      /\ \A k \in 1..N : k # i => \E j \in 1..N - 1 : free_list'[j] = free_list[k]
  <2>1. /\ free_list' \in Seq(Regions) /\ DOMAIN free_list' = 1..Len(free_list) - 1
        /\ \A j \in DOMAIN free_list' : free_list'[j] = free_list[IF j = i THEN Len(free_list) ELSE j]
        /\ \A k \in DOMAIN free_list : k # i => \E j \in DOMAIN free_list' : free_list'[j] = free_list[k]
    <3>1. PICK t : t = free_list'
      OBVIOUS
    <3>2. free_list \in Seq(Regions) /\ t = swap_remove(free_list, i)
      BY <1>2, <3>1
    <3>3. /\ t \in Seq(Regions) /\ DOMAIN t = 1..Len(free_list) - 1
          /\ \A j \in DOMAIN t : t[j] = free_list[IF j = i THEN Len(free_list) ELSE j]
          /\ \A k \in DOMAIN free_list : k # i => \E j \in DOMAIN t : t[j] = free_list[k]
      BY <3>2, SwapRemove
    <3> QED BY <3>1, <3>3
  <2> QED BY <1>1, <1>2, <2>1
<1>5. \A j \in 1..N - 1 : (IF j = i THEN N ELSE j) \in 1..N \ {i}
  BY <1>2
<1>6. /\ \A p \in live_regions : p \in Regions /\ region_end(p) <= e.offset
      /\ \A k \in 1..N : k # i => free_list[k] \in Regions /\ region_end(free_list[k]) <= e.offset
  <2>1. \A p \in live_regions : p \in Regions /\ Disjoint(p, e) /\ region_end(p) <= region_end(e)
    BY <1>1, <1>3, TypeFacts DEF RegionsDisjoint
  <2>2. \A k \in 1..N : k # i => /\ free_list[k] \in Regions /\ Disjoint(free_list[k], e)
                                 /\ region_end(free_list[k]) <= region_end(e)
    BY <1>1, <1>2, <1>3, TypeFacts DEF RegionsDisjoint
  <2> QED BY <1>3, <2>1, <2>2, AboveAll
<1>7. RegionsDisjoint'
  <2>1. \A j, k \in DOMAIN free_list' : j /= k => Disjoint(free_list'[j], free_list'[k])
    <3> SUFFICES ASSUME NEW j \in 1..N - 1, NEW k \in 1..N - 1, j /= k
                 PROVE  Disjoint(free_list'[j], free_list'[k])
      BY <1>4
    <3>1. (IF j = i THEN N ELSE j) # (IF k = i THEN N ELSE k)
      BY <1>2
    <3> QED BY <1>2, <1>4, <1>5, <3>1 DEF RegionsDisjoint
  <2>2. \A p \in live_regions' : \A j \in DOMAIN free_list' : Disjoint(p, free_list'[j])
    BY <1>2, <1>4, <1>5 DEF RegionsDisjoint
  <2> QED BY <2>1, <2>2 DEF RegionsDisjoint
<1>8. HandedOut' = HandedOut
  BY DEF HandedOut
<1>9. NoByteLost'
  <2> SUFFICES ASSUME NEW x \in 0..e.offset - 1
               PROVE  \/ \E p \in live_regions : Covers(p, x)
                      \/ \E j \in DOMAIN free_list' : Covers(free_list'[j], x)
    BY <1>3, <1>8 DEF NoByteLost
  <2>1. x \in 0..next_offset - 1 /\ ~Covers(e, x)
    BY <1>3 DEF Covers
  <2>2. ASSUME NEW k \in 1..N, Covers(free_list[k], x)
        PROVE  \E j \in DOMAIN free_list' : Covers(free_list'[j], x)
    <3>1. k # i
      BY <1>1, <2>1, <2>2
    <3> QED BY <1>4, <2>2, <3>1
  <2> QED BY <1>2, <2>1, <2>2 DEF NoByteLost
<1>10. ArenaTypeOK'
  <2>1. rewinding' \in BOOLEAN
    BY DEF ArenaTypeOK
  <2>2. sizes' \in SizeSets /\ live_regions' \subseteq Regions /\ reserved_bytes' \in 0..ArenaBytes
    BY DEF ArenaTypeOK
  <2>3. next_offset' \in 0..ArenaBytes /\ \A p \in live_regions' : region_end(p) <= next_offset'
    BY <1>3, <1>6
  <2>4. \A j \in DOMAIN free_list' : region_end(free_list'[j]) <= next_offset'
    BY <1>3, <1>4, <1>5, <1>6
  <2> QED BY <1>4, <2>1, <2>2, <2>3, <2>4 DEF ArenaTypeOK
<1>11. TailTaken'
  BY DEF TailTaken
<1>12. OneLength'
  BY <1>2, <1>4, <1>5 DEF OneLength
<1> QED BY <1>7, <1>9, <1>10, <1>11, <1>12

\* The rewind ends when no free entry is left behind the bump pointer.
LEMMA RewindInv ==
    ASSUME ArenaInv, host_arena_rewind_tail
    PROVE  ArenaInv'
<1>1. CASE \E i \in DOMAIN free_list :
             /\ AtTail(i)
             /\ free_list' = swap_remove(free_list, i)
             /\ next_offset' = free_list[i].offset
             /\ UNCHANGED rewinding
  BY <1>1, RewindOneInv DEF host_arena_rewind_tail
<1>2. CASE /\ \A i \in DOMAIN free_list : region_end(free_list[i]) /= next_offset
           /\ rewinding' = FALSE
           /\ UNCHANGED <<free_list, next_offset>>
  <2> USE <1>2 DEF ArenaInv, ArenaTiled, host_arena_rewind_tail
  <2>1. rewinding' \in BOOLEAN
    OBVIOUS
  <2>2. ArenaTypeOK'
    BY <2>1 DEF ArenaTypeOK
  <2>3. RegionsDisjoint' /\ NoByteLost'
    BY DEF RegionsDisjoint, NoByteLost, HandedOut
  <2>4. TailTaken' /\ OneLength'
    BY DEF TailTaken, OneLength
  <2> QED BY <2>2, <2>3, <2>4
<1> QED BY <1>1, <1>2 DEF host_arena_rewind_tail

\* reset makes the pool whole.
LEMMA ResetInv ==
    ASSUME ArenaInv, reset
    PROVE  ArenaInv'
<1> USE DEF ArenaInv, ArenaTiled
<1>1. /\ live_regions' = {} /\ free_list' = << >> /\ next_offset' = 0 /\ reserved_bytes' = 0
      /\ sizes' = sizes
  BY DEF reset
<1>2. rewinding' \in BOOLEAN
  BY DEF reset, ArenaTypeOK
<1>3. HandedOut' = {}
  BY <1>1 DEF HandedOut
<1>4. Cardinality(HandedOut)' = 0
  BY <1>3, FS_EmptySet
<1>5. 0 \in 0..ArenaBytes
  BY ArenaAssumption
<1>6. ArenaTypeOK'
  BY <1>1, <1>2, <1>5 DEF ArenaTypeOK
<1>7. RegionsDisjoint' /\ NoByteLost'
  BY <1>1, <1>4 DEF RegionsDisjoint, NoByteLost
<1>8. TailTaken' /\ OneLength'
  BY <1>1 DEF TailTaken, OneLength
<1> QED BY <1>6, <1>7, <1>8

\* Every call of the pool keeps the invariant.
LEMMA NextArenaInv == ArenaInv /\ [ArenaNext]_arenaVars => ArenaInv'
<1> SUFFICES ASSUME ArenaInv, [ArenaNext]_arenaVars PROVE ArenaInv'
  OBVIOUS
<1>1. CASE \E len \in sizes : ReserveFromFreeList(len) \/ ReserveAtTail(len)
  BY <1>1, ReserveFromFreeListInv, ReserveAtTailInv
<1>2. CASE \E r \in live_regions : release(r)
  BY <1>2, ReleaseLastInv, ReleaseInnerInv
<1>3. CASE host_arena_rewind_tail
  BY <1>3, RewindInv
<1>4. CASE reset
  BY <1>4, ResetInv
<1>5. CASE UNCHANGED arenaVars
  <2> USE <1>5 DEF arenaVars, ArenaInv, ArenaTiled
  <2>1. ArenaTypeOK'
    BY DEF ArenaTypeOK
  <2>2. RegionsDisjoint' /\ NoByteLost'
    BY DEF RegionsDisjoint, NoByteLost, HandedOut
  <2>3. TailTaken' /\ OneLength'
    BY DEF TailTaken, OneLength
  <2> QED BY <2>1, <2>2, <2>3
<1> QED BY <1>1, <1>2, <1>3, <1>4, <1>5 DEF ArenaNext

\* ArenaInv holds in every state of the pool.
LEMMA ArenaInvAlways == ArenaSpec => []ArenaInv
BY InitArenaInv, NextArenaInv, PTL DEF ArenaSpec

------------------------------------------------------------------------------
\* A drained pool is whole: the last byte below the bump pointer would belong to
\* a free entry that ends there.
LEMMA DrainedIsWhole == ArenaInv => DrainedArenaWhole
<1> SUFFICES ASSUME ArenaInv, ~rewinding, live_regions = {}
             PROVE  next_offset = 0 /\ free_list = << >>
  BY DEF DrainedArenaWhole
<1> USE DEF ArenaInv, ArenaTiled
<1>1. /\ next_offset \in Nat /\ free_list \in Seq(Regions)
      /\ \A i \in DOMAIN free_list : /\ free_list[i].offset \in Nat /\ free_list[i].len >= 1
                                     /\ region_end(free_list[i]) \in Nat
                                     /\ region_end(free_list[i]) = free_list[i].offset + free_list[i].len
                                     /\ region_end(free_list[i]) <= next_offset
                                     /\ region_end(free_list[i]) # next_offset
                                     /\ free_list[i].len \in Nat
  BY TypeFacts, RegionFields DEF TailTaken
<1>2. next_offset = 0
  <2> SUFFICES ASSUME next_offset # 0 PROVE FALSE
    OBVIOUS
  <2>1. next_offset - 1 \in 0..next_offset - 1
    BY <1>1
  <2>2. PICK i \in DOMAIN free_list : Covers(free_list[i], next_offset - 1)
    BY <2>1 DEF NoByteLost
  <2> QED BY <1>1, <2>2 DEF Covers
<1>3. DOMAIN free_list = {}
  BY <1>1, <1>2
<1>4. free_list = << >>
  BY <1>1, <1>3
<1> QED BY <1>2, <1>4

\* A pool of equal blocks without a fit has an empty free list, so what is
\* handed out is everything below the bump pointer.
LEMMA OneSizeFits == ArenaInv => OneSizeNeverFragments
<1> SUFFICES ASSUME ArenaInv, NEW len \in sizes, sizes = {len},
                    reserved_bytes + len <= ArenaBytes, ~Fits(len)
             PROVE  next_offset + len <= ArenaBytes
  BY DEF OneSizeNeverFragments
<1> USE DEF ArenaInv, ArenaTiled
<1>1. len \in Nat /\ next_offset \in Nat /\ next_offset <= ArenaBytes /\ ArenaBytes \in Nat
  BY TypeFacts
<1>2. DOMAIN free_list = {}
  <2> SUFFICES ASSUME NEW i \in DOMAIN free_list PROVE FALSE
    OBVIOUS
  <2>1. free_list[i].len = len
    BY DEF OneLength
  <2> QED BY <1>1, <2>1 DEF Fits
<1>3. \A r \in live_regions : region_end(r) <= next_offset /\ region_end(r) \in Nat /\ r.offset \in Nat
  BY TypeFacts, RegionFields
<1>4. HandedOut = 0..next_offset - 1
  <2>1. \A x \in 0..next_offset - 1 : \E r \in live_regions : Covers(r, x)
    BY <1>2 DEF NoByteLost
  <2>2. 0..next_offset - 1 \subseteq HandedOut
    BY <1>1, <2>1 DEF HandedOut
  <2>3. HandedOut \subseteq 0..next_offset - 1
    BY <1>1, <1>3 DEF HandedOut, Covers
  <2> QED BY <2>2, <2>3
<1>5. Cardinality(0..next_offset - 1) = next_offset
  BY <1>1, FS_Interval
<1>6. Cardinality(HandedOut) = Cardinality(0..next_offset - 1)
  BY <1>4, Zenon
<1>7. reserved_bytes = next_offset
  BY <1>5, <1>6 DEF NoByteLost
<1> QED BY <1>1, <1>7

\* Through every order of reserve, carve, release, swap_remove, rewind and reset
\* no byte of the host tier belongs to two blocks and none is lost, and
\* reserved_bytes counts what is handed out (host_pool.rs, lib.rs of
\* kv-native-sys).
THEOREM ArenaStaysTiled == ArenaSpec => []ArenaTiled
BY ArenaInvAlways, PTL DEF ArenaInv

\* What release gives back can be reserved again, although neighbours are never
\* merged: a drained pool is whole, and a pool of equal blocks serves every
\* request that reserved_bytes leaves room for.
THEOREM ReleasedSpaceReusable == ArenaSpec => []SpaceComesBack
<1>1. ArenaInv => SpaceComesBack
  BY DrainedIsWhole, OneSizeFits DEF SpaceComesBack
<1> QED BY <1>1, ArenaInvAlways, PTL

------------------------------------------------------------------------------
(* Block files *)

Dirs == [root : BOOLEAN, tmp : 0..MaxInodes, kv : 0..MaxInodes]
Kept == mayKeep \cup {dir}
Staging == {"write", "sync", "rename"}

\* The variables have their types, and a put that has opened the staging file
\* holds an inode.
DiskTypeOK ==
    /\ tier \in {"disk", "shared"} /\ dir \in Dirs /\ mayKeep \in SUBSET Dirs
    /\ content \in [Inodes -> {"empty", "whole", "torn"}]
    /\ synced \in [Inodes -> {"empty", "whole", "torn"}]
    /\ pc \in [Nodes -> {"idle", "open", "sync dir"} \cup Staging]
    /\ fd \in [Nodes -> 0..MaxInodes]
    /\ \A n \in Nodes : pc[n] \in Staging => fd[n] \in Inodes
    /\ \A n \in Nodes : pc[n] = "sync dir" => tier = "shared"

\* No inode has both names, and the staging file never was the canonical one in
\* a directory that a crash may leave.
NamesApart ==
    /\ \A d \in Kept : d.tmp /= 0 => d.tmp /= d.kv
    /\ dir.tmp /= 0 => \A d \in Kept : d.kv /= dir.tmp

\* As long as no two puts have shared it, the staging file belongs to one put,
\* which has written all of it before it renames it, and synced it if it must.
OneStager ==
    ~overlap => \A n \in Nodes : pc[n] \in Staging =>
        /\ \A m \in Nodes : pc[m] \in Staging => m = n
        /\ dir.tmp \in {0, fd[n]}
        /\ \A d \in Kept : d.kv /= fd[n]
        /\ pc[n] /= "write" => content[fd[n]] = "whole"
        /\ pc[n] = "rename" /\ fsync_each_block => synced[fd[n]] = "whole"

\* Every canonical file that the directory has, or that a crash may bring back,
\* is whole, and on the medium if puts sync.
AllCanonicalWhole ==
    ~overlap /\ (crashed => fsync_each_block) => \A d \in Kept : d.kv /= 0 =>
        content[d.kv] = "whole" /\ (fsync_each_block => synced[d.kv] = "whole")

\* After an acknowledgement every directory a crash may leave has the block.
PromiseKept ==
    /\ stored /= {} => dir.kv /= 0
    /\ promised => ~overlap /\ fsync_each_block /\ \A d \in Kept : d.kv /= 0

\* The inductive invariant.
DiskInv == DiskTypeOK /\ NamesApart /\ OneStager /\ AllCanonicalWhole /\ PromiseKept

------------------------------------------------------------------------------
(* The inductive invariant *)

\* A change of the directory adds to what a crash may leave.
LEMMA SetDirKept ==
    ASSUME NEW d \in Dirs, SetDir(d), mayKeep \in SUBSET Dirs, dir \in Dirs
    PROVE  dir' = d /\ Kept' = Kept \cup {d} /\ mayKeep' \in SUBSET Dirs
BY DEF SetDir, Kept

\* No inode is the number 0.
LEMMA ZeroIsNoInode == 0 \in 0..MaxInodes /\ 0 \notin Inodes /\ Inodes \subseteq 0..MaxInodes
BY DiskAssumption DEF Inodes

\* A name that is present leads to an inode.
LEMMA NamesInodes ==
    ASSUME DiskTypeOK
    PROVE  /\ dir \in Kept
           /\ \A d \in Kept : /\ d \in Dirs
                              /\ d.tmp /= 0 => d.tmp \in Inodes
                              /\ d.kv /= 0 => d.kv \in Inodes
<1>1. \A d \in Kept : d \in Dirs
  BY DEF DiskTypeOK, Kept
<1>2. \A i \in 0..MaxInodes : i /= 0 => i \in Inodes
  BY DiskAssumption DEF Inodes
<1>3. \A d \in Dirs : d.tmp \in 0..MaxInodes /\ d.kv \in 0..MaxInodes
  BY DEF Dirs
<1> QED BY <1>1, <1>2, <1>3 DEF Kept

\* The same for one directory.
LEMMA KvInode ==
    ASSUME DiskTypeOK, NEW d \in Kept, d.kv /= 0
    PROVE  d.kv \in Inodes
<1>1. d \in Dirs
  BY DEF DiskTypeOK, Kept
<1> QED BY <1>1, DiskAssumption DEF Dirs, Inodes

\* The same for the staging file.
LEMMA TmpInode ==
    ASSUME DiskTypeOK, dir.tmp /= 0
    PROVE  dir.tmp \in Inodes
<1>1. dir \in Dirs
  BY DEF DiskTypeOK
<1> QED BY <1>1, DiskAssumption DEF Dirs, Inodes

\* A put that ends closes its file; the others stay where they are.
LEMMA DoneKeeps ==
    ASSUME DiskTypeOK, NEW n \in Nodes, Done(n)
    PROVE  /\ pc' \in [Nodes -> {"idle", "open", "sync dir"} \cup Staging]
           /\ fd' \in [Nodes -> 0..MaxInodes] /\ pc'[n] = "idle"
           /\ \A m \in Nodes : m # n => pc'[m] = pc[m] /\ fd'[m] = fd[m]
BY ZeroIsNoInode DEF Done, Go, DiskTypeOK

\* The directory without the staging name.
LEMMA WithoutTmp ==
    ASSUME NEW e \in Dirs, NEW d, d = [e EXCEPT !.tmp = 0] \/ d = [e EXCEPT !.root = TRUE, !.tmp = 0]
    PROVE  d \in Dirs /\ d.kv = e.kv /\ d.tmp = 0
<1>1. e.kv \in 0..MaxInodes /\ e.root \in BOOLEAN
  BY DEF Dirs
<1>2. DOMAIN d = {"root", "tmp", "kv"} /\ d.tmp = 0 /\ d.kv = e.kv
  BY DEF Dirs
<1>3. d.root \in BOOLEAN
  BY <1>1 DEF Dirs
<1> QED BY ZeroIsNoInode, <1>1, <1>2, <1>3 DEF Dirs

\* Nothing is stored at first.
LEMMA InitDiskInv == DiskInit => DiskInv
<1> SUFFICES ASSUME DiskInit PROVE DiskInv
  OBVIOUS
<1>1. DiskTypeOK
  BY DiskAssumption DEF DiskInit, DiskTypeOK, Dirs, Inodes, Staging
<1>2. NamesApart
  BY DEF DiskInit, NamesApart, Kept
<1>3. OneStager
  BY DEF DiskInit, OneStager, Staging
<1>4. AllCanonicalWhole
  BY DEF DiskInit, AllCanonicalWhole, Kept
<1>5. PromiseKept
  BY DEF DiskInit, PromiseKept
<1> QED BY <1>1, <1>2, <1>3, <1>4, <1>5 DEF DiskInv

\* A step that leaves the files alone and the canonical name in place, and keeps
\* or removes the staging name, while no put becomes a stager, is harmless.
LEMMA DirStep ==
    ASSUME DiskInv, NEW d \in Dirs, SetDir(d), d.kv = dir.kv, d.tmp \in {0, dir.tmp},
           UNCHANGED <<tier, content, synced, stored, promised, overlap, crashed>>,
           pc' \in [Nodes -> {"idle", "open", "sync dir"} \cup Staging],
           fd' \in [Nodes -> 0..MaxInodes],
           \A n \in Nodes : pc'[n] \in Staging \cup {"sync dir"} => pc'[n] = pc[n] /\ fd'[n] = fd[n]
    PROVE  DiskInv'
<1> USE DEF DiskInv
<1>1. dir' = d /\ Kept' = Kept \cup {d} /\ mayKeep' \in SUBSET Dirs
  BY SetDirKept DEF DiskTypeOK
<1>2. dir \in Kept
  BY DEF Kept
<1>3. DiskTypeOK'
  BY <1>1 DEF DiskTypeOK, Inodes
<1>4. NamesApart'
  BY <1>1, <1>2 DEF NamesApart
<1>5. OneStager'
  <2> SUFFICES ASSUME ~overlap, NEW n \in Nodes, pc'[n] \in Staging
               PROVE  /\ \A m \in Nodes : pc'[m] \in Staging => m = n
                      /\ dir'.tmp \in {0, fd'[n]}
                      /\ \A x \in Kept' : x.kv /= fd'[n]
                      /\ pc'[n] /= "write" => content[fd'[n]] = "whole"
                      /\ pc'[n] = "rename" /\ fsync_each_block => synced[fd'[n]] = "whole"
    BY DEF OneStager, fsync_each_block
  <2>1. pc'[n] = pc[n] /\ fd'[n] = fd[n] /\ \A m \in Nodes : pc'[m] \in Staging => pc[m] \in Staging
    OBVIOUS
  <2>2. /\ \A m \in Nodes : pc[m] \in Staging => m = n
        /\ dir.tmp \in {0, fd[n]} /\ \A x \in Kept : x.kv /= fd[n]
        /\ pc[n] /= "write" => content[fd[n]] = "whole"
        /\ pc[n] = "rename" /\ fsync_each_block => synced[fd[n]] = "whole"
    BY <2>1 DEF OneStager
  <2>3. \A m \in Nodes : pc'[m] \in Staging => m = n
    BY <2>1, <2>2
  <2>4. dir'.tmp \in {0, fd'[n]} /\ \A x \in Kept' : x.kv /= fd'[n]
    BY <1>1, <1>2, <2>1, <2>2
  <2> QED BY <2>1, <2>2, <2>3, <2>4
<1>6. AllCanonicalWhole'
  BY <1>1, <1>2 DEF AllCanonicalWhole, fsync_each_block
<1>7. PromiseKept'
  BY <1>1, <1>2 DEF PromiseKept, fsync_each_block
<1> QED BY <1>3, <1>4, <1>5, <1>6, <1>7

\* put_block creates the root and starts.
LEMMA PutBlockInv ==
    ASSUME DiskInv, NEW n \in Nodes, put_block(n)
    PROVE  DiskInv'
<1> USE DEF DiskInv
<1>1. PICK d : d = [dir EXCEPT !.root = @ \/ ~root_created[n]]
  OBVIOUS
<1>2. d \in Dirs /\ d.kv = dir.kv /\ d.tmp = dir.tmp
  BY <1>1 DEF DiskTypeOK, Dirs
<1>3. SetDir(d)
  BY <1>1 DEF put_block
<1>4. /\ pc' \in [Nodes -> {"idle", "open", "sync dir"} \cup Staging]
      /\ \A m \in Nodes : pc'[m] \in Staging \cup {"sync dir"} => pc'[m] = pc[m]
  BY DEF put_block, Go, DiskTypeOK, Staging
<1> QED BY <1>2, <1>3, <1>4, DirStep DEF put_block, DiskTypeOK

\* A missing root or staging file leads to one retry, or to the end of the put.
LEMMA NotFoundInv ==
    ASSUME DiskInv, NEW n \in Nodes, not_found(n)
    PROVE  DiskInv'
<1> USE DEF DiskInv
<1>1. /\ pc' \in [Nodes -> {"idle", "open", "sync dir"} \cup Staging]
      /\ fd' \in [Nodes -> 0..MaxInodes]
      /\ \A m \in Nodes : pc'[m] \in Staging \cup {"sync dir"} => pc'[m] = pc[m] /\ fd'[m] = fd[m]
  <2>1. CASE Done(n)
    BY <2>1, DoneKeeps DEF Staging
  <2>2. CASE Go(n, "open") /\ fd' = [fd EXCEPT ![n] = 0]
    BY <2>2, ZeroIsNoInode DEF Go, DiskTypeOK, Staging
  <2> QED BY <2>1, <2>2 DEF not_found
<1>2. CASE tries[n] = 0
  <2>1. PICK d : d = [dir EXCEPT !.root = TRUE, !.tmp = 0]
    OBVIOUS
  <2>2. d \in Dirs /\ d.kv = dir.kv /\ d.tmp = 0
    BY <2>1, WithoutTmp DEF DiskTypeOK
  <2>3. SetDir(d)
    BY <1>2, <2>1 DEF not_found
  <2> QED BY <1>1, <2>2, <2>3, DirStep DEF not_found
<1>3. CASE tries[n] # 0
  <2>1. PICK d : d = [dir EXCEPT !.tmp = 0]
    OBVIOUS
  <2>2. d \in Dirs /\ d.kv = dir.kv /\ d.tmp = 0
    BY <2>1, WithoutTmp DEF DiskTypeOK
  <2>3. SetDir(d)
    BY <1>3, <2>1 DEF not_found, RemoveTmp
  <2> QED BY <1>1, <2>2, <2>3, DirStep DEF not_found
<1> QED BY <1>2, <1>3

\* A killed process leaves its staging file behind.
LEMMA KillInv ==
    ASSUME DiskInv, NEW n \in Nodes, Kill(n)
    PROVE  DiskInv'
<1>1. /\ pc' \in [Nodes -> {"idle", "open", "sync dir"} \cup Staging]
      /\ fd' \in [Nodes -> 0..MaxInodes]
      /\ \A m \in Nodes : pc'[m] \in Staging \cup {"sync dir"} => pc'[m] = pc[m] /\ fd'[m] = fd[m]
  BY DoneKeeps DEF Kill, Staging, DiskInv
<1>2. dir \in Dirs /\ SetDir(dir)
  BY DEF DiskInv, DiskTypeOK, Kill, SetDir
<1> QED BY <1>1, <1>2, DirStep DEF Kill

\* open with create and truncate: the staging file is empty, and no canonical
\* file is touched.
LEMMA OpenTmpInv ==
    ASSUME DiskInv, NEW n \in Nodes, open_tmp(n)
    PROVE  DiskInv'
<1> USE DEF DiskInv
<1>1. PICK i : i = IF dir.tmp /= 0 THEN dir.tmp ELSE NewInode
  OBVIOUS
<1>2. /\ fd' = [fd EXCEPT ![n] = i] /\ SetDir([dir EXCEPT !.tmp = i])
      /\ content' = [content EXCEPT ![i] = "empty"]
      /\ synced' = IF dir.tmp = i THEN synced ELSE [synced EXCEPT ![i] = "empty"]
      /\ pc' = [pc EXCEPT ![n] = "write"] /\ tier' = tier /\ stored' = stored
  BY <1>1 DEF open_tmp, Go
<1>3. ~overlap' => ~overlap /\ \A m \in Nodes : m # n => pc[m] \notin Staging
  BY DEF open_tmp, Staging
<1>4. promised' => promised /\ ~overlap'
  BY DEF open_tmp
<1>5. i \in Inodes /\ \A d \in Kept : d.kv /= i
  <2>1. CASE dir.tmp /= 0
    BY <1>1, <2>1, TmpInode DEF NamesApart
  <2>2. CASE dir.tmp = 0
    <3>1. \E j \in Inodes : j \notin Used
      BY <2>2 DEF open_tmp
    <3>2. i \in Inodes /\ i \notin Used
      BY <1>1, <2>2, <3>1 DEF NewInode
    <3> QED BY <3>2 DEF Used, Kept
  <2> QED BY <2>1, <2>2
<1>6. PICK d : d = [dir EXCEPT !.tmp = i]
  OBVIOUS
<1>7. d \in Dirs /\ d.kv = dir.kv /\ d.tmp = i
  BY <1>5, <1>6, ZeroIsNoInode DEF DiskTypeOK, Dirs
<1>8. dir' = d /\ Kept' = Kept \cup {d} /\ mayKeep' \in SUBSET Dirs
  BY <1>2, <1>6, <1>7, SetDirKept DEF DiskTypeOK
<1>9. dir \in Kept /\ i # 0
  BY <1>5, ZeroIsNoInode DEF Kept
<1>10. \A x \in Kept' : x.kv /= i
  BY <1>5, <1>7, <1>8, <1>9
<1>11. DiskTypeOK'
  <2>1. content' \in [Inodes -> {"empty", "whole", "torn"}] /\ synced' \in [Inodes -> {"empty", "whole", "torn"}]
    BY <1>2, <1>5 DEF DiskTypeOK
  <2>2. /\ pc' \in [Nodes -> {"idle", "open", "sync dir"} \cup Staging] /\ fd' \in [Nodes -> 0..MaxInodes]
        /\ fd'[n] = i /\ \A m \in Nodes : m # n => fd'[m] = fd[m] /\ pc'[m] = pc[m]
        /\ pc'[n] = "write"
    BY <1>2, <1>5, ZeroIsNoInode DEF DiskTypeOK, Staging
  <2>3. \A m \in Nodes : pc'[m] \in Staging => fd'[m] \in Inodes
    BY <1>5, <2>2 DEF DiskTypeOK
  <2>4. \A m \in Nodes : pc'[m] = "sync dir" => tier = "shared"
    BY <2>2 DEF DiskTypeOK
  <2> QED BY <1>2, <1>7, <1>8, <2>1, <2>2, <2>3, <2>4 DEF DiskTypeOK
<1>12. NamesApart'
  BY <1>7, <1>8, <1>9, <1>10 DEF NamesApart
<1>13. OneStager'
  <2> SUFFICES ASSUME ~overlap', NEW k \in Nodes, pc'[k] \in Staging
               PROVE  k = n /\ dir'.tmp \in {0, fd'[n]} /\ (\A x \in Kept' : x.kv /= fd'[n]) /\ pc'[n] = "write"
    BY DEF OneStager
  <2>1. k = n
    BY <1>2, <1>3 DEF DiskTypeOK
  <2> QED BY <1>2, <1>7, <1>8, <1>10, <2>1 DEF DiskTypeOK
<1>14. AllCanonicalWhole'
  <2> SUFFICES ASSUME ~overlap', crashed' => tier = "shared", NEW x \in Kept', x.kv /= 0
               PROVE  content'[x.kv] = "whole" /\ (tier = "shared" => synced'[x.kv] = "whole")
    BY <1>2 DEF AllCanonicalWhole, fsync_each_block
  <2>1. PICK y \in Kept : y.kv = x.kv
    BY <1>7, <1>8, <1>9
  <2>2. content[x.kv] = "whole" /\ (tier = "shared" => synced[x.kv] = "whole")
    <3>1. crashed' = crashed
      BY DEF open_tmp
    <3> QED BY <1>3, <2>1, <3>1 DEF AllCanonicalWhole, fsync_each_block
  <2>3. x.kv # i /\ x.kv \in Inodes
    BY <1>10, <2>1, KvInode
  <2> QED BY <1>2, <2>2, <2>3 DEF DiskTypeOK
<1>15. PromiseKept'
  BY <1>2, <1>4, <1>7, <1>8, <1>9 DEF PromiseKept, fsync_each_block
<1> QED BY <1>11, <1>12, <1>13, <1>14, <1>15

\* The write lands in the staging file.
LEMMA WriteAllInv ==
    ASSUME DiskInv, NEW n \in Nodes, write_all(n)
    PROVE  DiskInv'
<1> USE DEF DiskInv
<1>1. PICK i : i = fd[n]
  OBVIOUS
<1>2. /\ content' = [content EXCEPT ![i] = "whole"] /\ synced' = synced /\ tier' = tier /\ fd' = fd
      /\ Kept' = Kept /\ dir' = dir /\ mayKeep' = mayKeep /\ stored' = stored
      /\ pc' = [pc EXCEPT ![n] = IF tier = "shared" THEN "sync" ELSE "rename"]
  BY <1>1 DEF write_all, Go, fsync_each_block, Kept
<1>3. overlap' = overlap /\ crashed' = crashed /\ promised' = promised
  BY DEF write_all
<1>4. pc[n] \in Staging /\ i \in Inodes
  BY <1>1 DEF write_all, Staging, DiskTypeOK
<1>5. /\ pc' \in [Nodes -> {"idle", "open", "sync dir"} \cup Staging]
      /\ pc'[n] = (IF tier = "shared" THEN "sync" ELSE "rename")
      /\ \A m \in Nodes : m # n => pc'[m] = pc[m]
  BY <1>2 DEF DiskTypeOK, Staging
<1>6. \A m \in Nodes : (pc'[m] \in Staging <=> pc[m] \in Staging) /\ (pc'[m] = "sync dir" => pc[m] = "sync dir")
  BY <1>4, <1>5 DEF Staging
<1>7. content' \in [Inodes -> {"empty", "whole", "torn"}] /\ content'[i] = "whole"
      /\ \A j \in Inodes : content[j] = "whole" => content'[j] = "whole"
  BY <1>2, <1>4 DEF DiskTypeOK
<1>8. DiskTypeOK'
  BY <1>2, <1>5, <1>6, <1>7 DEF DiskTypeOK
<1>9. NamesApart'
  BY <1>2 DEF NamesApart
<1>10. OneStager'
  <2> SUFFICES ASSUME ~overlap, NEW k \in Nodes, pc'[k] \in Staging
               PROVE  /\ k = n /\ dir.tmp \in {0, fd[n]} /\ (\A x \in Kept : x.kv /= fd[n])
                      /\ content'[fd[n]] = "whole" /\ ~(pc'[n] = "rename" /\ tier = "shared")
                      /\ \A m \in Nodes : pc'[m] \in Staging => m = n
    BY <1>2, <1>3 DEF OneStager, fsync_each_block
  <2>1. \A m \in Nodes : pc'[m] \in Staging => m = n
    BY <1>4, <1>6 DEF OneStager
  <2>2. dir.tmp \in {0, fd[n]} /\ (\A x \in Kept : x.kv /= fd[n])
    BY <1>4 DEF OneStager
  <2> QED BY <1>1, <1>5, <1>7, <2>1, <2>2
<1>11. AllCanonicalWhole'
  BY <1>2, <1>3, <1>7, NamesInodes DEF AllCanonicalWhole, fsync_each_block
<1>12. PromiseKept'
  BY <1>2, <1>3 DEF PromiseKept, fsync_each_block
<1> QED BY <1>8, <1>9, <1>10, <1>11, <1>12

\* A failed write leaves a torn staging file, and its name is removed.
LEMMA WriteFailsInv ==
    ASSUME DiskInv, NEW n \in Nodes, write_fails(n)
    PROVE  DiskInv'
<1> USE DEF DiskInv
<1>1. PICK i, d : i = fd[n] /\ d = [dir EXCEPT !.tmp = 0]
  OBVIOUS
<1>2. d \in Dirs /\ d.kv = dir.kv /\ d.tmp = 0
  BY <1>1, WithoutTmp DEF DiskTypeOK
<1>3. dir' = d /\ Kept' = Kept \cup {d} /\ mayKeep' \in SUBSET Dirs
  BY <1>1, <1>2, SetDirKept DEF DiskTypeOK, write_fails, RemoveTmp
<1>4. /\ content' = [content EXCEPT ![i] = "torn"] /\ synced' = synced /\ tier' = tier /\ stored' = stored
  BY <1>1 DEF write_fails
<1>5. overlap' = overlap /\ crashed' = crashed /\ promised' = promised
  BY DEF write_fails
<1>6. /\ pc' \in [Nodes -> {"idle", "open", "sync dir"} \cup Staging]
      /\ fd' \in [Nodes -> 0..MaxInodes] /\ pc'[n] = "idle"
      /\ \A m \in Nodes : m # n => pc'[m] = pc[m] /\ fd'[m] = fd[m]
  BY DoneKeeps DEF write_fails
<1>7. pc[n] \in Staging /\ i \in Inodes
  BY <1>1 DEF write_fails, Staging, DiskTypeOK
<1>8. content' \in [Inodes -> {"empty", "whole", "torn"}] /\ \A j \in Inodes : j # i => content'[j] = content[j]
  BY <1>4, <1>7 DEF DiskTypeOK
<1>9. DiskTypeOK'
  BY <1>2, <1>3, <1>4, <1>6, <1>8 DEF DiskTypeOK, Staging
<1>10. NamesApart'
  BY <1>2, <1>3, NamesInodes DEF NamesApart
<1>11. OneStager'
  <2> SUFFICES ASSUME ~overlap, NEW k \in Nodes, pc'[k] \in Staging
               PROVE  FALSE
    BY <1>5 DEF OneStager
  <2>1. k # n /\ pc[k] \in Staging
    BY <1>6 DEF Staging
  <2> QED BY <1>7, <2>1 DEF OneStager
<1>12. AllCanonicalWhole'
  <2> SUFFICES ASSUME ~overlap, crashed => tier = "shared", NEW x \in Kept', x.kv /= 0
               PROVE  content'[x.kv] = "whole" /\ (tier = "shared" => synced[x.kv] = "whole")
    BY <1>4, <1>5 DEF AllCanonicalWhole, fsync_each_block
  <2>1. PICK y \in Kept : y.kv = x.kv
    BY <1>2, <1>3, NamesInodes
  <2>2. content[x.kv] = "whole" /\ (tier = "shared" => synced[x.kv] = "whole")
    BY <2>1 DEF AllCanonicalWhole, fsync_each_block
  <2>3. x.kv \in Inodes /\ x.kv # i
    BY <1>1, <1>7, <2>1, KvInode DEF OneStager
  <2> QED BY <1>8, <2>2, <2>3
<1>13. PromiseKept'
  BY <1>2, <1>3, <1>4, <1>5, NamesInodes DEF PromiseKept, fsync_each_block
<1> QED BY <1>9, <1>10, <1>11, <1>12, <1>13

\* sync_data brings the staging file to the medium.
LEMMA SyncDataInv ==
    ASSUME DiskInv, NEW n \in Nodes, sync_data(n)
    PROVE  DiskInv'
<1> USE DEF DiskInv
<1>1. PICK i : i = fd[n]
  OBVIOUS
<1>2. /\ synced' = [synced EXCEPT ![i] = content[i]] /\ content' = content /\ tier' = tier /\ fd' = fd
      /\ Kept' = Kept /\ dir' = dir /\ mayKeep' = mayKeep /\ stored' = stored
      /\ pc' = [pc EXCEPT ![n] = "rename"]
  BY <1>1 DEF sync_data, Go, Kept
<1>3. overlap' = overlap /\ crashed' = crashed /\ promised' = promised
  BY DEF sync_data
<1>4. pc[n] = "sync" /\ pc[n] \in Staging /\ i \in Inodes
  BY <1>1 DEF sync_data, Staging, DiskTypeOK
<1>5. /\ pc' \in [Nodes -> {"idle", "open", "sync dir"} \cup Staging]
      /\ pc'[n] = "rename" /\ \A m \in Nodes : m # n => pc'[m] = pc[m]
  BY <1>2 DEF DiskTypeOK, Staging
<1>6. \A m \in Nodes : (pc'[m] \in Staging <=> pc[m] \in Staging) /\ (pc'[m] = "sync dir" => pc[m] = "sync dir")
  BY <1>4, <1>5 DEF Staging
<1>7. /\ synced' \in [Inodes -> {"empty", "whole", "torn"}] /\ synced'[i] = content[i]
      /\ \A j \in Inodes : j # i => synced'[j] = synced[j]
  BY <1>2, <1>4 DEF DiskTypeOK
<1>8. DiskTypeOK'
  BY <1>2, <1>5, <1>6, <1>7 DEF DiskTypeOK
<1>9. NamesApart'
  BY <1>2 DEF NamesApart
<1>10. OneStager'
  <2> SUFFICES ASSUME ~overlap, NEW k \in Nodes, pc'[k] \in Staging
               PROVE  /\ k = n /\ dir.tmp \in {0, fd[n]} /\ (\A x \in Kept : x.kv /= fd[n])
                      /\ content[fd[n]] = "whole" /\ synced'[fd[n]] = "whole"
                      /\ \A m \in Nodes : pc'[m] \in Staging => m = n
    BY <1>2, <1>3 DEF OneStager, fsync_each_block
  <2>1. \A m \in Nodes : pc'[m] \in Staging => m = n
    BY <1>4, <1>6 DEF OneStager
  <2>2. dir.tmp \in {0, fd[n]} /\ (\A x \in Kept : x.kv /= fd[n]) /\ content[fd[n]] = "whole"
    BY <1>4 DEF OneStager
  <2> QED BY <1>1, <1>7, <2>1, <2>2
<1>11. AllCanonicalWhole'
  <2> SUFFICES ASSUME ~overlap, crashed => tier = "shared", NEW x \in Kept, x.kv /= 0
               PROVE  content[x.kv] = "whole" /\ (tier = "shared" => synced'[x.kv] = "whole")
    BY <1>2, <1>3 DEF AllCanonicalWhole, fsync_each_block
  <2>1. content[x.kv] = "whole" /\ (tier = "shared" => synced[x.kv] = "whole")
    BY DEF AllCanonicalWhole, fsync_each_block
  <2>2. x.kv \in Inodes
    BY KvInode
  <2> QED BY <1>7, <2>1, <2>2
<1>12. PromiseKept'
  BY <1>2, <1>3 DEF PromiseKept, fsync_each_block
<1> QED BY <1>8, <1>9, <1>10, <1>11, <1>12

\* rename gives the canonical name to the staging file, which is whole.
LEMMA RenameInv ==
    ASSUME DiskInv, NEW n \in Nodes, rename(n)
    PROVE  DiskInv'
<1> USE DEF DiskInv
<1>1. PICK i, d : i = dir.tmp /\ d = [dir EXCEPT !.kv = i, !.tmp = 0]
  OBVIOUS
<1>2. i /= 0 /\ i \in Inodes
  BY <1>1, TmpInode DEF rename
<1>3. d \in Dirs /\ d.kv = i /\ d.tmp = 0
  BY <1>1, <1>2, ZeroIsNoInode DEF DiskTypeOK, Dirs
<1>4. dir' = d /\ Kept' = Kept \cup {d} /\ mayKeep' \in SUBSET Dirs
  BY <1>1, <1>3, SetDirKept DEF DiskTypeOK, rename
<1>5. content' = content /\ synced' = synced /\ tier' = tier
  BY DEF rename
<1>6. overlap' = overlap /\ crashed' = crashed /\ promised' = promised
  BY DEF rename
<1>7. pc[n] = "rename" /\ pc[n] \in Staging
  BY DEF rename, Staging
<1>8. /\ pc' \in [Nodes -> {"idle", "open", "sync dir"} \cup Staging]
      /\ fd' \in [Nodes -> 0..MaxInodes] /\ pc'[n] \notin Staging
      /\ pc'[n] = "sync dir" => tier = "shared"
      /\ \A m \in Nodes : m # n => pc'[m] = pc[m] /\ fd'[m] = fd[m]
  <2>1. CASE Done(n) /\ tier /= "shared"
    BY <2>1, DoneKeeps DEF Staging
  <2>2. CASE Go(n, "sync dir") /\ UNCHANGED fd /\ tier = "shared"
    BY <2>2 DEF Go, DiskTypeOK, Staging
  <2> QED BY <2>1, <2>2 DEF rename, fsync_each_block
<1>9. DiskTypeOK'
  BY <1>3, <1>4, <1>5, <1>8 DEF DiskTypeOK
<1>10. NamesApart'
  BY <1>3, <1>4 DEF NamesApart
<1>11. OneStager'
  <2> SUFFICES ASSUME ~overlap, NEW k \in Nodes, pc'[k] \in Staging
               PROVE  FALSE
    BY <1>6 DEF OneStager
  <2>1. k # n /\ pc[k] \in Staging
    BY <1>8
  <2> QED BY <1>7, <2>1 DEF OneStager
<1>12. AllCanonicalWhole'
  <2> SUFFICES ASSUME ~overlap, crashed => tier = "shared", NEW x \in Kept', x.kv /= 0
               PROVE  content[x.kv] = "whole" /\ (tier = "shared" => synced[x.kv] = "whole")
    BY <1>5, <1>6 DEF AllCanonicalWhole, fsync_each_block
  <2>1. CASE x \in Kept
    BY <2>1 DEF AllCanonicalWhole, fsync_each_block
  <2>2. CASE x = d
    <3>1. x.kv = fd[n]
      BY <1>1, <1>2, <1>3, <1>7, <2>2 DEF OneStager
    <3>2. content[fd[n]] = "whole" /\ (tier = "shared" => synced[fd[n]] = "whole")
      BY <1>7 DEF OneStager, fsync_each_block
    <3> QED BY <3>1, <3>2
  <2> QED BY <1>4, <2>1, <2>2
<1>13. PromiseKept'
  BY <1>2, <1>3, <1>4, <1>5, <1>6 DEF PromiseKept, fsync_each_block
<1> QED BY <1>9, <1>10, <1>11, <1>12, <1>13

\* Once the directory is synced a crash leaves it, and it has the renamed file.
LEMMA SyncDirInv ==
    ASSUME DiskInv, NEW n \in Nodes, sync_dir(n)
    PROVE  DiskInv'
<1> USE DEF DiskInv
<1>1. dir' = dir /\ mayKeep' = {} /\ Kept' = {dir} /\ dir \in Kept
  BY DEF sync_dir, Kept
<1>2. content' = content /\ synced' = synced /\ tier' = tier /\ stored' = stored
  BY DEF sync_dir
<1>3. overlap' = overlap /\ crashed' = crashed /\ (promised' => promised \/ (n \in stored /\ ~overlap))
  BY DEF sync_dir
<1>4. /\ pc' \in [Nodes -> {"idle", "open", "sync dir"} \cup Staging]
      /\ fd' \in [Nodes -> 0..MaxInodes] /\ pc'[n] = "idle"
      /\ \A m \in Nodes : m # n => pc'[m] = pc[m] /\ fd'[m] = fd[m]
  BY DoneKeeps DEF sync_dir
<1>5. \A m \in Nodes : pc'[m] \in Staging \cup {"sync dir"} => pc'[m] = pc[m] /\ fd'[m] = fd[m]
  BY <1>4 DEF Staging
<1>6. tier = "shared"
  BY DEF sync_dir, DiskTypeOK
<1>7. DiskTypeOK'
  BY <1>1, <1>2, <1>4, <1>5 DEF DiskTypeOK
<1>8. NamesApart'
  BY <1>1 DEF NamesApart
<1>9. OneStager'
  <2> SUFFICES ASSUME ~overlap, NEW k \in Nodes, pc'[k] \in Staging
               PROVE  /\ \A m \in Nodes : pc'[m] \in Staging => m = k
                      /\ dir.tmp \in {0, fd'[k]}
                      /\ \A x \in Kept' : x.kv /= fd'[k]
                      /\ pc'[k] /= "write" => content[fd'[k]] = "whole"
                      /\ pc'[k] = "rename" /\ fsync_each_block => synced[fd'[k]] = "whole"
    BY <1>1, <1>2, <1>3 DEF OneStager, fsync_each_block
  <2>1. pc'[k] = pc[k] /\ fd'[k] = fd[k] /\ \A m \in Nodes : pc'[m] \in Staging => pc[m] \in Staging
    BY <1>5
  <2>2. /\ \A m \in Nodes : pc[m] \in Staging => m = k
        /\ dir.tmp \in {0, fd[k]} /\ \A x \in Kept : x.kv /= fd[k]
        /\ pc[k] /= "write" => content[fd[k]] = "whole"
        /\ pc[k] = "rename" /\ fsync_each_block => synced[fd[k]] = "whole"
    BY <2>1 DEF OneStager
  <2> QED BY <1>1, <2>1, <2>2
<1>10. AllCanonicalWhole'
  BY <1>1, <1>2, <1>3 DEF AllCanonicalWhole, fsync_each_block
<1>11. PromiseKept'
  BY <1>1, <1>2, <1>3, <1>6 DEF PromiseKept, fsync_each_block
<1> QED BY <1>7, <1>8, <1>9, <1>10, <1>11

\* A removed block or root takes the promise with it and frees no other name.
LEMMA NameRemoved ==
    ASSUME DiskInv, NEW d \in Dirs, d.kv = 0, d.tmp \in {0, dir.tmp}, SetDir(d),
           promised' = FALSE, stored' = {},
           UNCHANGED <<tier, content, synced, pc, fd, overlap, crashed>>
    PROVE  DiskInv'
<1> USE DEF DiskInv
<1>1. dir' = d /\ Kept' = Kept \cup {d} /\ mayKeep' \in SUBSET Dirs
  BY SetDirKept DEF DiskTypeOK
<1>2. dir \in Kept
  BY DEF Kept
<1>3. DiskTypeOK'
  BY <1>1 DEF DiskTypeOK, Inodes
<1>4. NamesApart'
  BY <1>1, <1>2 DEF NamesApart
<1>5. OneStager'
  <2> SUFFICES ASSUME ~overlap, NEW n \in Nodes, pc[n] \in Staging
               PROVE  /\ \A m \in Nodes : pc[m] \in Staging => m = n
                      /\ d.tmp \in {0, fd[n]}
                      /\ \A x \in Kept' : x.kv /= fd[n]
                      /\ pc[n] /= "write" => content[fd[n]] = "whole"
                      /\ pc[n] = "rename" /\ fsync_each_block => synced[fd[n]] = "whole"
    BY <1>1 DEF OneStager, fsync_each_block
  <2>1. fd[n] /= 0
    BY ZeroIsNoInode DEF DiskTypeOK
  <2>2. /\ \A m \in Nodes : pc[m] \in Staging => m = n
        /\ dir.tmp \in {0, fd[n]} /\ \A x \in Kept : x.kv /= fd[n]
        /\ pc[n] /= "write" => content[fd[n]] = "whole"
        /\ pc[n] = "rename" /\ fsync_each_block => synced[fd[n]] = "whole"
    BY DEF OneStager
  <2> QED BY <1>1, <2>1, <2>2
<1>6. AllCanonicalWhole'
  BY <1>1 DEF AllCanonicalWhole, fsync_each_block
<1>7. PromiseKept'
  BY DEF PromiseKept
<1> QED BY <1>3, <1>4, <1>5, <1>6, <1>7

\* delete_block removes the canonical name.
LEMMA DeleteBlockInv ==
    ASSUME DiskInv, delete_block
    PROVE  DiskInv'
<1>1. PICK d : d = [dir EXCEPT !.kv = 0]
  OBVIOUS
<1>2. dir \in Dirs
  BY DEF DiskInv, DiskTypeOK
<1>3. d \in Dirs /\ d.kv = 0 /\ d.tmp = dir.tmp
  BY <1>1, <1>2, ZeroIsNoInode DEF Dirs
<1> QED BY <1>1, <1>3, NameRemoved DEF delete_block

\* A purge removes both names and the root.
LEMMA PurgeRootInv ==
    ASSUME DiskInv, PurgeRoot
    PROVE  DiskInv'
<1>1. PICK d : d = [root |-> FALSE, tmp |-> 0, kv |-> 0]
  OBVIOUS
<1>2. d \in Dirs /\ d.kv = 0 /\ d.tmp = 0
  BY <1>1, ZeroIsNoInode DEF Dirs
<1> QED BY <1>1, <1>2, NameRemoved DEF PurgeRoot

\* A crash leaves one of the directories, whose canonical file was synced.
LEMMA CrashInv ==
    ASSUME DiskInv, Crash
    PROVE  DiskInv'
<1> USE DEF DiskInv
<1>1. PICK d \in Kept : dir' = d /\ mayKeep' = {}
  BY DEF Crash, Kept
<1>2. Kept' = {d} /\ d \in Dirs
  BY <1>1 DEF Kept, DiskTypeOK
<1>3. /\ content' \in [Inodes -> {"empty", "whole", "torn"}] /\ synced' = content'
      /\ \A i \in Inodes : content[i] = synced[i] => content'[i] = synced[i]
  <2>1. PICK e \in Kept :
          \E kept \in [{e.tmp, e.kv} \ {0} -> {"synced", "written", "torn"}] :
            /\ content' = [i \in Inodes |->
                      IF i \notin DOMAIN kept \/ content[i] = synced[i] THEN synced[i]
                      ELSE CASE kept[i] = "synced" -> synced[i]
                             [] kept[i] = "written" -> content[i]
                             [] kept[i] = "torn" -> "torn"]
            /\ synced' = content'
    BY DEF Crash, Kept
  <2>2. PICK kept \in [{e.tmp, e.kv} \ {0} -> {"synced", "written", "torn"}] :
            /\ content' = [i \in Inodes |->
                      IF i \notin DOMAIN kept \/ content[i] = synced[i] THEN synced[i]
                      ELSE CASE kept[i] = "synced" -> synced[i]
                             [] kept[i] = "written" -> content[i]
                             [] kept[i] = "torn" -> "torn"]
            /\ synced' = content'
    BY <2>1
  <2>3. \A i \in Inodes : content'[i] \in {"empty", "whole", "torn"}
    BY <2>2 DEF DiskTypeOK
  <2> QED BY <2>2, <2>3
<1>4. pc' = [n \in Nodes |-> "idle"] /\ fd' = [n \in Nodes |-> 0] /\ stored' = {} /\ tier' = tier
  BY DEF Crash
<1>5. overlap' = overlap /\ promised' = promised /\ crashed' = TRUE
  BY DEF Crash
<1>6. DiskTypeOK'
  <2>1. \A n \in Nodes : pc'[n] = "idle"
    BY <1>4
  <2> QED BY <1>1, <1>2, <1>3, <1>4, <2>1, ZeroIsNoInode DEF DiskTypeOK, Staging
<1>7. NamesApart'
  BY <1>1, <1>2 DEF NamesApart
<1>8. OneStager'
  BY <1>4 DEF OneStager, Staging
<1>9. AllCanonicalWhole'
  <2> SUFFICES ASSUME ~overlap, tier = "shared", d.kv /= 0
               PROVE  content'[d.kv] = "whole"
    BY <1>2, <1>3, <1>4, <1>5 DEF AllCanonicalWhole, fsync_each_block
  <2>1. content[d.kv] = "whole" /\ synced[d.kv] = "whole"
    BY DEF AllCanonicalWhole, fsync_each_block
  <2>2. d.kv \in Inodes
    BY KvInode
  <2> QED BY <1>3, <2>1, <2>2
<1>10. PromiseKept'
  BY <1>1, <1>2, <1>4, <1>5 DEF PromiseKept, fsync_each_block
<1> QED BY <1>6, <1>7, <1>8, <1>9, <1>10

\* Every step keeps the inductive invariant.
LEMMA NextDiskInv == DiskInv /\ [DiskNext]_diskVars => DiskInv'
<1> SUFFICES ASSUME DiskInv, [DiskNext]_diskVars PROVE DiskInv'
  OBVIOUS
<1>1. Users \subseteq Nodes
  BY DiskAssumption DEF Users
<1>2. ASSUME NEW n \in Nodes,
             \/ put_block(n) \/ open_tmp(n) \/ write_all(n) \/ write_fails(n) \/ sync_data(n)
             \/ rename(n) \/ sync_dir(n) \/ not_found(n) \/ Kill(n)
      PROVE  DiskInv'
  BY <1>2, PutBlockInv, OpenTmpInv, WriteAllInv, WriteFailsInv, SyncDataInv, RenameInv,
     SyncDirInv, NotFoundInv, KillInv
<1>3. CASE UNCHANGED diskVars
  <2>1. dir \in Dirs /\ SetDir(dir)
    BY <1>3 DEF DiskInv, DiskTypeOK, diskVars, SetDir
  <2> QED BY <1>3, <2>1, DirStep DEF diskVars, DiskInv, DiskTypeOK
<1> QED BY <1>1, <1>2, <1>3, DeleteBlockInv, PurgeRootInv, CrashInv DEF DiskNext

\* The inductive invariant holds in every reachable state.
LEMMA DiskInvAlways == DiskSpec => []DiskInv
BY InitDiskInv, NextDiskInv, PTL DEF DiskSpec
------------------------------------------------------------------------------
(* What it gives *)

\* disk.rs:501, for every number of nodes, puts and faults: the canonical name
\* never leads to a partially written file, and with fsync not after a crash
\* either, unless two puts shared the staging file.
THEOREM ReadersSeeWholeFiles == DiskSpec => []CanonicalNeverPartial
<1>1. DiskInv => CanonicalNeverPartial
  BY DEF DiskInv, AllCanonicalWhole, CanonicalNeverPartial, Kept
<1> QED BY <1>1, DiskInvAlways, PTL

\* A put acknowledged with fsync is there, whole, after every crash, until the
\* block is deleted or purged or two puts share the staging file.
THEOREM AcknowledgedBlockSurvives == DiskSpec => []AckedBlockSurvives
<1>1. DiskInv => AckedBlockSurvives
  BY DEF DiskInv, AllCanonicalWhole, PromiseKept, AckedBlockSurvives, Kept
<1> QED BY <1>1, DiskInvAlways, PTL

------------------------------------------------------------------------------
(* The decoder *)

\* The function that Decoded recurs with exists.
DecodesAll(bytes, g, k) ==
    \A c \in k..Len(bytes) + 1 : g[c] = DecodedFrom(bytes, g, c)

\* A record ends behind where it begins.
LEMMA NextLater ==
    ASSUME NEW bytes \in Seq(Nat), NEW c \in 1..Len(bytes), c /= Len(bytes)
    PROVE  NextAt(bytes, c) \in Nat /\ NextAt(bytes, c) > c + 1
  <1>1. PICK n \in Nat : n = Len(bytes)
    OBVIOUS
  <1>2. c \in 1..n /\ c + 1 \in 1..n
    BY <1>1
  <1>3. bytes[c] \in Nat /\ bytes[c + 1] \in Nat
    BY <1>1, <1>2
  <1> QED  BY <1>2, <1>3 DEF NextAt

\* What is decoded from c depends on what follows c.
LEMMA FromLater ==
    ASSUME NEW bytes \in Seq(Nat), NEW g, NEW h, NEW c \in 1..Len(bytes) + 1,
           \A d \in 1..Len(bytes) + 1 : d > c => g[d] = h[d]
    PROVE  DecodedFrom(bytes, g, c) = DecodedFrom(bytes, h, c)
  <1>1. PICK n \in Nat : n = Len(bytes)
    OBVIOUS
  <1>2. CASE c = n + 1 \/ c = n \/ NextAt(bytes, c) > n + 1
    BY <1>1, <1>2 DEF DecodedFrom
  <1>3. CASE ~(c = n + 1 \/ c = n \/ NextAt(bytes, c) > n + 1)
    <2>1. c \in 1..Len(bytes) /\ c /= Len(bytes)
      BY <1>1, <1>3
    <2>2. PICK d \in Nat : d = NextAt(bytes, c) /\ d > c + 1
      BY <2>1, NextLater
    <2>3. d \in 1..Len(bytes) + 1 /\ d > c
      BY <1>1, <1>3, <2>1, <2>2
    <2>4. g[NextAt(bytes, c)] = h[NextAt(bytes, c)]
      BY <2>2, <2>3
    <2> QED  BY <2>4 DEF DecodedFrom
  <1> QED  BY <1>2, <1>3

\* There is a function that decodes from every position.
LEMMA FromExists ==
    ASSUME NEW bytes \in Seq(Nat)
    PROVE  \E g : g = [c \in 1..Len(bytes) + 1 |-> DecodedFrom(bytes, g, c)]
  <1>1. PICK n \in Nat : n = Len(bytes)
    OBVIOUS
  <1> DEFINE S == 1..n + 1
             Funs(g) == g = [c \in S |-> g[c]]
             Bad == {m \in 1..n + 2 : ~\E g : Funs(g) /\ DecodesAll(bytes, g, n + 2 - m + 1)}
  <1>2. ASSUME Bad /= {} PROVE FALSE
    <2>1. Bad \in SUBSET Nat
      OBVIOUS
    <2>2. PICK m \in Bad : \A y \in Bad : m <= y
      BY <1>2, <2>1, HasLeast
    <2>3. m \in 1..n + 2 /\ ~\E g : Funs(g) /\ DecodesAll(bytes, g, n + 2 - m + 1)
      OBVIOUS
    <2>4. PICK k \in 1..n + 2 : k = n + 2 - m + 1
      BY <2>3
    <2>5. CASE m = 1
      <3>1. PICK g : g = [c \in S |-> 0]
        OBVIOUS
      <3>2. Funs(g) /\ DecodesAll(bytes, g, n + 2)
        <4>1. DecodesAll(bytes, g, n + 2)
          BY <1>1 DEF DecodesAll
        <4> QED  BY <3>1, <4>1
      <3>3. n + 2 - m + 1 = n + 2
        BY <2>5
      <3> QED  BY <2>3, <3>2, <3>3
    <2>6. CASE m /= 1
      <3>1. PICK l \in 1..n + 2 : l = m - 1
        BY <2>3, <2>6
      <3>2. l \notin Bad
        BY <2>2, <2>3, <3>1
      <3>3. n + 2 - l + 1 = k + 1 /\ k \in 1..n + 1
        BY <2>3, <2>4, <2>6, <3>1
      <3>4. PICK g : Funs(g) /\ DecodesAll(bytes, g, k + 1)
        BY <3>2, <3>3
      <3>5. PICK h : h = [c \in S |-> IF c = k THEN DecodedFrom(bytes, g, k) ELSE g[c]]
        OBVIOUS
      <3>6. ASSUME NEW c \in k..n + 1 PROVE h[c] = DecodedFrom(bytes, h, c)
        <4>1. c \in 1..Len(bytes) + 1 /\ c \in S
          BY <1>1, <3>3
        <4>2. \A d \in 1..Len(bytes) + 1 : d > c => g[d] = h[d]
          BY <1>1, <3>3, <3>5, <3>6
        <4>3. DecodedFrom(bytes, g, c) = DecodedFrom(bytes, h, c)
          BY <4>1, <4>2, FromLater
        <4>4. CASE c = k
          BY <3>5, <4>1, <4>3, <4>4
        <4>5. CASE c /= k
          <5>1. c \in k + 1..Len(bytes) + 1
            BY <1>1, <3>3, <3>6, <4>5
          <5>2. g[c] = DecodedFrom(bytes, g, c)
            BY <3>4, <5>1 DEF DecodesAll
          <5> QED  BY <3>5, <4>1, <4>3, <4>5, <5>2
        <4> QED  BY <4>4, <4>5
      <3>7. DecodesAll(bytes, h, k)
        BY <1>1, <3>6 DEF DecodesAll
      <3>8. Funs(h)
        BY <3>5
      <3> QED  BY <2>3, <2>4, <3>7, <3>8
    <2> QED  BY <2>5, <2>6
  <1>3. n + 2 \in 1..n + 2 /\ n + 2 - (n + 2) + 1 = 1
    OBVIOUS
  <1>4. PICK g : Funs(g) /\ DecodesAll(bytes, g, 1)
    BY <1>2, <1>3
  <1>5. g = [c \in 1..Len(bytes) + 1 |-> DecodedFrom(bytes, g, c)]
    BY <1>1, <1>4, Zenon DEF DecodesAll
  <1> QED  BY <1>5

Decodes(bytes, g) == g = [c \in 1..Len(bytes) + 1 |-> DecodedFrom(bytes, g, c)]

\* Decoded is the function at the first record.
LEMMA DecodedIs ==
    ASSUME NEW bytes \in Seq(Nat)
    PROVE  \E g : /\ Decodes(bytes, g)
                  /\ Decoded(bytes) = IF bytes = <<>> THEN NoRecords
                                      ELSE IF ~IsPrefix(WAL_MAGIC, bytes) THEN Corrupt
                                      ELSE g[Len(WAL_MAGIC) + 1]
  <1> DEFINE from[c \in 1..Len(bytes) + 1] == DecodedFrom(bytes, from, c)
  <1>1. \E g : g = [c \in 1..Len(bytes) + 1 |-> DecodedFrom(bytes, g, c)]
    BY FromExists
  <1>2. from = [c \in 1..Len(bytes) + 1 |-> DecodedFrom(bytes, from, c)]
    BY <1>1, Zenon
  <1>3. Decoded(bytes) = IF bytes = <<>> THEN NoRecords
                         ELSE IF ~IsPrefix(WAL_MAGIC, bytes) THEN Corrupt
                         ELSE from[Len(WAL_MAGIC) + 1]
    BY Zenon DEF Decoded
  <1> HIDE DEF from
  <1> QED  BY <1>2, <1>3 DEF Decodes

------------------------------------------------------------------------------
(* Files that are whole, and files that are cut *)

\* The record r lies in the file B between c and d.
RecordAt(B, c, d, r) ==
    /\ c \in Nat \ {0} /\ c + 1 <= Len(B) /\ d <= Len(B) + 1 /\ d = NextAt(B, c)
    /\ r.key \in Seq(Nat) /\ Len(r.key) = B[c] /\ \A i \in 1..B[c] : r.key[i] = B[c + 1 + i]
    /\ r.value \in Seq(Nat) /\ Len(r.value) = B[c + 1]
    /\ \A i \in 1..B[c + 1] : r.value[i] = B[c + 1 + B[c] + i]
    /\ r = [key |-> r.key, value |-> r.value]

\* The file begins with the magic, and the records recs lie one behind the other
\* from there up to e; pos is where each begins.
Chain(B, pos, recs, e) ==
    /\ Len(B) >= 2 /\ B[1] = 7 /\ B[2] = 7
    /\ pos \in Seq(Nat) /\ Len(pos) = Len(recs) + 1 /\ pos[1] = 3 /\ pos[Len(pos)] = e
    /\ \A k \in 1..Len(recs) : RecordAt(B, pos[k], pos[k + 1], recs[k])

\* A file of exactly these records.
Holds(B, recs) == \/ B = <<>> /\ recs = <<>>
                  \/ \E pos : Chain(B, pos, recs, Len(B) + 1)

\* A file that ends in a part of the magic or of a record.
EndsCut(B) ==
    \/ Len(B) = 1
    \/ \E pos, recs, e : /\ recs \in Seq(Records) /\ Chain(B, pos, recs, e) /\ e \in 1..Len(B)
                         /\ (e = Len(B) \/ NextAt(B, e) > Len(B) + 1)

\* The record that the decoder finds.
LEMMA RecordFound ==
    ASSUME NEW B \in Seq(Nat), NEW c, NEW d, NEW r, RecordAt(B, c, d, r)
    PROVE  RecordOf(B, c) = r /\ c \in 1..Len(B) /\ c /= Len(B) /\ d \in 1..Len(B) + 1
  <1>1. PICK n \in Nat : n = Len(B)
    OBVIOUS
  <1>2. c \in 1..n /\ c + 1 \in 1..n /\ c /= n
    BY <1>1 DEF RecordAt
  <1>3. PICK a \in Nat, b \in Nat : a = B[c] /\ b = B[c + 1]
    BY <1>1, <1>2
  <1>4. d = c + 2 + a + b /\ d <= n + 1
    BY <1>1, <1>3 DEF RecordAt, NextAt
  <1>5. PICK key \in Seq(Nat), value \in Seq(Nat) :
            /\ key = r.key /\ Len(key) = a /\ \A i \in 1..a : key[i] = B[c + 1 + i]
            /\ value = r.value /\ Len(value) = b /\ \A i \in 1..b : value[i] = B[c + 1 + a + i]
            /\ r = [key |-> key, value |-> value]
    BY <1>3 DEF RecordAt
  <1>6. SubSeq(B, c + 2, c + 1 + a) = key
    <2>1. PICK S : S = SubSeq(B, c + 2, c + 1 + a)
      OBVIOUS
    <2>2. \A i \in c + 2..c + 1 + a : B[i] \in Nat
      BY <1>1, <1>2, <1>4
    <2>3. c + 2 \in Int /\ c + 1 + a \in Int
      BY <1>2
    <2>4. /\ S \in Seq(Nat) /\ Len(S) = (IF c + 2 <= c + 1 + a THEN (c + 1 + a) - (c + 2) + 1 ELSE 0)
          /\ \A i \in 1..(c + 1 + a) - (c + 2) + 1 : S[i] = B[(c + 2) + i - 1]
      BY <2>1, <2>2, <2>3, SubSeqProperties
    <2>5. (IF c + 2 <= c + 1 + a THEN (c + 1 + a) - (c + 2) + 1 ELSE 0) = a
          /\ (c + 1 + a) - (c + 2) + 1 = a
      BY <1>2
    <2>6. ASSUME NEW i \in 1..a PROVE S[i] = key[i]
      <3>1. (c + 2) + i - 1 = c + 1 + i
        BY <1>2
      <3> QED  BY <1>5, <2>4, <2>5, <3>1
    <2>7. Len(S) = Len(key) /\ \A i \in 1..Len(S) : S[i] = key[i]
      BY <1>5, <2>4, <2>5, <2>6
    <2> QED  BY <2>1, <2>4, <2>7, SeqEqual
  <1>7. SubSeq(B, c + 2 + a, d - 1) = value
    <2>1. PICK S : S = SubSeq(B, c + 2 + a, d - 1)
      OBVIOUS
    <2>2. \A i \in c + 2 + a..d - 1 : B[i] \in Nat
      BY <1>1, <1>2, <1>4
    <2>3. c + 2 + a \in Int /\ d - 1 \in Int
      BY <1>2, <1>4
    <2>4. /\ S \in Seq(Nat) /\ Len(S) = (IF c + 2 + a <= d - 1 THEN (d - 1) - (c + 2 + a) + 1 ELSE 0)
          /\ \A i \in 1..(d - 1) - (c + 2 + a) + 1 : S[i] = B[(c + 2 + a) + i - 1]
      BY <2>1, <2>2, <2>3, SubSeqProperties
    <2>5. (IF c + 2 + a <= d - 1 THEN (d - 1) - (c + 2 + a) + 1 ELSE 0) = b
          /\ (d - 1) - (c + 2 + a) + 1 = b
      BY <1>2, <1>4
    <2>6. ASSUME NEW i \in 1..b PROVE S[i] = value[i]
      <3>1. (c + 2 + a) + i - 1 = c + 1 + a + i
        BY <1>2
      <3> QED  BY <1>5, <2>4, <2>5, <3>1
    <2>7. Len(S) = Len(value) /\ \A i \in 1..Len(S) : S[i] = value[i]
      BY <1>5, <2>4, <2>5, <2>6
    <2> QED  BY <2>1, <2>4, <2>7, SeqEqual
  <1>8. NextAt(B, c) = d
    BY DEF RecordAt
  <1>9. RecordOf(B, c) = [key |-> key, value |-> value]
    BY <1>3, <1>6, <1>7, <1>8 DEF RecordOf
  <1>10. d \in 1..n + 1
    BY <1>2, <1>4
  <1> QED  BY <1>1, <1>2, <1>5, <1>9, <1>10

\* The magic at the head of the file.
LEMMA MagicThere ==
    ASSUME NEW B \in Seq(Nat)
    PROVE  IsPrefix(WAL_MAGIC, B) <=> (Len(B) >= 2 /\ B[1] = 7 /\ B[2] = 7)
  <1>1. PICK M \in Seq(Nat) : M = WAL_MAGIC /\ Len(M) = 2 /\ M[1] = 7 /\ M[2] = 7
    <2>1. <<7, 7>> \in Seq(Nat) /\ Len(<<7, 7>>) = 2
      OBVIOUS
    <2>2. <<7, 7>>[1] = 7 /\ <<7, 7>>[2] = 7
      OBVIOUS
    <2>3. WAL_MAGIC \in Seq(Nat) /\ Len(WAL_MAGIC) = 2 /\ WAL_MAGIC[1] = 7 /\ WAL_MAGIC[2] = 7
      BY <2>1, <2>2, Zenon DEF WAL_MAGIC
    <2> QED  BY <2>3, Zenon
  <1>2. IsPrefix(M, B) <=> 2 <= Len(B) /\ SubSeq(M, 1, 2) = SubSeq(B, 1, 2)
    BY <1>1 DEF IsPrefix
  <1>3. SubSeq(M, 1, 2) = M
    <2>1. PICK S : S = SubSeq(M, 1, 2)
      OBVIOUS
    <2>2. \A i \in 1..2 : M[i] \in Nat
      BY <1>1
    <2>3. /\ S \in Seq(Nat) /\ Len(S) = (IF 1 <= 2 THEN 2 - 1 + 1 ELSE 0)
          /\ \A i \in 1..2 - 1 + 1 : S[i] = M[1 + i - 1]
      BY <2>1, <2>2, SubSeqProperties
    <2>4. Len(S) = Len(M) /\ \A i \in 1..Len(S) : S[i] = M[i]
      BY <1>1, <2>3
    <2> QED  BY <2>1, <2>3, <2>4, SeqEqual
  <1>4. ASSUME 2 <= Len(B)
        PROVE  SubSeq(B, 1, 2) \in Seq(Nat) /\ Len(SubSeq(B, 1, 2)) = 2
               /\ SubSeq(B, 1, 2)[1] = B[1] /\ SubSeq(B, 1, 2)[2] = B[2]
    <2>1. PICK S : S = SubSeq(B, 1, 2)
      OBVIOUS
    <2>2. \A i \in 1..2 : B[i] \in Nat
      BY <1>4
    <2>3. /\ S \in Seq(Nat) /\ Len(S) = (IF 1 <= 2 THEN 2 - 1 + 1 ELSE 0)
          /\ \A i \in 1..2 - 1 + 1 : S[i] = B[1 + i - 1]
      BY <2>1, <2>2, SubSeqProperties
    <2> QED  BY <2>1, <2>3
  <1>5. ASSUME 2 <= Len(B), B[1] = 7, B[2] = 7 PROVE M = SubSeq(B, 1, 2)
    <2>1. PICK S \in Seq(Nat) : S = SubSeq(B, 1, 2) /\ Len(S) = 2 /\ S[1] = 7 /\ S[2] = 7
      BY <1>4, <1>5
    <2>2. Len(S) = Len(M) /\ \A i \in 1..Len(S) : S[i] = M[i]
      BY <1>1, <2>1
    <2> QED  BY <2>1, <2>2, SeqEqual
  <1>6. ASSUME 2 <= Len(B), M = SubSeq(B, 1, 2) PROVE B[1] = 7 /\ B[2] = 7
    BY <1>1, <1>4, <1>6
  <1> QED  BY <1>1, <1>2, <1>3, <1>5, <1>6

------------------------------------------------------------------------------
(* What the decoder makes of them *)

\* The decoder finds r at c and goes on at d.
Finds(g, c, d, r) == g[c] = [ok |-> g[d].ok, records |-> <<r>> \o g[d].records]

\* What it finds at the first record, when it is whole up to e and what is at e is
\* the end or a part.
FindsAll(g, e, recs) ==
    /\ g[e] = NoRecords => g[3] = [ok |-> TRUE, records |-> recs]
    /\ g[e] = Corrupt => g[3].ok = FALSE

\* One step of the decoder over a record that is there.
LEMMA DecodeStep ==
    ASSUME NEW B \in Seq(Nat), NEW g, Decodes(B, g),
           NEW c, NEW d, NEW r, RecordAt(B, c, d, r)
    PROVE  Finds(g, c, d, r)
  <1>1. PICK n \in Nat : n = Len(B)
    OBVIOUS
  <1>2. RecordOf(B, c) = r /\ c \in 1..n /\ c /= n /\ d \in 1..n + 1
    BY <1>1, RecordFound
  <1>3. c \in 1..n + 1 /\ c /= n + 1
    BY <1>2
  <1>4. g[c] = DecodedFrom(B, g, c)
    BY <1>1, <1>3 DEF Decodes
  <1>5. d = NextAt(B, c) /\ ~(d > n + 1)
    BY <1>1, <1>2 DEF RecordAt
  <1> QED  BY <1>1, <1>2, <1>3, <1>4, <1>5, Zenon DEF DecodedFrom, Finds

\* The records from k on, and the one before them.
LEMMA SuffixStep ==
    ASSUME NEW S, NEW recs \in Seq(S), NEW k \in 1..Len(recs)
    PROVE  <<recs[k]>> \o SubSeq(recs, k + 1, Len(recs)) = SubSeq(recs, k, Len(recs))
  <1>1. PICK n \in Nat : n = Len(recs)
    OBVIOUS
  <1>2. PICK A : A = SubSeq(recs, k, n)
    OBVIOUS
  <1>3. PICK T : T = SubSeq(recs, k + 1, n)
    OBVIOUS
  <1>4. \A i \in k..n : recs[i] \in S
    BY <1>1
  <1>5. k \in Int /\ n \in Int /\ k + 1 \in Int
    BY <1>1
  <1>6. /\ A \in Seq(S) /\ Len(A) = (IF k <= n THEN n - k + 1 ELSE 0)
        /\ \A i \in 1..n - k + 1 : A[i] = recs[k + i - 1]
    BY <1>2, <1>4, <1>5, SubSeqProperties
  <1>7. \A i \in k + 1..n : recs[i] \in S
    BY <1>1
  <1>8. /\ T \in Seq(S) /\ Len(T) = (IF k + 1 <= n THEN n - (k + 1) + 1 ELSE 0)
        /\ \A i \in 1..n - (k + 1) + 1 : T[i] = recs[(k + 1) + i - 1]
    BY <1>3, <1>5, <1>7, SubSeqProperties
  <1>9. PICK a \in Nat : a = n - k /\ k + a = n
    <2>1. n - k \in Nat /\ k + (n - k) = n
      BY <1>1
    <2> QED  BY <2>1
  <1>10. /\ Len(A) = a + 1 /\ \A i \in 1..a + 1 : A[i] = recs[k + i - 1]
         /\ Len(T) = a /\ \A i \in 1..a : T[i] = recs[k + i]
    BY <1>6, <1>8, <1>9
  <1>11. PICK h : h = recs[k] /\ h \in S
    BY <1>1
  <1>12. PICK H \in Seq(S) : H = <<h>> /\ Len(H) = 1 /\ H[1] = h
    <2>1. <<h>> \in Seq(S)
      BY <1>11
    <2>2. Len(<<h>>) = 1
      OBVIOUS
    <2>3. <<h>>[1] = h
      OBVIOUS
    <2> QED  BY <2>1, <2>2, <2>3, Zenon
  <1>13. PICK C : C = H \o T
    OBVIOUS
  <1>14. C \in Seq(S) /\ Len(C) = 1 + a
    BY <1>8, <1>10, <1>12, <1>13, ConcatProperties
  <1>15. \A i \in 1..1 + a : C[i] = IF i <= 1 THEN H[i] ELSE T[i - 1]
    BY <1>8, <1>10, <1>12, <1>13, ConcatProperties
  <1>16. ASSUME NEW i \in 1..1 + a PROVE C[i] = A[i]
    <2>1. CASE i = 1
      <3>1. C[1] = H[1]
        BY <1>15, <2>1
      <3>2. A[1] = recs[k]
        <4>1. 1 \in 1..a + 1 /\ k + 1 - 1 = k
          OBVIOUS
        <4> QED  BY <1>10, <4>1
      <3> QED  BY <1>11, <1>12, <2>1, <3>1, <3>2
    <2>2. CASE i /= 1
      <3>1. PICK j \in 1..a : j = i - 1
        BY <1>16, <2>2
      <3>2. C[i] = T[j]
        <4>1. C[i] = IF i <= 1 THEN H[i] ELSE T[i - 1]
          BY <1>15, <1>16, Zenon
        <4>2. ~(i <= 1)
          BY <1>16, <2>2
        <4> QED  BY <3>1, <4>1, <4>2, Zenon
      <3>3. T[j] = recs[k + j]
        BY <1>10
      <3>4. k + i - 1 = k + j /\ i \in 1..a + 1
        BY <3>1
      <3> QED  BY <1>10, <3>2, <3>3, <3>4
    <2> QED  BY <2>1, <2>2
  <1>17. Len(C) = Len(A) /\ \A i \in 1..Len(C) : C[i] = A[i]
    BY <1>10, <1>14, <1>16
  <1>18. C = A
    BY <1>6, <1>14, <1>17, SeqEqual
  <1> QED  BY <1>1, <1>2, <1>3, <1>11, <1>12, <1>13, <1>18

\* What the decoder finds at the end of a chain of records it finds, behind those
\* records, at the beginning of each.
LEMMA ChainDecoded ==
    ASSUME NEW B \in Seq(Nat), NEW g, Decodes(B, g),
           NEW S, NEW recs \in Seq(S), NEW pos, NEW e, Chain(B, pos, recs, e)
    PROVE  FindsAll(g, e, recs)
  <1>1. PICK n \in Nat : n = Len(recs)
    OBVIOUS
  <1> DEFINE T(k) == /\ g[e] = NoRecords => g[pos[k]] = [ok |-> TRUE, records |-> SubSeq(recs, k, n)]
                     /\ g[e] = Corrupt => g[pos[k]].ok = FALSE
             Bad == {m \in 1..n + 1 : ~T(n + 2 - m)}
  <1>2. pos[n + 1] = e /\ pos[1] = 3
    <2>1. Len(pos) = n + 1 /\ pos[1] = 3 /\ pos[Len(pos)] = e
      BY <1>1 DEF Chain
    <2> QED  BY <2>1
  <1>3. ASSUME Bad /= {} PROVE FALSE
    <2>1. Bad \in SUBSET Nat
      OBVIOUS
    <2>2. PICK m \in Bad : \A y \in Bad : m <= y
      <3> HIDE DEF Bad
      <3> QED  BY <1>3, <2>1, HasLeast
    <2>3. m \in 1..n + 1 /\ ~T(n + 2 - m)
      OBVIOUS
    <2>4. CASE m = 1
      <3>1. n + 2 - m = n + 1
        BY <2>4
      <3>2. SubSeq(recs, n + 1, n) = <<>>
        BY <1>1, SubSeqEmpty
      <3>3. T(n + 1)
        <4>1. g[e] = NoRecords => g[pos[n + 1]] = [ok |-> TRUE, records |-> SubSeq(recs, n + 1, n)]
          BY <1>2, <3>2, Zenon DEF NoRecords
        <4>2. Corrupt.ok = FALSE
          BY DEF Corrupt
        <4>3. g[e] = Corrupt => g[pos[n + 1]].ok = FALSE
          BY <1>2, <4>2, Zenon
        <4> QED  BY <4>1, <4>3
      <3> QED  BY <2>3, <3>1, <3>3
    <2>5. CASE m /= 1
      <3>1. PICK l \in 1..n + 1 : l = m - 1
        BY <2>3, <2>5
      <3>2. PICK k \in 1..n : k = n + 2 - m
        <4>1. n + 2 - m \in 1..n
          BY <2>3, <2>5
        <4> QED  BY <4>1
      <3>3. n + 2 - l = k + 1
        BY <2>3, <3>1, <3>2
      <3>4. l \notin Bad
        <4>1. ~(m <= l)
          BY <2>3, <3>1
        <4> QED  BY <2>2, <4>1, Zenon
      <3>5. T(k + 1)
        BY <3>3, <3>4
      <3>6. RecordAt(B, pos[k], pos[k + 1], recs[k])
        BY <1>1 DEF Chain
      <3>7. g[pos[k]] = [ok |-> g[pos[k + 1]].ok, records |-> <<recs[k]>> \o g[pos[k + 1]].records]
        <4>1. PICK c, d, r : c = pos[k] /\ d = pos[k + 1] /\ r = recs[k]
          OBVIOUS
        <4>2. RecordAt(B, c, d, r)
          BY <3>6, <4>1, Zenon
        <4>3. Finds(g, c, d, r)
          BY <4>2, DecodeStep
        <4> QED  BY <4>1, <4>3, Zenon DEF Finds
      <3>8. k \in 1..Len(recs)
        BY <1>1
      <3>9. <<recs[k]>> \o SubSeq(recs, k + 1, n) = SubSeq(recs, k, n)
        BY <1>1, <3>8, SuffixStep
      <3>10. T(k)
        <4>1. ASSUME g[e] = NoRecords
              PROVE  g[pos[k]] = [ok |-> TRUE, records |-> SubSeq(recs, k, n)]
          <5>1. PICK y : y = g[pos[k + 1]]
            OBVIOUS
          <5>2. y = [ok |-> TRUE, records |-> SubSeq(recs, k + 1, n)]
            BY <3>5, <4>1, <5>1
          <5>3. y.ok = TRUE /\ y.records = SubSeq(recs, k + 1, n)
            BY <5>2
          <5> QED  BY <3>7, <3>9, <5>1, <5>3, Zenon
        <4>2. ASSUME g[e] = Corrupt PROVE g[pos[k]].ok = FALSE
          <5>1. g[pos[k + 1]].ok = FALSE
            BY <3>5, <4>2
          <5>2. PICK y : y = g[pos[k]]
            OBVIOUS
          <5>3. y = [ok |-> FALSE, records |-> <<recs[k]>> \o g[pos[k + 1]].records]
            BY <3>7, <5>1, <5>2, Zenon
          <5>4. y.ok = FALSE
            BY <5>3
          <5> QED  BY <5>2, <5>4, Zenon
        <4> QED  BY <4>1, <4>2
      <3> QED  BY <2>3, <3>2, <3>10
    <2> QED  BY <2>4, <2>5
  <1>4. n + 1 \in 1..n + 1 /\ n + 2 - (n + 1) = 1
    OBVIOUS
  <1>5. T(1)
    <2>1. n + 1 \notin Bad
      BY <1>3
    <2> QED  BY <1>4, <2>1
  <1>6. SubSeq(recs, 1, n) = recs
    <2>1. PICK A : A = SubSeq(recs, 1, n)
      OBVIOUS
    <2>2. \A i \in 1..n : recs[i] \in S
      BY <1>1
    <2>3. /\ A \in Seq(S) /\ Len(A) = (IF 1 <= n THEN n - 1 + 1 ELSE 0)
          /\ \A i \in 1..n - 1 + 1 : A[i] = recs[1 + i - 1]
      BY <2>1, <2>2, SubSeqProperties
    <2>4. Len(A) = Len(recs) /\ \A i \in 1..Len(A) : A[i] = recs[i]
      BY <1>1, <2>3
    <2> QED  BY <2>1, <2>3, <2>4, SeqEqual
  <1> QED  BY <1>2, <1>5, <1>6 DEF FindsAll

\* A file of records is decoded to these records.
LEMMA DecodeWhole ==
    ASSUME NEW B \in Seq(Nat), NEW S, NEW recs \in Seq(S), Holds(B, recs)
    PROVE  Decoded(B) = [ok |-> TRUE, records |-> recs]
  <1>1. PICK g : /\ Decodes(B, g)
                 /\ Decoded(B) = IF B = <<>> THEN NoRecords
                                 ELSE IF ~IsPrefix(WAL_MAGIC, B) THEN Corrupt
                                 ELSE g[Len(WAL_MAGIC) + 1]
    BY DecodedIs
  <1>2. Len(WAL_MAGIC) + 1 = 3
    BY DEF WAL_MAGIC
  <1>3. CASE B = <<>> /\ recs = <<>>
    BY <1>1, <1>3, Zenon DEF NoRecords
  <1>4. ASSUME NEW pos, Chain(B, pos, recs, Len(B) + 1)
        PROVE  Decoded(B) = [ok |-> TRUE, records |-> recs]
    <2>1. Len(B) >= 2 /\ B[1] = 7 /\ B[2] = 7
      BY <1>4 DEF Chain
    <2>2. IsPrefix(WAL_MAGIC, B) /\ B /= <<>>
      BY <2>1, MagicThere
    <2>3. Decoded(B) = g[3]
      BY <1>1, <1>2, <2>2, Zenon
    <2>4. g[Len(B) + 1] = NoRecords
      <3>1. Len(B) + 1 \in 1..Len(B) + 1
        OBVIOUS
      <3>2. g[Len(B) + 1] = DecodedFrom(B, g, Len(B) + 1)
        BY <1>1, <3>1 DEF Decodes
      <3> QED  BY <3>2 DEF DecodedFrom
    <2>5. g[Len(B) + 1] = NoRecords => g[3] = [ok |-> TRUE, records |-> recs]
      <3>1. PICK e : e = Len(B) + 1 /\ Chain(B, pos, recs, e)
        BY <1>4
      <3>2. FindsAll(g, e, recs)
        BY <1>1, <3>1, ChainDecoded
      <3> QED  BY <3>1, <3>2, Zenon DEF FindsAll
    <2> QED  BY <2>3, <2>4, <2>5, Zenon
  <1> QED  BY <1>3, <1>4 DEF Holds

\* A file that ends in a part is refused.
LEMMA DecodeCut ==
    ASSUME NEW B \in Seq(Nat), EndsCut(B)
    PROVE  ~Decoded(B).ok
  <1>1. PICK g : /\ Decodes(B, g)
                 /\ Decoded(B) = IF B = <<>> THEN NoRecords
                                 ELSE IF ~IsPrefix(WAL_MAGIC, B) THEN Corrupt
                                 ELSE g[Len(WAL_MAGIC) + 1]
    BY DecodedIs
  <1>2. Len(WAL_MAGIC) + 1 = 3
    BY DEF WAL_MAGIC
  <1>3. CASE Len(B) = 1
    <2>1. B /= <<>> /\ ~IsPrefix(WAL_MAGIC, B)
      BY <1>3, MagicThere
    <2>2. Decoded(B) = Corrupt
      BY <1>1, <2>1
    <2> QED  BY <2>2 DEF Corrupt
  <1>4. ASSUME NEW pos, NEW recs, NEW e, recs \in Seq(Records), Chain(B, pos, recs, e),
               e \in 1..Len(B), e = Len(B) \/ NextAt(B, e) > Len(B) + 1
        PROVE  ~Decoded(B).ok
    <2>1. Len(B) >= 2 /\ B[1] = 7 /\ B[2] = 7
      BY <1>4 DEF Chain
    <2>2. IsPrefix(WAL_MAGIC, B) /\ B /= <<>>
      BY <2>1, MagicThere
    <2>3. Decoded(B) = g[3]
      BY <1>1, <1>2, <2>2, Zenon
    <2>4. g[e] = Corrupt
      <3>1. e \in 1..Len(B) + 1 /\ e /= Len(B) + 1
        BY <1>4
      <3>2. g[e] = DecodedFrom(B, g, e)
        BY <1>1, <3>1 DEF Decodes
      <3> QED  BY <1>4, <3>1, <3>2 DEF DecodedFrom
    <2>5. g[3].ok = FALSE
      <3>1. FindsAll(g, e, recs)
        BY <1>1, <1>4, ChainDecoded
      <3> QED  BY <2>4, <3>1 DEF FindsAll
    <2> QED  BY <2>3, <2>5
  <1> QED  BY <1>3, <1>4 DEF EndsCut

------------------------------------------------------------------------------
(* How far an append has come *)

\* The file G is the beginning of the file F.
Begins(G, F) == /\ G \in Seq(Nat) /\ F \in Seq(Nat) /\ Len(G) <= Len(F)
                /\ \A i \in 1..Len(G) : G[i] = F[i]

\* Where the record begins when the file was pre, and where it ends.
Body(pre) == IF Len(pre) = 0 THEN 2 ELSE Len(pre)
Full(pre, r) == Body(pre) + 2 + Len(r.key) + Len(r.value)

\* F is pre with the record r behind it.
Laid(F, pre, r) ==
    /\ Begins(pre, F) /\ Len(F) = Full(pre, r)
    /\ r.key \in Seq(Nat) /\ r.value \in Seq(Nat) /\ r = [key |-> r.key, value |-> r.value]
    /\ Len(pre) = 0 => F[1] = 7 /\ F[2] = 7
    /\ F[Body(pre) + 1] = Len(r.key) /\ F[Body(pre) + 2] = Len(r.value)
    /\ \A i \in 1..Len(r.key) : F[Body(pre) + 2 + i] = r.key[i]
    /\ \A i \in 1..Len(r.value) : F[Body(pre) + 2 + Len(r.key) + i] = r.value[i]

\* A record of the beginning of a file is a record of the file.
LEMMA RecordStays ==
    ASSUME NEW A, NEW G, Begins(A, G), NEW c, NEW d, NEW r, RecordAt(A, c, d, r)
    PROVE  RecordAt(G, c, d, r)
  <1>1. A \in Seq(Nat) /\ G \in Seq(Nat)
    BY DEF Begins
  <1>2. PICK m \in Nat, n \in Nat : m = Len(A) /\ n = Len(G)
    BY <1>1
  <1>3. m <= n /\ \A i \in 1..m : A[i] = G[i]
    BY <1>2 DEF Begins
  <1>4. c \in 1..m /\ c + 1 \in 1..m /\ c \in Nat \ {0} /\ c + 1 <= m
    BY <1>2 DEF RecordAt
  <1>5. PICK a \in Nat, b \in Nat : a = A[c] /\ b = A[c + 1]
    BY <1>1, <1>2, <1>4
  <1>6. a = G[c] /\ b = G[c + 1]
    BY <1>3, <1>4, <1>5
  <1>7. d = c + 2 + a + b /\ d <= m + 1
    BY <1>2, <1>5 DEF RecordAt, NextAt
  <1>8. \A i \in 1..a : c + 1 + i \in 1..m
    BY <1>4, <1>7
  <1>9. \A i \in 1..b : c + 1 + a + i \in 1..m
    BY <1>4, <1>7
  <1>10. /\ r.key \in Seq(Nat) /\ Len(r.key) = a /\ \A i \in 1..a : r.key[i] = A[c + 1 + i]
         /\ r.value \in Seq(Nat) /\ Len(r.value) = b
         /\ \A i \in 1..b : r.value[i] = A[c + 1 + a + i]
         /\ r = [key |-> r.key, value |-> r.value]
    BY <1>5 DEF RecordAt
  <1>11. \A i \in 1..a : r.key[i] = G[c + 1 + i]
    BY <1>3, <1>8, <1>10
  <1>12. \A i \in 1..b : r.value[i] = G[c + 1 + a + i]
    BY <1>3, <1>9, <1>10
  <1>13. c + 1 <= n /\ d <= n + 1 /\ d = NextAt(G, c)
    BY <1>3, <1>4, <1>6, <1>7 DEF NextAt
  <1> QED  BY <1>2, <1>4, <1>6, <1>10, <1>11, <1>12, <1>13 DEF RecordAt

\* So are all its records.
LEMMA ChainStays ==
    ASSUME NEW A, NEW G, Begins(A, G), NEW pos, NEW recs, NEW e, Chain(A, pos, recs, e)
    PROVE  Chain(G, pos, recs, e)
  <1>1. Len(G) >= 2 /\ G[1] = 7 /\ G[2] = 7
    <2>1. PICK m \in Nat, n \in Nat : m = Len(A) /\ n = Len(G)
      BY DEF Begins
    <2>2. m <= n /\ \A i \in 1..m : A[i] = G[i]
      BY <2>1 DEF Begins
    <2>3. m >= 2 /\ A[1] = 7 /\ A[2] = 7
      BY <2>1 DEF Chain
    <2> QED  BY <2>1, <2>2, <2>3
  <1>2. ASSUME NEW k \in 1..Len(recs) PROVE RecordAt(G, pos[k], pos[k + 1], recs[k])
    <2>1. PICK c, d, r : c = pos[k] /\ d = pos[k + 1] /\ r = recs[k]
      OBVIOUS
    <2>2. RecordAt(A, c, d, r)
      BY <1>2, <2>1, Zenon DEF Chain
    <2>3. RecordAt(G, c, d, r)
      BY <2>2, RecordStays
    <2> QED  BY <2>1, <2>3, Zenon
  <1> QED  BY <1>1, <1>2 DEF Chain

\* One more record.
LEMMA ChainGrows ==
    ASSUME NEW G, NEW pos, NEW S, NEW recs \in Seq(S), NEW e, Chain(G, pos, recs, e),
           NEW d \in Nat, NEW r \in S, RecordAt(G, e, d, r)
    PROVE  Chain(G, Append(pos, d), Append(recs, r), d)
  <1>1. PICK n \in Nat : n = Len(recs)
    OBVIOUS
  <1>2. PICK P : P = Append(pos, d)
    OBVIOUS
  <1>3. PICK Q : Q = Append(recs, r)
    OBVIOUS
  <1>4. pos \in Seq(Nat) /\ Len(pos) = n + 1 /\ pos[1] = 3 /\ pos[n + 1] = e
    BY <1>1 DEF Chain
  <1>5. P \in Seq(Nat) /\ Len(P) = n + 2 /\ P[n + 2] = d /\ \A i \in 1..n + 1 : P[i] = pos[i]
    <2>1. P \in Seq(Nat) /\ Len(P) = Len(pos) + 1 /\ P[Len(pos) + 1] = d
          /\ \A i \in 1..Len(pos) : P[i] = pos[i]
      BY <1>2, <1>4, AppendProperties
    <2>2. Len(pos) + 1 = n + 2
      BY <1>4
    <2> QED  BY <1>4, <2>1, <2>2
  <1>6. Q \in Seq(S) /\ Len(Q) = n + 1 /\ Q[n + 1] = r /\ \A i \in 1..n : Q[i] = recs[i]
    BY <1>1, <1>3, AppendProperties
  <1>7. ASSUME NEW k \in 1..n + 1 PROVE RecordAt(G, P[k], P[k + 1], Q[k])
    <2>1. CASE k = n + 1
      <3>1. P[k] = e /\ P[k + 1] = d /\ Q[k] = r
        <4>1. k + 1 = n + 2 /\ n + 1 \in 1..n + 1
          BY <2>1
        <4> QED  BY <1>4, <1>5, <1>6, <2>1, <4>1
      <3> QED  BY <3>1, Zenon
    <2>2. CASE k /= n + 1
      <3>1. k \in 1..n /\ k + 1 \in 1..n + 1 /\ k \in 1..Len(recs)
        BY <1>1, <1>7, <2>2
      <3>2. RecordAt(G, pos[k], pos[k + 1], recs[k])
        BY <3>1, Zenon DEF Chain
      <3>3. P[k] = pos[k] /\ P[k + 1] = pos[k + 1] /\ Q[k] = recs[k]
        BY <1>5, <1>6, <1>7, <3>1
      <3> QED  BY <3>2, <3>3, Zenon
    <2> QED  BY <2>1, <2>2
  <1>8. Len(G) >= 2 /\ G[1] = 7 /\ G[2] = 7
    BY DEF Chain
  <1>9. P[1] = 3 /\ P[Len(P)] = d /\ Len(P) = Len(Q) + 1
    BY <1>4, <1>5, <1>6
  <1>10. \A k \in 1..Len(Q) : RecordAt(G, P[k], P[k + 1], Q[k])
    BY <1>6, <1>7
  <1>11. Chain(G, P, Q, d)
    BY <1>5, <1>8, <1>9, <1>10 DEF Chain
  <1> QED  BY <1>2, <1>3, <1>11

\* The records of pre, in a file that reaches beyond where the next one begins.
LEMMA ChainBefore ==
    ASSUME NEW F, NEW pre, NEW r, Laid(F, pre, r), NEW recs \in Seq(Records), Holds(pre, recs),
           NEW G, Begins(G, F), Len(G) >= Body(pre)
    PROVE  \E pos : Chain(G, pos, recs, Body(pre) + 1)
  <1>1. pre \in Seq(Nat) /\ F \in Seq(Nat) /\ G \in Seq(Nat) /\ Begins(pre, F)
    BY DEF Begins, Laid
  <1>2. PICK m \in Nat, n \in Nat : m = Len(pre) /\ n = Len(G)
    BY <1>1
  <1>3. CASE pre = <<>> /\ recs = <<>>
    <2>1. m = 0 /\ Body(pre) = 2
      BY <1>2, <1>3 DEF Body
    <2>2. F[1] = 7 /\ F[2] = 7
      BY <1>2, <2>1 DEF Laid
    <2>3. n >= 2 /\ G[1] = 7 /\ G[2] = 7
      BY <1>2, <2>1, <2>2 DEF Begins
    <2>4. PICK pos : pos = <<3>>
      OBVIOUS
    <2>5. pos \in Seq(Nat) /\ Len(pos) = 1 /\ pos[1] = 3 /\ Len(recs) = 0
      BY <1>3, <2>4
    <2>6. Chain(G, pos, recs, 3)
      BY <1>2, <2>3, <2>5 DEF Chain
    <2>7. Body(pre) + 1 = 3
      BY <2>1
    <2> QED  BY <2>6, <2>7
  <1>4. ASSUME NEW pos, Chain(pre, pos, recs, Len(pre) + 1)
        PROVE  Chain(G, pos, recs, Body(pre) + 1)
    <2>1. m >= 2
      BY <1>2, <1>4 DEF Chain
    <2>2. Body(pre) = m
      BY <1>2, <2>1 DEF Body
    <2>3. Begins(pre, G)
      <3>1. m <= n
        BY <1>2, <2>2
      <3>2. ASSUME NEW i \in 1..m PROVE pre[i] = G[i]
        <4>1. i \in 1..n
          BY <3>1
        <4> QED  BY <1>1, <1>2, <4>1 DEF Begins
      <3> QED  BY <1>1, <1>2, <3>1, <3>2 DEF Begins
    <2>4. PICK e : e = Len(pre) + 1
      OBVIOUS
    <2>5. Chain(G, pos, recs, e)
      BY <1>4, <2>3, <2>4, ChainStays
    <2> QED  BY <1>2, <2>2, <2>4, <2>5
  <1> QED  BY <1>3, <1>4 DEF Holds

\* Wherever a file that is being appended to is cut: before the record and behind
\* the magic it is whole, behind the record it is whole with it, elsewhere it ends
\* in a part.
LEMMA CutAnywhere ==
    ASSUME NEW F, NEW pre, NEW r \in Records, Laid(F, pre, r), NEW recs \in Seq(Records),
           Holds(pre, recs), NEW G, Begins(G, F), Len(pre) <= Len(G)
    PROVE  /\ Len(G) = Len(pre) \/ Len(G) = Body(pre) => Holds(G, recs)
           /\ Len(G) = Full(pre, r) => Holds(G, Append(recs, r))
           /\ (Len(G) /= Len(pre) /\ Len(G) /= Body(pre) /\ Len(G) /= Full(pre, r)) => EndsCut(G)
  <1>1. pre \in Seq(Nat) /\ F \in Seq(Nat) /\ G \in Seq(Nat) /\ Begins(pre, F)
    BY DEF Begins, Laid
  <1>2. PICK m \in Nat, n \in Nat, f \in Nat : m = Len(pre) /\ n = Len(G) /\ f = Len(F)
    BY <1>1
  <1>3. /\ r.key \in Seq(Nat) /\ r.value \in Seq(Nat) /\ r = [key |-> r.key, value |-> r.value]
    BY DEF Laid
  <1>4. PICK a \in Nat, b \in Nat : a = Len(r.key) /\ b = Len(r.value)
    <2>1. PICK key \in Seq(Nat), value \in Seq(Nat) : key = r.key /\ value = r.value
      BY <1>3, Zenon
    <2>2. Len(key) \in Nat /\ Len(value) \in Nat
      OBVIOUS
    <2> QED  BY <2>1, <2>2, Zenon
  <1>5. PICK p \in Nat : p = Body(pre) /\ p >= 2 /\ p >= m /\ (p /= m => m = 0 /\ p = 2)
    <2>1. m /= 1
      <3>1. CASE pre = <<>>
        BY <1>2, <3>1
      <3>2. ASSUME NEW pos, Chain(pre, pos, recs, Len(pre) + 1) PROVE m /= 1
        BY <1>2, <3>2 DEF Chain
      <3> QED  BY <3>1, <3>2 DEF Holds
    <2> QED  BY <1>2, <2>1 DEF Body
  <1>6. Full(pre, r) = p + 2 + a + b /\ f = p + 2 + a + b /\ n <= f /\ m <= n
    BY <1>2, <1>4, <1>5 DEF Full, Laid, Begins
  <1>7. \A i \in 1..n : G[i] = F[i]
    BY <1>2 DEF Begins
  <1>8. CASE n = m
    <2>1. Len(G) = Len(pre) /\ \A i \in 1..Len(G) : G[i] = pre[i]
      BY <1>1, <1>2, <1>7, <1>8 DEF Begins
    <2>2. G = pre
      BY <1>1, <2>1, SeqEqual
    <2>3. Holds(G, recs)
      BY <2>2
    <2>4. Len(G) /= Full(pre, r)
      BY <1>2, <1>5, <1>6, <1>8
    <2> QED  BY <1>2, <1>8, <2>3, <2>4
  <1>9. CASE n /= m /\ n < p
    <2>1. n = 1
      BY <1>5, <1>6, <1>9
    <2>2. EndsCut(G)
      BY <1>2, <2>1 DEF EndsCut
    <2> QED  BY <1>2, <1>5, <1>6, <1>9, <2>2
  <1>10. CASE n /= m /\ n >= p
    <2>1. PICK pos : Chain(G, pos, recs, p + 1)
      BY <1>2, <1>5, <1>10, ChainBefore
    <2>2. CASE n = p
      <3>1. Chain(G, pos, recs, Len(G) + 1)
        BY <1>2, <2>1, <2>2
      <3>2. Holds(G, recs)
        BY <3>1 DEF Holds
      <3> QED  BY <1>2, <1>5, <1>6, <2>2, <3>2
    <2>3. F[p + 1] = a /\ F[p + 2] = b
      BY <1>4, <1>5 DEF Laid
    <2>4. CASE n = p + 2 + a + b
      <3>1. G[p + 1] = a /\ G[p + 2] = b
        <4>1. p + 1 \in 1..n /\ p + 2 \in 1..n
          BY <2>4
        <4> QED  BY <1>7, <2>3, <4>1
      <3>2. ASSUME NEW i \in 1..a PROVE r.key[i] = G[(p + 1) + 1 + i]
        <4>1. F[p + 2 + i] = r.key[i]
          BY <1>4, <1>5 DEF Laid
        <4>2. (p + 1) + 1 + i \in 1..n /\ (p + 1) + 1 + i = p + 2 + i
          BY <2>4
        <4> QED  BY <1>7, <4>1, <4>2
      <3>3. ASSUME NEW i \in 1..b PROVE r.value[i] = G[(p + 1) + 1 + a + i]
        <4>1. F[p + 2 + a + i] = r.value[i]
          BY <1>4, <1>5 DEF Laid
        <4>2. (p + 1) + 1 + a + i \in 1..n /\ (p + 1) + 1 + a + i = p + 2 + a + i
          BY <2>4
        <4> QED  BY <1>7, <4>1, <4>2
      <3>4. PICK e \in Nat, d \in Nat : e = p + 1 /\ d = n + 1
        OBVIOUS
      <3>5. e \in Nat \ {0} /\ e + 1 <= n /\ d <= n + 1 /\ G[e] = a /\ G[e + 1] = b
        BY <2>4, <3>1, <3>4
      <3>6. d = NextAt(G, e)
        BY <2>4, <3>4, <3>5 DEF NextAt
      <3>7. RecordAt(G, e, d, r)
        BY <1>2, <1>3, <1>4, <3>2, <3>3, <3>4, <3>5, <3>6 DEF RecordAt
      <3>8. Chain(G, pos, recs, e)
        BY <2>1, <3>4
      <3>9. Chain(G, Append(pos, d), Append(recs, r), d)
        BY <3>7, <3>8, ChainGrows
      <3>10. Holds(G, Append(recs, r))
        BY <1>2, <3>4, <3>9 DEF Holds
      <3>11. n /= m /\ n /= p
        BY <1>10, <2>4
      <3> QED  BY <1>2, <1>5, <1>6, <2>4, <3>10, <3>11
    <2>5. CASE n /= p /\ n /= p + 2 + a + b
      <3>1. p + 1 \in 1..n /\ n < p + 2 + a + b
        BY <1>6, <1>10, <2>5
      <3>2. p + 1 = n \/ NextAt(G, p + 1) > n + 1
        <4>1. SUFFICES ASSUME p + 1 /= n PROVE NextAt(G, p + 1) > n + 1
          OBVIOUS
        <4>2. p + 2 \in 1..n /\ (p + 1) + 1 = p + 2
          BY <3>1, <4>1
        <4>3. G[p + 1] = a /\ G[(p + 1) + 1] = b
          BY <1>7, <2>3, <3>1, <4>2
        <4>4. NextAt(G, p + 1) = (p + 1) + 2 + a + b
          BY <4>3 DEF NextAt
        <4> QED  BY <3>1, <4>4
      <3>3. EndsCut(G)
        BY <1>2, <2>1, <3>1, <3>2 DEF EndsCut
      <3> QED  BY <1>2, <1>5, <1>6, <1>10, <2>5, <3>3
    <2> QED  BY <2>2, <2>4, <2>5
  <1> QED  BY <1>5, <1>6, <1>8, <1>9, <1>10

\* C is A with B behind it.
Joins(A, B, C) == /\ Begins(A, C) /\ Len(C) = Len(A) + Len(B)
                  /\ \A i \in 1..Len(B) : C[Len(A) + i] = B[i]

\* Beginnings of beginnings.
LEMMA BeginsTrans ==
    ASSUME NEW A, NEW B, NEW C, Begins(A, B), Begins(B, C)
    PROVE  Begins(A, C)
  <1>1. PICK a \in Nat, b \in Nat, c \in Nat : a = Len(A) /\ b = Len(B) /\ c = Len(C)
    BY DEF Begins
  <1>2. a <= b /\ b <= c /\ \A i \in 1..b : B[i] = C[i]
    BY <1>1 DEF Begins
  <1>3. ASSUME NEW i \in 1..a PROVE A[i] = C[i]
    <2>1. A[i] = B[i] /\ i \in 1..b
      BY <1>1, <1>2 DEF Begins
    <2> QED  BY <1>2, <2>1
  <1> QED  BY <1>1, <1>2, <1>3 DEF Begins

\* Concatenation joins.
LEMMA ConcatJoins ==
    ASSUME NEW A \in Seq(Nat), NEW B \in Seq(Nat)
    PROVE  Joins(A, B, A \o B)
  <1>1. PICK C : C = A \o B
    OBVIOUS
  <1>2. PICK a \in Nat, b \in Nat : a = Len(A) /\ b = Len(B)
    OBVIOUS
  <1>3. C \in Seq(Nat) /\ Len(C) = a + b
    BY <1>1, <1>2, ConcatProperties
  <1>4. \A i \in 1..a + b : C[i] = IF i <= a THEN A[i] ELSE B[i - a]
    BY <1>1, <1>2, ConcatProperties
  <1>5. ASSUME NEW i \in 1..a PROVE A[i] = C[i]
    <2>1. i \in 1..a + b /\ i <= a
      OBVIOUS
    <2> QED  BY <1>4, <2>1
  <1>6. ASSUME NEW i \in 1..b PROVE C[a + i] = B[i]
    <2>1. a + i \in 1..a + b /\ ~(a + i <= a) /\ (a + i) - a = i
      OBVIOUS
    <2> QED  BY <1>4, <2>1
  <1>7. Begins(A, C)
    BY <1>2, <1>3, <1>5 DEF Begins
  <1>8. Joins(A, B, C)
    BY <1>2, <1>3, <1>6, <1>7 DEF Joins
  <1> QED  BY <1>1, <1>8

\* The file after each of the writes of an append.
WithMagic(pre) == pre \o Magic(Len(pre))
WithHeader(pre, r) == WithMagic(pre) \o header(r)
WithKey(pre, r) == WithHeader(pre, r) \o r.key
WithValue(pre, r) == WithKey(pre, r) \o r.value

\* The writes of an append lay a record behind the file, and each of them leaves a
\* beginning of the result.
LEMMA WritesLay ==
    ASSUME NEW pre \in Seq(Nat), NEW r \in Records
    PROVE  /\ Laid(WithValue(pre, r), pre, r)
           /\ Begins(pre, WithValue(pre, r)) /\ Begins(WithMagic(pre), WithValue(pre, r))
           /\ Begins(WithHeader(pre, r), WithValue(pre, r))
           /\ Begins(WithKey(pre, r), WithValue(pre, r))
           /\ Begins(WithValue(pre, r), WithValue(pre, r))
           /\ Body(pre) = Len(pre) + Len(Magic(Len(pre)))
           /\ Full(pre, r) = Body(pre) + Len(header(r) \o r.key \o r.value)
  <1>1. PICK key \in Seq(Nat), value \in Seq(Nat) :
            key = r.key /\ value = r.value /\ r = [key |-> key, value |-> value]
    BY WalAssumption DEF Records
  <1>2. PICK m \in Nat, a \in Nat, b \in Nat : m = Len(pre) /\ a = Len(key) /\ b = Len(value)
    OBVIOUS
  <1>3. PICK M \in Seq(Nat) : /\ M = Magic(Len(pre))
                              /\ m = 0 => Len(M) = 2 /\ M[1] = 7 /\ M[2] = 7
                              /\ m /= 0 => Len(M) = 0
    <2>1. CASE m = 0
      <3>1. <<7, 7>> \in Seq(Nat) /\ Len(<<7, 7>>) = 2
        OBVIOUS
      <3>2. <<7, 7>>[1] = 7 /\ <<7, 7>>[2] = 7
        OBVIOUS
      <3>3. Magic(Len(pre)) = <<7, 7>>
        BY <1>2, <2>1 DEF Magic, WAL_MAGIC
      <3> QED  BY <2>1, <3>1, <3>2, <3>3, Zenon
    <2>2. CASE m /= 0
      <3>1. Magic(Len(pre)) = <<>>
        BY <1>2, <2>2 DEF Magic
      <3>2. <<>> \in Seq(Nat) /\ Len(<<>>) = 0
        OBVIOUS
      <3> QED  BY <2>2, <3>1, <3>2, Zenon
    <2> QED  BY <2>1, <2>2
  <1>4. PICK H \in Seq(Nat) : H = header(r) /\ Len(H) = 2 /\ H[1] = a /\ H[2] = b
    <2>1. <<a, b>> \in Seq(Nat) /\ Len(<<a, b>>) = 2
      OBVIOUS
    <2>2. <<a, b>>[1] = a /\ <<a, b>>[2] = b
      OBVIOUS
    <2>3. header(r) = <<a, b>>
      BY <1>1, <1>2, Zenon DEF header
    <2> QED  BY <2>1, <2>2, <2>3, Zenon
  <1>5. PICK p \in Nat : p = Body(pre) /\ p = m + Len(M) /\ (m = 0 => p = 2)
    <2>1. PICK l \in Nat : l = Len(M) /\ (m = 0 => l = 2) /\ (m /= 0 => l = 0)
      BY <1>3
    <2>2. Body(pre) = IF m = 0 THEN 2 ELSE m
      BY <1>2 DEF Body
    <2>3. Body(pre) \in Nat /\ Body(pre) = m + l /\ (m = 0 => Body(pre) = 2)
      <3>1. CASE m = 0
        BY <2>1, <2>2, <3>1
      <3>2. CASE m /= 0
        BY <2>1, <2>2, <3>2
      <3> QED  BY <3>1, <3>2
    <2> QED  BY <2>1, <2>3
  <1>6. PICK X2 : X2 = pre \o M
    OBVIOUS
  <1>7. PICK X3 : X3 = X2 \o H
    OBVIOUS
  <1>8. PICK X4 : X4 = X3 \o key
    OBVIOUS
  <1>9. PICK X5 : X5 = X4 \o value
    OBVIOUS
  <1>10. X2 = WithMagic(pre)
    BY <1>3, <1>6, Zenon DEF WithMagic
  <1>11. X3 = WithHeader(pre, r)
    BY <1>4, <1>7, <1>10, Zenon DEF WithHeader
  <1>12. X4 = WithKey(pre, r)
    BY <1>1, <1>8, <1>11, Zenon DEF WithKey
  <1>13. X5 = WithValue(pre, r)
    BY <1>1, <1>9, <1>12, Zenon DEF WithValue
  <1>14. Joins(pre, M, X2) /\ X2 \in Seq(Nat)
    <2>1. Joins(pre, M, X2)
      BY <1>6, ConcatJoins
    <2> QED  BY <2>1 DEF Joins, Begins
  <1>15. Joins(X2, H, X3) /\ X3 \in Seq(Nat)
    <2>1. Joins(X2, H, X3)
      BY <1>7, <1>14, ConcatJoins
    <2> QED  BY <2>1 DEF Joins, Begins
  <1>16. Joins(X3, key, X4) /\ X4 \in Seq(Nat)
    <2>1. Joins(X3, key, X4)
      BY <1>8, <1>15, ConcatJoins
    <2> QED  BY <2>1 DEF Joins, Begins
  <1>17. Joins(X4, value, X5) /\ X5 \in Seq(Nat)
    <2>1. Joins(X4, value, X5)
      BY <1>9, <1>16, ConcatJoins
    <2> QED  BY <2>1 DEF Joins, Begins
  <1>18. Begins(X5, X5)
    BY <1>17 DEF Begins
  <1>19. Begins(X4, X5)
    BY <1>17 DEF Joins
  <1>20. Begins(X3, X5)
    BY <1>16, <1>19, BeginsTrans DEF Joins
  <1>21. Begins(X2, X5)
    BY <1>15, <1>20, BeginsTrans DEF Joins
  <1>22. Begins(pre, X5)
    BY <1>14, <1>21, BeginsTrans DEF Joins
  <1>23. Len(X2) = p /\ Len(X3) = p + 2 /\ Len(X4) = p + 2 + a /\ Len(X5) = p + 2 + a + b
    <2>1. Len(X2) = p
      BY <1>2, <1>5, <1>14 DEF Joins
    <2>2. Len(X3) = p + 2
      BY <1>4, <1>15, <2>1 DEF Joins
    <2>3. Len(X4) = p + 2 + a
      BY <1>2, <1>16, <2>2 DEF Joins
    <2>4. Len(X5) = p + 2 + a + b
      BY <1>2, <1>17, <2>3 DEF Joins
    <2> QED  BY <2>1, <2>2, <2>3, <2>4
  <1>24. ASSUME m = 0 PROVE X5[1] = 7 /\ X5[2] = 7
    <2>1. Len(M) = 2 /\ M[1] = 7 /\ M[2] = 7 /\ Len(X2) = 2
      BY <1>3, <1>5, <1>23, <1>24
    <2>2. \A i \in 1..2 : X2[m + i] = M[i]
      BY <1>2, <1>14, <2>1 DEF Joins
    <2>3. X2[1] = 7 /\ X2[2] = 7
      <3>1. m + 1 = 1 /\ m + 2 = 2
        BY <1>24
      <3> QED  BY <2>1, <2>2, <3>1
    <2> QED  BY <1>21, <2>1, <2>3 DEF Begins
  <1>25. X5[p + 1] = a /\ X5[p + 2] = b
    <2>1. X3[p + 1] = a /\ X3[p + 2] = b
      <3>1. \A i \in 1..2 : X3[p + i] = H[i]
        BY <1>4, <1>15, <1>23 DEF Joins
      <3> QED  BY <1>4, <3>1
    <2>2. \A i \in 1..p + 2 : X3[i] = X5[i]
      BY <1>20, <1>23 DEF Begins
    <2>3. p + 1 \in 1..p + 2 /\ p + 2 \in 1..p + 2
      OBVIOUS
    <2> QED  BY <2>1, <2>2, <2>3
  <1>26. ASSUME NEW i \in 1..a PROVE X5[p + 2 + i] = key[i]
    <2>1. X4[p + 2 + i] = key[i]
      BY <1>2, <1>16, <1>23 DEF Joins
    <2>2. \A j \in 1..p + 2 + a : X4[j] = X5[j]
      BY <1>19, <1>23 DEF Begins
    <2>3. p + 2 + i \in 1..p + 2 + a
      OBVIOUS
    <2> QED  BY <2>1, <2>2, <2>3
  <1>27. ASSUME NEW i \in 1..b PROVE X5[p + 2 + a + i] = value[i]
    BY <1>2, <1>17, <1>23 DEF Joins
  <1>28. Full(pre, r) = p + 2 + a + b
    BY <1>1, <1>2, <1>5 DEF Full
  <1>29. Laid(X5, pre, r)
    BY <1>1, <1>2, <1>5, <1>22, <1>23, <1>24, <1>25, <1>26, <1>27, <1>28 DEF Laid
  <1>30. Len(header(r) \o r.key \o r.value) = 2 + a + b
    <2>1. PICK Y : Y = H \o key
      OBVIOUS
    <2>2. Y \in Seq(Nat) /\ Len(Y) = 2 + a
      <3>1. Y \in Seq(Nat) /\ Len(Y) = Len(H) + Len(key)
        BY <2>1, ConcatProperties
      <3> QED  BY <1>2, <1>4, <3>1
    <2>3. Len(Y \o value) = 2 + a + b
      <3>1. Len(Y \o value) = Len(Y) + Len(value)
        BY <2>2, ConcatProperties
      <3> QED  BY <1>2, <2>2, <3>1
    <2> QED  BY <1>1, <1>4, <2>1, <2>3, Zenon
  <1>31. Body(pre) = Len(pre) + Len(Magic(Len(pre)))
    BY <1>2, <1>3, <1>5
  <1>32. Full(pre, r) = Body(pre) + Len(header(r) \o r.key \o r.value)
    BY <1>5, <1>28, <1>30
  <1> QED  BY <1>10, <1>11, <1>12, <1>13, <1>18, <1>19, <1>20, <1>21, <1>22, <1>29, <1>31, <1>32, Zenon

------------------------------------------------------------------------------
(* The inductive invariant *)

\* How far the call in progress has come when the file was pre: what is left to
\* write and what is written.
Stage(pre, left, file, r) ==
    \/ left = <<Magic(Len(pre)), header(r), r.key, r.value, Sync>> /\ file = pre
    \/ left = <<header(r), r.key, r.value, Sync>> /\ file = WithMagic(pre)
    \/ left = <<r.key, r.value, Sync>> /\ file = WithHeader(pre, r)
    \/ left = <<r.value, Sync>> /\ file = WithKey(pre, r)
    \/ left = <<Sync>> /\ file = WithValue(pre, r)

\* Between two calls the file is durable, and it is whole or it ends in a part.
IdleInv == durable = Len(wal) /\ (IF cut THEN EndsCut(wal) ELSE Holds(wal, recorded))

\* During a call the file was whole when it began, that much of it is durable, and
\* what was written since is a part of the record.
BusyInv ==
    /\ ~cut /\ record \in Records /\ durable = start
    /\ \E pre \in Seq(Nat) : /\ Holds(pre, recorded) /\ Len(pre) = start
                             /\ Stage(pre, todo, wal, record)

\* Until a record is appended behind a part of one, the file is what the history
\* says it is.
WalInv ==
    ~buried => /\ recorded \in Seq(Records) /\ wal \in Seq(Nat)
               /\ IF todo = <<>> THEN IdleInv ELSE BusyInv

\* The invariant says what replay returns.
LEMMA WalInvReplay == WalInv => ReplayFaithful
  <1> SUFFICES ASSUME WalInv, todo = <<>>, ~buried
               PROVE  IF cut THEN ~wal_replay.ok
                      ELSE wal_replay = [ok |-> TRUE, records |-> recorded]
    BY Zenon DEF ReplayFaithful
  <1>1. recorded \in Seq(Records) /\ wal \in Seq(Nat) /\ IdleInv
    BY DEF WalInv
  <1>2. PICK B \in Seq(Nat), recs \in Seq(Records) : B = wal /\ recs = recorded
    BY <1>1
  <1>3. CASE cut
    <2>1. EndsCut(B)
      BY <1>1, <1>2, <1>3 DEF IdleInv
    <2>2. ~Decoded(B).ok
      BY <2>1, DecodeCut
    <2> QED  BY <1>2, <1>3, <2>2, Zenon DEF wal_replay
  <1>4. CASE ~cut
    <2>1. Holds(B, recs)
      BY <1>1, <1>2, <1>4 DEF IdleInv
    <2>2. Decoded(B) = [ok |-> TRUE, records |-> recs]
      BY <2>1, DecodeWhole
    <2> QED  BY <1>2, <1>4, <2>2, Zenon DEF wal_replay
  <1> QED  BY <1>3, <1>4

\* It holds of the empty file.
LEMMA WalInvInit == WalInit => WalInv
  <1> SUFFICES ASSUME WalInit PROVE WalInv
    OBVIOUS
  <1>1. wal = <<>> /\ recorded = <<>> /\ durable = 0 /\ todo = <<>> /\ cut = FALSE
    BY DEF WalInit
  <1>2. Holds(wal, recorded)
    BY <1>1 DEF Holds
  <1>3. durable = Len(wal) /\ wal \in Seq(Nat) /\ recorded \in Seq(Records)
    BY <1>1
  <1>4. IdleInv
    BY <1>1, <1>2, <1>3 DEF IdleInv
  <1> QED  BY <1>1, <1>3, <1>4 DEF WalInv

\* A call begins.
LEMMA AppendKeeps ==
    ASSUME WalInv, NEW r \in Records, wal_append(r)
    PROVE  WalInv'
  <1> SUFFICES ASSUME ~buried' PROVE WalInv'
    BY DEF WalInv
  <1>1. todo = <<>> /\ ~buried /\ ~cut
    BY DEF wal_append
  <1>2. recorded \in Seq(Records) /\ wal \in Seq(Nat) /\ IdleInv
    BY <1>1 DEF WalInv
  <1>3. PICK pre \in Seq(Nat), recs \in Seq(Records) : pre = wal /\ recs = recorded
    BY <1>2
  <1>4. Holds(pre, recs) /\ durable = Len(pre)
    BY <1>1, <1>2, <1>3 DEF IdleInv
  <1>5. /\ wal' = pre /\ recorded' = recs /\ durable' = durable /\ cut' = cut /\ record' = r
        /\ start' = Len(pre) /\ todo' = <<Magic(Len(pre)), header(r), r.key, r.value, Sync>>
    BY <1>3, Zenon DEF wal_append
  <1>6. Stage(pre, todo', wal', record')
    BY <1>5, Zenon DEF Stage
  <1>7. BusyInv'
    BY <1>1, <1>4, <1>5, <1>6, Zenon DEF BusyInv
  <1>8. todo' /= <<>>
    BY <1>5
  <1> QED  BY <1>3, <1>5, <1>7, <1>8, Zenon DEF WalInv

\* A write moves the call to the next stage.
LEMMA StageMoves ==
    ASSUME NEW pre \in Seq(Nat), NEW r \in Records, NEW left, NEW file,
           Stage(pre, left, file, r), Len(left) > 1
    PROVE  Stage(pre, Tail(left), file \o Head(left), r) /\ Tail(left) /= <<>>
  <1>1. PICK M, H, K, V, Z : M = Magic(Len(pre)) /\ H = header(r) /\ K = r.key /\ V = r.value /\ Z = Sync
    OBVIOUS
  <1>2. CASE left = <<M, H, K, V, Z>> /\ file = pre
    <2>1. Head(left) = M /\ Tail(left) = <<H, K, V, Z>>
      BY <1>2
    <2>2. file \o Head(left) = WithMagic(pre)
      BY <1>1, <1>2, <2>1, Zenon DEF WithMagic
    <2>3. Tail(left) /= <<>>
      <3>1. <<H, K, V, Z>> /= <<>>
        OBVIOUS
      <3> QED  BY <2>1, <3>1, Zenon
    <2> QED  BY <1>1, <2>1, <2>2, <2>3, Zenon DEF Stage
  <1>3. CASE left = <<H, K, V, Z>> /\ file = WithMagic(pre)
    <2>1. Head(left) = H /\ Tail(left) = <<K, V, Z>>
      BY <1>3
    <2>2. file \o Head(left) = WithHeader(pre, r)
      BY <1>1, <1>3, <2>1, Zenon DEF WithHeader
    <2>3. Tail(left) /= <<>>
      <3>1. <<K, V, Z>> /= <<>>
        OBVIOUS
      <3> QED  BY <2>1, <3>1, Zenon
    <2> QED  BY <1>1, <2>1, <2>2, <2>3, Zenon DEF Stage
  <1>4. CASE left = <<K, V, Z>> /\ file = WithHeader(pre, r)
    <2>1. Head(left) = K /\ Tail(left) = <<V, Z>>
      BY <1>4
    <2>2. file \o Head(left) = WithKey(pre, r)
      BY <1>1, <1>4, <2>1, Zenon DEF WithKey
    <2>3. Tail(left) /= <<>>
      <3>1. <<V, Z>> /= <<>>
        OBVIOUS
      <3> QED  BY <2>1, <3>1, Zenon
    <2> QED  BY <1>1, <2>1, <2>2, <2>3, Zenon DEF Stage
  <1>5. CASE left = <<V, Z>> /\ file = WithKey(pre, r)
    <2>1. Head(left) = V /\ Tail(left) = <<Z>>
      BY <1>5
    <2>2. file \o Head(left) = WithValue(pre, r)
      BY <1>1, <1>5, <2>1, Zenon DEF WithValue
    <2>3. Tail(left) /= <<>>
      <3>1. <<Z>> /= <<>>
        OBVIOUS
      <3> QED  BY <2>1, <3>1, Zenon
    <2> QED  BY <1>1, <2>1, <2>2, <2>3, Zenon DEF Stage
  <1>6. CASE left = <<Z>>
    BY <1>6
  <1> QED  BY <1>1, <1>2, <1>3, <1>4, <1>5, <1>6, Zenon DEF Stage

\* What is written so far is a beginning of what will be.
LEMMA StageBegins ==
    ASSUME NEW pre \in Seq(Nat), NEW r \in Records, NEW left, NEW file, Stage(pre, left, file, r)
    PROVE  Begins(file, WithValue(pre, r))
  <1>1. /\ Begins(pre, WithValue(pre, r)) /\ Begins(WithMagic(pre), WithValue(pre, r))
        /\ Begins(WithHeader(pre, r), WithValue(pre, r))
        /\ Begins(WithKey(pre, r), WithValue(pre, r))
        /\ Begins(WithValue(pre, r), WithValue(pre, r))
    BY WritesLay
  <1> QED  BY <1>1, Zenon DEF Stage

\* One of the writes of a call.
LEMMA WriteKeeps ==
    ASSUME WalInv, wal_write_all
    PROVE  WalInv'
  <1> SUFFICES ASSUME ~buried' PROVE WalInv'
    BY DEF WalInv
  <1>1. /\ Len(todo) > 1 /\ wal' = wal \o Head(todo) /\ todo' = Tail(todo)
        /\ durable' = durable /\ start' = start /\ record' = record /\ recorded' = recorded
        /\ cut' = cut /\ ~buried
    BY DEF wal_write_all
  <1>2. todo /= <<>>
    BY <1>1
  <1>3. recorded \in Seq(Records) /\ BusyInv
    BY <1>1, <1>2, Zenon DEF WalInv
  <1>4. PICK pre \in Seq(Nat) : /\ Holds(pre, recorded) /\ Len(pre) = start
                                /\ Stage(pre, todo, wal, record)
    BY <1>3, Zenon DEF BusyInv
  <1>5. PICK left, file : left = todo /\ file = wal
    OBVIOUS
  <1>r. PICK r \in Records : r = record
    BY <1>3 DEF BusyInv
  <1>6. Stage(pre, left, file, r) /\ Len(left) > 1
    BY <1>1, <1>4, <1>5, <1>r, Zenon
  <1>7. Stage(pre, Tail(left), file \o Head(left), r) /\ Tail(left) /= <<>>
    BY <1>6, StageMoves
  <1>8. Stage(pre, todo', wal', record') /\ todo' /= <<>>
    BY <1>1, <1>5, <1>7, <1>r, Zenon
  <1>9. BusyInv'
    BY <1>1, <1>3, <1>4, <1>8, Zenon DEF BusyInv
  <1>10. wal' \in Seq(Nat)
    <2>1. PICK left2, file2 : left2 = todo' /\ file2 = wal'
      OBVIOUS
    <2>2. Stage(pre, left2, file2, r)
      BY <1>1, <1>8, <1>r, <2>1, Zenon
    <2>3. Begins(file2, WithValue(pre, r))
      BY <2>2, StageBegins
    <2> QED  BY <2>1, <2>3 DEF Begins
  <1> QED  BY <1>1, <1>3, <1>8, <1>9, <1>10, Zenon DEF WalInv

\* A call whose writes are all done.
LEMMA StageDone ==
    ASSUME NEW pre \in Seq(Nat), NEW r \in Records, NEW file, Stage(pre, <<Sync>>, file, r)
    PROVE  file = WithValue(pre, r)
  <1>1. /\ <<Sync>> /= <<Magic(Len(pre)), header(r), r.key, r.value, Sync>>
        /\ <<Sync>> /= <<header(r), r.key, r.value, Sync>>
        /\ <<Sync>> /= <<r.key, r.value, Sync>>
        /\ <<Sync>> /= <<r.value, Sync>>
    OBVIOUS
  <1> QED  BY <1>1, Zenon DEF Stage

\* The sync at the end of a call.
LEMMA SyncKeeps ==
    ASSUME WalInv, wal_sync_data
    PROVE  WalInv'
  <1> SUFFICES ASSUME ~buried' PROVE WalInv'
    BY DEF WalInv
  <1>1. /\ todo = <<Sync>> /\ todo' = <<>> /\ wal' = wal /\ durable' = Len(wal)
        /\ recorded' = Append(recorded, record) /\ cut' = cut /\ ~buried
    BY DEF wal_sync_data
  <1>2. todo /= <<>>
    BY <1>1
  <1>3. recorded \in Seq(Records) /\ wal \in Seq(Nat) /\ BusyInv
    BY <1>1, <1>2, Zenon DEF WalInv
  <1>4. PICK pre \in Seq(Nat) : /\ Holds(pre, recorded) /\ Len(pre) = start
                                /\ Stage(pre, todo, wal, record)
    BY <1>3, Zenon DEF BusyInv
  <1>5. PICK r \in Records, recs \in Seq(Records), G \in Seq(Nat) :
            r = record /\ recs = recorded /\ G = wal
    BY <1>3 DEF BusyInv
  <1>6. Stage(pre, <<Sync>>, G, r) /\ Holds(pre, recs)
    BY <1>1, <1>4, <1>5, Zenon
  <1>7. G = WithValue(pre, r)
    BY <1>6, StageDone
  <1>8. Laid(G, pre, r) /\ Begins(G, G)
    BY <1>7, WritesLay
  <1>9. Len(G) = Full(pre, r) /\ Len(pre) <= Len(G)
    BY <1>8 DEF Laid, Begins
  <1>10. Holds(G, Append(recs, r))
    BY <1>6, <1>8, <1>9, CutAnywhere
  <1>11. Append(recs, r) \in Seq(Records)
    OBVIOUS
  <1>12. ~cut
    BY <1>3 DEF BusyInv
  <1>13. IdleInv'
    BY <1>1, <1>5, <1>10, <1>12, Zenon DEF IdleInv
  <1> QED  BY <1>1, <1>3, <1>5, <1>11, <1>13, Zenon DEF WalInv

\* The beginning of a file.
LEMMA PrefixBegins ==
    ASSUME NEW B \in Seq(Nat), NEW n \in 0..Len(B)
    PROVE  Begins(SubSeq(B, 1, n), B) /\ Len(SubSeq(B, 1, n)) = n
  <1>1. PICK S : S = SubSeq(B, 1, n)
    OBVIOUS
  <1>2. \A i \in 1..n : B[i] \in Nat
    OBVIOUS
  <1>3. n \in Int /\ n \in Nat
    OBVIOUS
  <1>4. /\ S \in Seq(Nat) /\ Len(S) = (IF 1 <= n THEN n - 1 + 1 ELSE 0)
        /\ \A i \in 1..n - 1 + 1 : S[i] = B[1 + i - 1]
    BY <1>1, <1>2, <1>3, SubSeqProperties
  <1>5. Len(S) = n /\ \A i \in 1..n : S[i] = B[i]
    BY <1>3, <1>4
  <1>6. Begins(S, B)
    BY <1>4, <1>5 DEF Begins
  <1> QED  BY <1>1, <1>5, <1>6

\* A crash, between two calls or in one.
LEMMA CrashKeeps ==
    ASSUME WalInv, WalCrash
    PROVE  WalInv'
  <1> SUFFICES ASSUME ~buried' PROVE WalInv'
    BY DEF WalInv
  <1>1. todo' = <<>> /\ ~buried
    BY DEF WalCrash
  <1>2. recorded \in Seq(Records) /\ wal \in Seq(Nat)
    BY <1>1 DEF WalInv
  <1>3. PICK body, full : /\ body = start + Len(Magic(start))
                          /\ full = body + Len(header(record) \o record.key \o record.value)
    OBVIOUS
  <1>4. PICK n \in durable..Len(wal) :
            /\ wal' = SubSeq(wal, 1, n)
            /\ durable' = n
            /\ recorded' = IF todo /= <<>> /\ n = full THEN Append(recorded, record) ELSE recorded
            /\ cut' = (cut \/ (todo /= <<>> /\ n \notin {start, body, full}))
    BY <1>3, Zenon DEF WalCrash
  <1>5. PICK B \in Seq(Nat), recs \in Seq(Records) : B = wal /\ recs = recorded
    BY <1>2
  <1>6. CASE todo = <<>>
    <2>1. IdleInv
      BY <1>1, <1>6, Zenon DEF WalInv
    <2>2. n = Len(B) /\ n \in 0..Len(B)
      BY <1>5, <2>1 DEF IdleInv
    <2>3. PICK S : S = SubSeq(B, 1, n)
      OBVIOUS
    <2>4. Begins(S, B) /\ Len(S) = n
      BY <2>2, <2>3, PrefixBegins
    <2>5. S \in Seq(Nat) /\ Len(S) = Len(B) /\ \A i \in 1..Len(S) : S[i] = B[i]
      BY <2>2, <2>4 DEF Begins
    <2>6. S = B
      BY <2>5, SeqEqual
    <2>7. wal' = wal /\ durable' = Len(wal) /\ recorded' = recorded /\ (cut' <=> cut)
      BY <1>4, <1>5, <1>6, <2>2, <2>3, <2>6
    <2>8. IdleInv'
      BY <2>1, <2>7, Zenon DEF IdleInv
    <2> QED  BY <1>1, <1>2, <2>7, <2>8, Zenon DEF WalInv
  <1>7. CASE todo /= <<>>
    <2>1. BusyInv
      BY <1>1, <1>7, Zenon DEF WalInv
    <2>2. PICK pre \in Seq(Nat) : /\ Holds(pre, recorded) /\ Len(pre) = start
                                  /\ Stage(pre, todo, wal, record)
      BY <2>1, Zenon DEF BusyInv
    <2>3. PICK r \in Records : r = record
      BY <2>1 DEF BusyInv
    <2>l. PICK left : left = todo
      OBVIOUS
    <2>4. Stage(pre, left, B, r) /\ Holds(pre, recs)
      BY <1>5, <2>2, <2>3, <2>l, Zenon
    <2>5. PICK F : F = WithValue(pre, r)
      OBVIOUS
    <2>6. Begins(B, F)
      BY <2>4, <2>5, StageBegins
    <2>7. /\ Laid(F, pre, r) /\ Body(pre) = Len(pre) + Len(Magic(Len(pre)))
          /\ Full(pre, r) = Body(pre) + Len(header(r) \o r.key \o r.value)
      BY <2>5, WritesLay
    <2>8. body = Body(pre) /\ full = Full(pre, r) /\ start = Len(pre)
      BY <1>3, <2>2, <2>3, <2>7, Zenon
    <2>9. durable = Len(pre) /\ ~cut
      BY <2>1, <2>2 DEF BusyInv
    <2>10. n \in 0..Len(B) /\ Len(pre) <= n
      BY <1>5, <2>9
    <2>11. PICK G : G = SubSeq(B, 1, n)
      OBVIOUS
    <2>12. Begins(G, B) /\ Len(G) = n
      BY <2>10, <2>11, PrefixBegins
    <2>13. Begins(G, F)
      BY <2>6, <2>12, BeginsTrans
    <2>14. Len(pre) <= Len(G)
      BY <2>10, <2>12
    <2>15. /\ Len(G) = Len(pre) \/ Len(G) = Body(pre) => Holds(G, recs)
           /\ Len(G) = Full(pre, r) => Holds(G, Append(recs, r))
           /\ (Len(G) /= Len(pre) /\ Len(G) /= Body(pre) /\ Len(G) /= Full(pre, r)) => EndsCut(G)
      BY <2>4, <2>7, <2>13, <2>14, CutAnywhere
    <2>16. /\ wal' = G /\ durable' = Len(G)
           /\ recorded' = (IF Len(G) = Full(pre, r) THEN Append(recs, r) ELSE recs)
           /\ cut' <=> Len(G) \notin {Len(pre), Body(pre), Full(pre, r)}
      <3>1. wal' = G /\ durable' = Len(G)
        BY <1>4, <1>5, <2>11, <2>12
      <3>2. recorded' = (IF Len(G) = Full(pre, r) THEN Append(recs, r) ELSE recs)
        BY <1>4, <1>5, <1>7, <2>3, <2>8, <2>12, Zenon
      <3>3. cut' <=> Len(G) \notin {Len(pre), Body(pre), Full(pre, r)}
        BY <1>4, <1>7, <2>8, <2>9, <2>12
      <3> QED  BY <3>1, <3>2, <3>3
    <2>17. Append(recs, r) \in Seq(Records)
      OBVIOUS
    <2>18. recorded' \in Seq(Records)
      BY <2>16, <2>17
    <2>19. wal' \in Seq(Nat)
      BY <2>13, <2>16 DEF Begins
    <2>20. IF cut' THEN EndsCut(G) ELSE Holds(G, recorded')
      <3>1. CASE cut'
        BY <2>15, <2>16, <3>1
      <3>2. CASE ~cut'
        BY <2>15, <2>16, <3>2
      <3> QED  BY <3>1, <3>2
    <2>21. IdleInv'
      BY <2>16, <2>20, Zenon DEF IdleInv
    <2> QED  BY <1>1, <2>18, <2>19, <2>21, Zenon DEF WalInv
  <1> QED  BY <1>6, <1>7

\* Every step keeps the invariant.
LEMMA WalInvStep == WalInv /\ [WalNext]_walVars => WalInv'
  <1>1. ASSUME WalInv, WalNext PROVE WalInv'
    BY <1>1, AppendKeeps, WriteKeeps, SyncKeeps, CrashKeeps DEF WalNext
  <1>2. ASSUME WalInv, UNCHANGED walVars PROVE WalInv'
    BY <1>2, Zenon DEF walVars, WalInv, IdleInv, BusyInv
  <1> QED  BY <1>1, <1>2

\* Wherever crashes cut the log, replay returns exactly the acknowledged records
\* and the one found whole, or reports an error exactly when the last was cut: for
\* every key and value, of whatever length and content, and any number of appends
\* and crashes, until an append behind a cut record.
THEOREM ReplayIsFaithful == WalSpec => []ReplayFaithful
  BY WalInvInit, WalInvStep, WalInvReplay, PTL DEF WalSpec
==============================================================================
