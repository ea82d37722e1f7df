------------------------------ MODULE HostArena ------------------------------
(***************************************************************************)
(* The allocator of the host-pinned tier: HostPinnedPool                   *)
(* (infer/src/kv_tier/host_pool.rs) over the host arena of kv-native-sys,  *)
(* a bump pointer and a first-fit free list that does not merge            *)
(* neighbours.  Space comes back only at the tail: releasing the last      *)
(* region lowers the bump pointer, then past every free entry that ends    *)
(* there.                                                                  *)
(*                                                                         *)
(* Every call runs under the pool's mutex; the loop of                     *)
(* host_arena_rewind_tail takes one step per turn, and no other call runs  *)
(* until it ends.  D_Word is a faulty variant of the definition D that     *)
(* follows it.                                                             *)
(***************************************************************************)
EXTENDS Integers, Sequences, FiniteSets

CONSTANTS
    ArenaBytes,  \* capacity_bytes
    SizeSets     \* sets of lengths a pool may be asked for; KV blocks have one

ASSUME ArenaAssumption ==
    ArenaBytes \in Nat \ {0} /\ \A z \in SizeSets : z \subseteq Nat \ {0}

VARIABLES
    sizes,         \* the lengths this pool is asked for
    live_regions,  \* of HostPinnedPool
    free_list,     \* entries of free_list, in its order
    next_offset,
    reserved_bytes,
    rewinding      \* inside host_arena_rewind_tail

arenaVars == <<sizes, live_regions, free_list, next_offset, reserved_bytes, rewinding>>

Region(offset, len) == [offset |-> offset, len |-> len]
Regions == [offset : 0..ArenaBytes, len : 1..ArenaBytes]
region_end(r) == r.offset + r.len

ArenaInit ==
    /\ sizes \in SizeSets
    /\ live_regions = {}
    /\ free_list = << >>
    /\ next_offset = 0
    /\ reserved_bytes = 0
    /\ rewinding = FALSE

\* Vec::swap_remove
swap_remove_Pop(s, i) == SubSeq(s, 1, Len(s) - 1)
swap_remove(s, i) == [j \in 1..Len(s) - 1 |-> IF j = i THEN s[Len(s)] ELSE s[j]]

FirstFit(i, len) == free_list[i].len >= len /\ \A j \in 1..i - 1 : free_list[j].len < len

Fits(len) == \E i \in DOMAIN free_list : free_list[i].len >= len

\* The free list after entry i served len: a longer entry leaves its rest.
Carved(i, len) ==
    IF free_list[i].len > len
    THEN Append(swap_remove(free_list, i),
                Region(free_list[i].offset + len, free_list[i].len - len))
    ELSE swap_remove(free_list, i)

\* HostPinnedPool::reserve.  Without a fit and without room the arena returns
\* None and nothing changes.
ReserveFromFreeList(len) ==
    /\ ~rewinding
    /\ \E i \in DOMAIN free_list :
          /\ FirstFit(i, len)
          /\ live_regions' = live_regions \cup {Region(free_list[i].offset, len)}
          /\ free_list' = Carved(i, len)
    /\ reserved_bytes' = reserved_bytes + len
    /\ UNCHANGED <<sizes, next_offset, rewinding>>

ReserveAtTail(len) ==
    /\ ~rewinding
    /\ ~Fits(len)
    /\ next_offset + len <= ArenaBytes
    /\ live_regions' = live_regions \cup {Region(next_offset, len)}
    /\ next_offset' = next_offset + len
    /\ reserved_bytes' = reserved_bytes + len
    /\ UNCHANGED <<sizes, free_list, rewinding>>

\* HostPinnedPool::release: validate_live_region refuses every other region.
release_NoRewind(r) ==
    /\ ~rewinding
    /\ r \in live_regions
    /\ live_regions' = live_regions \ {r}
    /\ reserved_bytes' = reserved_bytes - r.len
    /\ IF region_end(r) = next_offset
       THEN next_offset' = r.offset /\ UNCHANGED free_list
       ELSE free_list' = Append(free_list, r) /\ UNCHANGED next_offset
    /\ UNCHANGED <<sizes, rewinding>>
release(r) ==
    /\ ~rewinding
    /\ r \in live_regions
    /\ live_regions' = live_regions \ {r}
    /\ reserved_bytes' = reserved_bytes - r.len
    /\ \/ /\ region_end(r) = next_offset
          /\ next_offset' = r.offset
          /\ rewinding' = TRUE
          /\ UNCHANGED free_list
       \/ /\ region_end(r) /= next_offset
          /\ free_list' = Append(free_list, r)
          /\ UNCHANGED <<next_offset, rewinding>>
    /\ UNCHANGED sizes

\* The first free entry that ends at next_offset.
AtTail(i) ==
    /\ region_end(free_list[i]) = next_offset
    /\ \A j \in 1..i - 1 : region_end(free_list[j]) /= next_offset

host_arena_rewind_tail ==
    /\ rewinding
    /\ \/ \E i \in DOMAIN free_list :
             /\ AtTail(i)
             /\ free_list' = swap_remove(free_list, i)
             /\ next_offset' = free_list[i].offset
             /\ UNCHANGED rewinding
       \/ /\ \A i \in DOMAIN free_list : region_end(free_list[i]) /= next_offset
          /\ rewinding' = FALSE
          /\ UNCHANGED <<free_list, next_offset>>
    /\ UNCHANGED <<sizes, live_regions, reserved_bytes>>

\* HostPinnedPool::reset
reset ==
    /\ ~rewinding
    /\ live_regions' = {} /\ free_list' = << >> /\ next_offset' = 0 /\ reserved_bytes' = 0
    /\ UNCHANGED <<sizes, rewinding>>

ArenaNext ==
    \/ \E len \in sizes : ReserveFromFreeList(len) \/ ReserveAtTail(len)
    \/ \E r \in live_regions : release(r)
    \/ host_arena_rewind_tail
    \/ reset

ArenaSpec == ArenaInit /\ [][ArenaNext]_arenaVars
------------------------------------------------------------------------------
(* Properties *)

Disjoint(p, q) == region_end(p) <= q.offset \/ region_end(q) <= p.offset
Covers(r, x) == r.offset <= x /\ x < region_end(r)

\* The pool's variables have their types, and every region handed out or kept
\* lies below the bump pointer, inside the arena.
ArenaTypeOK ==
    /\ sizes \in SizeSets /\ rewinding \in BOOLEAN
    /\ next_offset \in 0..ArenaBytes /\ reserved_bytes \in 0..ArenaBytes
    /\ live_regions \subseteq Regions
    /\ free_list \in Seq(Regions)
    /\ \A r \in live_regions : region_end(r) <= next_offset
    /\ \A i \in DOMAIN free_list : region_end(free_list[i]) <= next_offset

\* No two blocks share a byte of the host tier, whatever was carved, swapped and
\* rewound before: regions handed out and entries of free_list are pairwise
\* disjoint.
RegionsDisjoint ==
    /\ \A p, q \in live_regions : p /= q => Disjoint(p, q)
    /\ \A i, j \in DOMAIN free_list : i /= j => Disjoint(free_list[i], free_list[j])
    /\ \A p \in live_regions : \A i \in DOMAIN free_list : Disjoint(p, free_list[i])

\* The bytes handed out.
HandedOut == {x \in 0..ArenaBytes - 1 : \E r \in live_regions : Covers(r, x)}

\* No byte is lost: below the bump pointer each one is handed out or in
\* free_list, and reserved_bytes, which the demotion and spill thresholds read,
\* counts what is handed out.
NoByteLost ==
    /\ \A x \in 0..next_offset - 1 :
          \/ \E r \in live_regions : Covers(r, x)
          \/ \E i \in DOMAIN free_list : Covers(free_list[i], x)
    /\ reserved_bytes = Cardinality(HandedOut)

\* Regions handed out and free entries tile the arena below the bump pointer:
\* through every order of reserve, carve, release, swap_remove and rewind no byte
\* belongs to two blocks and none is lost.
ArenaTiled == ArenaTypeOK /\ RegionsDisjoint /\ NoByteLost

\* Once every region is back the pool is whole again, although neighbours are
\* never merged: the rewind of the last release reaches the start.
DrainedArenaWhole ==
    ~rewinding /\ live_regions = {} => next_offset = 0 /\ free_list = << >>

\* A pool that is asked for one length only (KV blocks) never fragments: as long
\* as reserved_bytes leaves room, which is what ensure_host_demote_headroom
\* looks at, the next reserve succeeds.
OneSizeNeverFragments ==
    ~rewinding => \A len \in sizes :
        sizes = {len} /\ reserved_bytes + len <= ArenaBytes
            => Fits(len) \/ next_offset + len <= ArenaBytes

\* What release gives back can be reserved again: all of it once the pool is
\* drained, and every free byte of a pool of equal blocks.
SpaceComesBack == DrainedArenaWhole /\ OneSizeNeverFragments
==============================================================================
