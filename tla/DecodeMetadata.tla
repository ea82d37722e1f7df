---------------------------- MODULE DecodeMetadata ----------------------------
(***************************************************************************)
(* The page-table copy that decode attention reads                         *)
(* (TileLangDecodeMetadata::update, crates/cuda-kernels/src/tilelang.rs):  *)
(* kv_indices is the concatenation of the page tables of the batch,        *)
(* indptr its offsets.  Rebuilding it every step is avoided when the batch *)
(* is the one of the previous step (same slots, same slot epochs); then    *)
(* the copy is left alone or the new pages are spliced in place, from the  *)
(* back to the front.                                                      *)
(*                                                                         *)
(* The host keeps indices_scratch, the device kv_indices; the append       *)
(* kernels run the same splice on the device.  A copy to the device may    *)
(* fail half-way: the launch fails, the requests of the batch are finished *)
(* and the half-written state stays for the next call.                     *)
(*                                                                         *)
(* An operator named D_Word is a faulty variant of the definition D that   *)
(* follows it; no specification uses it.                                   *)
(***************************************************************************)
EXTENDS PagedKV, SequencesExt

CONSTANTS
    FastPages,      \* fast_page16_metadata, and the page size it is for
    UploadMayFail   \* host-to-device copies may return an error

ASSUME MetaFlagAssumption == FastPages \in BOOLEAN /\ UploadMayFail \in BOOLEAN

VARIABLES
    indptr,      \* indptr_h, one entry per batch position and a leading 0
    indices,     \* indices_scratch
    device,      \* kv_indices on the device, its first total entries
    total,       \* total_tokens
    prevSlots,   \* prev_slot_indices
    prevEpochs,  \* prev_slot_epochs
    batch,       \* the batch of the last update; << >> once the pool moved on
    dead         \* slots whose step failed: they are only freed from now on

metaVars == <<indptr, indices, device, total, prevSlots, prevEpochs>>
allVars == <<vars, metaVars, batch, dead>>

MetaInit ==
    /\ Init
    /\ indptr = << >> /\ indices = << >> /\ device = << >> /\ total = 0
    /\ prevSlots = << >> /\ prevEpochs = << >>
    /\ batch = << >> /\ dead = {}

\* Slots in the order of the running batch.  allocate_decode_tokens has just
\* appended a token to each, so that the last page of each is its own.
Batches == {b \in UNION {[1..n -> Slots] : n \in 1..Cardinality(Slots)} :
                /\ \A i, j \in DOMAIN b : b[i] = b[j] => i = j
                /\ \A i \in DOMAIN b : seqLen[b[i]] > 0 /\ ~page_is_shared_read_only(HotTailPage(b[i]))}

------------------------------------------------------------------------------
\* fill_indptr
build_indptr(b) ==
    LET at[k \in 0..Len(b)] == IF k = 0 THEN 0 ELSE at[k - 1] + Len(table[b[k]])
    IN  [k \in 1..Len(b) + 1 |-> at[k - 1]]

Width(ptr, i) == ptr[i + 1] - ptr[i]

flatten_page_indices(b) == FlattenSeq([i \in DOMAIN b |-> table[b[i]]])

epochsOf(b) == [i \in DOMAIN b |-> epoch[b[i]]]

same_batch_identity(b) == prevSlots = b /\ prevEpochs = epochsOf(b)

\* Every request of the batch grew by exactly one page (page size 1).
can_append_decode_step(next) ==
    /\ Len(indptr) = Len(next) /\ Len(indptr) >= 2
    /\ \A i \in 1..Len(next) - 1 : Width(next, i) = Width(indptr, i) + 1

\* Every request grew by at most one page, some by one.
can_append_pages_step(next) ==
    /\ Len(indptr) = Len(next) /\ Len(indptr) >= 2
    /\ \A i \in 1..Len(next) - 1 : Width(next, i) - Width(indptr, i) \in {0, 1}
    /\ \E i \in 1..Len(next) - 1 : Width(next, i) > Width(indptr, i)

\* The cached entries of every request are the first entries of its table
\* (page_tables_match_cached, and the check of collect_appended_page_indices).
cached_is_prefix(b) ==
    \A i \in DOMAIN b : \A k \in 1..Width(indptr, i) :
        /\ indptr[i] + k <= Len(indices)
        /\ indices[indptr[i] + k] = table[b[i]][k]

\* copy_within(from[i] .. from[i+1], to[i]) for i from the back to the front,
\* then the last entry of request i is its newest page if it has one more.
Splice_FrontToBack(old, next, newest) ==
    LET n == Len(next) - 1
        move(buf, i) ==
            [k \in DOMAIN buf |->
                IF k = next[i + 1] /\ Width(next, i) > Width(indptr, i) THEN newest[i]
                ELSE IF k > next[i] /\ k <= next[i] + Width(indptr, i)
                     THEN buf[indptr[i] + (k - next[i])] ELSE buf[k]]
        resized == [k \in 1..next[n + 1] |-> IF k <= Len(old) THEN old[k] ELSE old[1]]
        after[i \in 0..n] == IF i = 0 THEN resized ELSE move(after[i - 1], i)
    IN  after[n]
Splice(old, next, newest) ==
    LET n == Len(next) - 1
        move(buf, i) ==
            [k \in DOMAIN buf |->
                IF k = next[i + 1] /\ Width(next, i) > Width(indptr, i) THEN newest[i]
                ELSE IF k > next[i] /\ k <= next[i] + Width(indptr, i)
                     THEN buf[indptr[i] + (k - next[i])] ELSE buf[k]]
        resized == [k \in 1..next[n + 1] |-> IF k <= Len(old) THEN old[k] ELSE old[1]]
        after[i \in 1..n + 1] == IF i = n + 1 THEN resized ELSE move(after[i + 1], i)
    IN  after[1]

\* The page of the newest token (build_last_indices), and the last page of the
\* table (collect_appended_page_indices).
newestToken(b) == [i \in DOMAIN b |-> table[b[i]][CeilDiv(seqLen[b[i]], PageSize)]]
newestPage(b)  == [i \in DOMAIN b |-> table[b[i]][Len(table[b[i]])]]

fast_page16(b) ==
    /\ FastPages /\ PageSize > 1 /\ same_batch_identity(b)
    /\ Len(indices) = total /\ indptr[Len(indptr)] = total

SamePages(b) == fast_page16(b) /\ indptr = build_indptr(b) /\ cached_is_prefix(b)

AppendedPages(b) ==
    fast_page16(b) /\ can_append_pages_step(build_indptr(b)) /\ cached_is_prefix(b)

can_incremental_update(b) ==
    /\ PageSize = 1 /\ same_batch_identity(b)
    /\ can_append_decode_step(build_indptr(b)) /\ Len(indices) = total

\* What update leaves in a buffer that held old.
Updated(old, b) ==
    IF SamePages(b) THEN old
    ELSE IF AppendedPages(b) THEN Splice(old, build_indptr(b), newestPage(b))
    ELSE IF can_incremental_update(b) THEN Splice(old, build_indptr(b), newestToken(b))
    ELSE flatten_page_indices(b)

update(b) ==
    /\ indices' = Updated(indices, b)
    /\ device' = Updated(device, b)
    /\ indptr' = build_indptr(b) /\ total' = Len(flatten_page_indices(b))
    /\ prevSlots' = b /\ prevEpochs' = epochsOf(b)
    /\ batch' = b
    /\ UNCHANGED <<vars, dead>>

\* A copy fails after indptr_h was replaced, before or after indices_scratch
\* was: the scheduler finishes every request of the batch.
update_fails(b) ==
    /\ UploadMayFail
    /\ indptr' = build_indptr(b)
    /\ indices' \in {indices, Updated(indices, b)}
    /\ batch' = << >>
    /\ dead' = dead \cup Range(b)
    /\ UNCHANGED <<vars, device, total, prevSlots, prevEpochs>>

\* update_mixed_batch: built from scratch, and the identity is forgotten.
update_mixed_batch(b) ==
    /\ indptr' = build_indptr(b)
    /\ indices' = flatten_page_indices(b) /\ device' = indices'
    /\ total' = Len(indices')
    /\ prevSlots' = << >> /\ prevEpochs' = << >>
    /\ batch' = b
    /\ UNCHANGED <<vars, dead>>

\* update_sparse_single: attention over chosen pages of one slot.
update_sparse_single(s, pages) ==
    /\ indptr' = <<0, Len(pages)>>
    /\ indices' = pages /\ device' = pages
    /\ total' = Len(pages)
    /\ prevSlots' = << >> /\ prevEpochs' = << >>
    /\ batch' = << >>
    /\ UNCHANGED <<vars, dead>>

\* Calls on the pool between two steps; cleanup frees the failed slots first.
PoolStep ==
    /\ Next
    /\ dead /= {} => \E s \in dead : table'[s] = << >>
    /\ dead' = {s \in dead : table'[s] /= << >>}
    /\ batch' = << >>
    /\ UNCHANGED metaVars

MetaNext ==
    \/ PoolStep
    \/ /\ dead = {}
       /\ \E b \in Batches : update(b) \/ update_fails(b) \/ update_mixed_batch(b)
    \/ /\ dead = {}
       /\ \E s \in Slots : \E i \in DOMAIN table[s] :
              update_sparse_single(s, SubSeq(table[s], i, Len(table[s])))

MetaSpec == MetaInit /\ [][MetaNext]_allVars

------------------------------------------------------------------------------
\* Decode attention reads the pages of the requests it decodes: whichever
\* shortcut update takes, the copy is what a rebuild would give, although
\* pages were copied on write, freed, truncated and taken by other requests
\* since the step before.
MetadataCurrent ==
    batch /= << >> =>
        /\ device = flatten_page_indices(batch)
        /\ indptr = build_indptr(batch)
==============================================================================
