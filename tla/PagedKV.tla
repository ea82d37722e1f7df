------------------------------- MODULE PagedKV -------------------------------
(***************************************************************************)
(* TokenKVPool (crates/cuda-kernels/src/paged_kv.rs), the owner of every   *)
(* physical KV page on the GPU, together with the scheduler's index of the *)
(* pages it retains for the prefix cache (block_to_pages, core.rs).        *)
(*                                                                         *)
(* A page is held by the slots whose page table lists it (attach) and by   *)
(* the prefix cache (ref).  A slot may borrow the cached pages of another  *)
(* request's prompt, stop inside the last of them, and must then copy that *)
(* page before it appends.  All calls come from the scheduler thread: one  *)
(* action is one call sequence of the scheduler that nothing interrupts.   *)
(*                                                                         *)
(* What the attention kernels write is abstracted to one value per token;  *)
(* log and sealed record what a slot wrote and what a cached page held     *)
(* when it was published, to state that nobody's KV is overwritten.        *)
(*                                                                         *)
(* An operator named D_Word is a faulty variant of the definition D that   *)
(* follows it; no specification uses it.                                   *)
(***************************************************************************)
EXTENDS Naturals, Sequences, FiniteSets, Functions

CONSTANTS
    Pages,            \* physical pages
    Slots,            \* request slots
    PageSize,         \* tokens per page (16, or 1 for TurboQuant)
    BlockSize,        \* tokens per sealed prefix-cache block
    Tokens,           \* what a KV row can hold
    CrossSlotAttach,  \* supports_cross_slot_prefix_attach of the model
    CopyMayFail,      \* device-to-device page copies may return an error
    MaxLen,           \* bound: tokens per slot
    MaxRef,           \* bound: page_ref_count
    MaxEpoch          \* bound: slot_epochs

ASSUME SlotsAssumption == IsFiniteSet(Slots)
ASSUME PageSizeAssumption == PageSize \in Nat \ {0}
ASSUME BlockSizeAssumption ==
    BlockSize \in Nat \ {0} /\ BlockSize % PageSize = 0
ASSUME FlagAssumption == CrossSlotAttach \in BOOLEAN /\ CopyMayFail \in BOOLEAN
ASSUME BoundAssumption == MaxLen \in Nat /\ MaxRef \in Nat /\ MaxEpoch \in Nat

VARIABLES
    free,        \* free_pages: how often the stack holds each page
    table,       \* page_indices
    seqLen,      \* seq_lens
    attach,      \* page_attach_count
    ref,         \* page_ref_count
    epoch,       \* slot_epochs
    blockPages,  \* block_to_pages, by BlockId = first page; << >> if absent
    kv,          \* rows of each page
    log,         \* history: the tokens each slot appended or borrowed
    sealed       \* history: the rows a cached page was published with

poolVars == <<free, table, seqLen, attach, ref, epoch>>
dataVars == <<kv, log, sealed>>
vars == <<poolVars, blockPages, dataVars>>

PagesPerBlock == BlockSize \div PageSize

Init ==
    /\ free = [p \in Pages |-> 1]
    /\ table = [s \in Slots |-> << >>]
    /\ seqLen = [s \in Slots |-> 0]
    /\ attach = [p \in Pages |-> 0]
    /\ ref = [p \in Pages |-> 0]
    /\ epoch = [s \in Slots |-> 0]
    /\ blockPages = [p \in Pages |-> << >>]
    /\ kv = [p \in Pages |-> << >>]
    /\ log = [s \in Slots |-> << >>]
    /\ sealed = [p \in Pages |-> << >>]

------------------------------------------------------------------------------
(* Helpers of the pool *)

CeilDiv(n, d) == (n + d - 1) \div d
Saturating(a, b) == IF a > b THEN a - b ELSE 0
Occurrences(f, p) == Cardinality({i \in DOMAIN f : f[i] = p})

free_page_count == SumFunction(free)

\* What n pops of the free stack can yield.
Pops(n) == {f \in [1..n -> Pages] : \A p \in Pages : Occurrences(f, p) <= free[p]}

AfterPops(f) == [p \in Pages |-> free[p] - Occurrences(f, p)]

slot_hot_tail_len(s) == seqLen[s] % PageSize

page_is_shared_read_only_AttachOnly(p) == attach[p] > 1
page_is_shared_read_only(p) == ref[p] > 0 \/ attach[p] > 1

HotTailPage(s) == table[s][Len(table[s])]

\* append_cow_pages_needed: 1 if a partial, shared tail must be copied first.
append_cow_pages_needed(s) ==
    IF slot_hot_tail_len(s) /= 0 /\ page_is_shared_read_only(HotTailPage(s))
    THEN 1 ELSE 0

\* Pages alloc_tokens takes for count tokens.
NewPages(s, count) ==
    LET room == IF slot_hot_tail_len(s) = 0 THEN 0 ELSE PageSize - slot_hot_tail_len(s)
    IN  CeilDiv(Saturating(count, room), PageSize)

\* One attachment less for each of the pages, and recycle_page_if_unreferenced.
Unattach(f) == [p \in Pages |-> Saturating(attach[p], Occurrences(f, p))]
Recycled_IgnoresRefs(f, refs) ==
    [p \in Pages |-> IF Occurrences(f, p) > 0 /\ Unattach(f)[p] = 0
                     THEN free[p] + 1 ELSE free[p]]
Recycled(f, refs) ==
    [p \in Pages |-> IF Occurrences(f, p) > 0 /\ Unattach(f)[p] = 0 /\ refs[p] = 0
                     THEN free[p] + 1 ELSE free[p]]

\* Rows h+1 .. h+Len(toks) of a page written.
Overwrite(rows, h, toks) ==
    [i \in 1..(IF Len(rows) > h + Len(toks) THEN Len(rows) ELSE h + Len(toks)) |->
        IF i > h /\ i <= h + Len(toks) THEN toks[i - h] ELSE rows[i]]

\* The part of toks, appended behind len tokens, that falls on the j-th page.
Share(toks, len, j) ==
    LET from == (j - 1) * PageSize
        a == IF len > from THEN len - from ELSE 0
        b == IF len + Len(toks) < from + PageSize THEN len + Len(toks) ELSE from + PageSize
    IN  SubSeq(toks, from + a - len + 1, b - len)

\* The forward pass writes the rows of toks where the page table puts them.
WriteTokens(rows, tab, len, toks) ==
    [p \in Pages |->
        LET js == {j \in DOMAIN tab : tab[j] = p /\ Share(toks, len, j) /= << >>}
        IN  IF js = {} THEN rows[p]
            ELSE LET j == CHOOSE j \in js : TRUE
                 IN  Overwrite(rows[p], Saturating(len, (j - 1) * PageSize),
                               Share(toks, len, j))]

------------------------------------------------------------------------------
(* Operations *)

\* The page table, the attachments and the rows once page c replaces the
\* shared tail of s (detach_shared_hot_tail_page_for_append).  Its call of
\* recycle_page_if_unreferenced finds nothing: a shared tail has another holder.
CowTable(s, c)  == [table[s] EXCEPT ![Len(table[s])] = c]
CowAttach_KeepsOld(s, c) == [attach EXCEPT ![c] = 1]
CowAttach(s, c) == [attach EXCEPT ![c] = 1, ![HotTailPage(s)] = Saturating(@, 1)]
CowRows(s, c)   == [kv EXCEPT ![c] = kv[HotTailPage(s)]]

\* try_alloc_pool_tokens_once and the forward pass that fills the rows: copy a
\* shared tail page if there is one, take the pages the tokens need, write.
append(s, toks) ==
    LET cow == append_cow_pages_needed(s)
        new == NewPages(s, Len(toks))
    IN
    /\ seqLen[s] + Len(toks) <= MaxLen
    /\ \E f \in Pops(cow + new) :
        LET base  == IF cow = 1 THEN CowTable(s, f[1]) ELSE table[s]
            fresh == SubSeq(f, cow + 1, cow + new)
            held  == IF cow = 1 THEN CowAttach(s, f[1]) ELSE attach
            rows  == IF cow = 1 THEN CowRows(s, f[1]) ELSE kv
        IN
        /\ free' = AfterPops(f)
        /\ table' = [table EXCEPT ![s] = base \o fresh]
        /\ attach' = [p \in Pages |-> IF p \in Range(fresh) THEN 1 ELSE held[p]]
        /\ kv' = WriteTokens(rows, base \o fresh, seqLen[s], toks)
    /\ seqLen' = [seqLen EXCEPT ![s] = @ + Len(toks)]
    /\ log' = [log EXCEPT ![s] = @ \o toks]
    /\ UNCHANGED <<ref, epoch, blockPages, sealed>>

\* The copy of the tail went through but the pool has no page for the tokens:
\* alloc_tokens fails and the detached tail stays.
append_out_of_pages(s, count) ==
    /\ append_cow_pages_needed(s) = 1
    /\ 1 + NewPages(s, count) > free_page_count
    /\ \E f \in Pops(1) :
        /\ free' = AfterPops(f)
        /\ table' = [table EXCEPT ![s] = CowTable(s, f[1])]
        /\ attach' = CowAttach(s, f[1])
        /\ kv' = CowRows(s, f[1])
    /\ UNCHANGED <<seqLen, ref, epoch, blockPages, log, sealed>>

\* The copy itself returns an error, after the page was popped and attached.
append_copy_fails(s) ==
    /\ CopyMayFail /\ append_cow_pages_needed(s) = 1
    /\ \E f \in Pops(1) :
        /\ free' = AfterPops(f)
        /\ attach' = [attach EXCEPT ![f[1]] = 1]
    /\ UNCHANGED <<table, seqLen, ref, epoch, blockPages, dataVars>>

\* flattened_pages_for_blocks
PagesOf(bids) ==
    [i \in 1..Len(bids) * PagesPerBlock |->
        blockPages[bids[CeilDiv(i, PagesPerBlock)]][((i - 1) % PagesPerBlock) + 1]]

\* attach_gpu_prefix_blocks: an empty slot borrows sealed blocks.  A prompt
\* that is cached to its end is attached one token short, to replay that token.
attach_pages(s, bids, short) ==
    LET pages == PagesOf(bids)
        count == Len(bids) * BlockSize - (IF short THEN 1 ELSE 0)
    IN
    /\ CrossSlotAttach
    /\ table[s] = << >> /\ seqLen[s] = 0
    /\ \A p \in Range(pages) : attach[p] > 0 \/ ref[p] > 0
    /\ table' = [table EXCEPT ![s] = pages]
    /\ seqLen' = [seqLen EXCEPT ![s] = count]
    /\ attach' = [p \in Pages |-> attach[p] + Occurrences(pages, p)]
    /\ log' = [log EXCEPT ![s] = [i \in 1..count |->
                  sealed[pages[CeilDiv(i, PageSize)]][((i - 1) % PageSize) + 1]]]
    /\ UNCHANGED <<free, ref, epoch, blockPages, kv, sealed>>

\* cleanup of a finished request: publish_to_prefix_cache retains the pages of
\* its first n sealed blocks (none if publishing is off, capped or the request
\* was preempted) and indexes them, then free_slot drops the page table.
publish_and_free(s, n) ==
    LET pages == SubSeq(table[s], 1, n * PagesPerBlock)
        block(i) == SubSeq(table[s], (i - 1) * PagesPerBlock + 1, i * PagesPerBlock)
        kept == [p \in Pages |-> ref[p] + Occurrences(pages, p)]
    IN
    /\ table[s] /= << >> /\ n * BlockSize <= seqLen[s]
    /\ epoch[s] < MaxEpoch /\ \A p \in Pages : kept[p] <= MaxRef
    /\ ref' = kept
    /\ blockPages' = [b \in Pages |->
                        LET is == {i \in 1..n : block(i)[1] = b}
                        IN  IF blockPages[b] = << >> /\ is /= {}
                            THEN block(CHOOSE i \in is : TRUE) ELSE blockPages[b]]
    /\ sealed' = [p \in Pages |->
                    LET js == {j \in DOMAIN pages : pages[j] = p}
                    IN  IF js = {} THEN sealed[p]
                        ELSE LET j == CHOOSE j \in js : TRUE
                             IN  SubSeq(log[s], (j - 1) * PageSize + 1, j * PageSize)]
    /\ free' = Recycled(table[s], kept)
    /\ attach' = Unattach(table[s])
    /\ table' = [table EXCEPT ![s] = << >>]
    /\ seqLen' = [seqLen EXCEPT ![s] = 0]
    /\ epoch' = [epoch EXCEPT ![s] = @ + 1]
    /\ log' = [log EXCEPT ![s] = << >>]
    /\ UNCHANGED kv

\* truncate_slot: speculative decoding takes back the rejected tokens.
truncate_slot(s, len) ==
    LET keep    == CeilDiv(len, PageSize)
        removed == SubSeq(table[s], keep + 1, Len(table[s]))
    IN
    /\ len < seqLen[s]
    /\ removed /= << >> => epoch[s] < MaxEpoch
    /\ table' = [table EXCEPT ![s] = SubSeq(@, 1, keep)]
    /\ seqLen' = [seqLen EXCEPT ![s] = len]
    /\ attach' = Unattach(removed)
    /\ free' = Recycled(removed, ref)
    /\ epoch' = IF removed = << >> THEN epoch ELSE [epoch EXCEPT ![s] = @ + 1]
    /\ log' = [log EXCEPT ![s] = SubSeq(@, 1, len)]
    /\ UNCHANGED <<ref, blockPages, kv, sealed>>

\* drop_cached_blocks, or demote_block_to_host: forget a block and release its
\* pages (release_pages).
release_block(b) ==
    LET pages == blockPages[b]
        refs  == [p \in Pages |-> Saturating(ref[p], Occurrences(pages, p))]
    IN
    /\ pages /= << >>
    /\ blockPages' = [blockPages EXCEPT ![b] = << >>]
    /\ ref' = refs
    /\ free' = [p \in Pages |->
                  IF Occurrences(pages, p) > 0 /\ refs[p] = 0 /\ attach[p] = 0
                  THEN free[p] + 1 ELSE free[p]]
    /\ sealed' = [p \in Pages |-> IF refs[p] = 0 THEN << >> ELSE sealed[p]]
    /\ UNCHANGED <<table, seqLen, attach, epoch, kv, log>>

\* alloc_detached_pages and copy_pages_from_host: a block comes back from a
\* lower tier or from a saved session.
install_block(rows) ==
    \E f \in Pops(PagesPerBlock) :
        LET row(p) == CHOOSE i \in DOMAIN f : f[i] = p IN
        /\ free' = AfterPops(f)
        /\ ref' = [p \in Pages |-> IF p \in Range(f) THEN 1 ELSE ref[p]]
        /\ kv' = [p \in Pages |-> IF p \in Range(f)
                    THEN SubSeq(rows, (row(p) - 1) * PageSize + 1, row(p) * PageSize)
                    ELSE kv[p]]
        /\ sealed' = [p \in Pages |-> IF p \in Range(f) THEN kv'[p] ELSE sealed[p]]
        /\ blockPages' = [blockPages EXCEPT ![f[1]] = f]
        /\ UNCHANGED <<table, seqLen, attach, epoch, log>>

\* install_restored_kv goes on to the next block when the copy fails; the
\* pages stay retained.  (promote_fetched_prefix gives them back.)
install_copy_fails ==
    /\ CopyMayFail
    /\ \E f \in Pops(PagesPerBlock) :
        /\ free' = AfterPops(f)
        /\ ref' = [p \in Pages |-> IF p \in Range(f) THEN 1 ELSE ref[p]]
    /\ UNCHANGED <<table, seqLen, attach, epoch, blockPages, dataVars>>

Next ==
    \/ \E s \in Slots : \E n \in 1..MaxLen :
           \/ \E toks \in [1..n -> Tokens] : append(s, toks)
           \/ append_out_of_pages(s, n)
    \/ \E s \in Slots : append_copy_fails(s)
    \/ \E s \in Slots, n \in 1..MaxLen \div BlockSize, short \in BOOLEAN :
           \E bids \in [1..n -> {b \in Pages : blockPages[b] /= << >>}] :
               /\ \A i, j \in 1..n : bids[i] = bids[j] => i = j
               /\ attach_pages(s, bids, short)
    \/ \E s \in Slots, n \in 0..MaxLen \div BlockSize : publish_and_free(s, n)
    \/ \E s \in Slots, len \in 0..MaxLen : truncate_slot(s, len)
    \/ \E b \in Pages : release_block(b)
    \/ \E rows \in [1..BlockSize -> Tokens] : install_block(rows)
    \/ install_copy_fails

Spec == Init /\ [][Next]_vars

------------------------------------------------------------------------------
\* Attach counts are exact except for pages lost to a failed tail copy, which
\* are counted once and listed nowhere: no other sequence of borrowing, copying,
\* truncating and freeing makes counts and page tables disagree.
AttachExactButLostCopies ==
    \A p \in Pages :
        LET holders == Cardinality({s \in Slots : p \in Range(table[s])})
        IN  attach[p] = holders \/ (CopyMayFail /\ holders = 0 /\ attach[p] = 1 /\ ref[p] = 0)

\* A page is on the free stack, once, exactly when neither a slot nor the
\* prefix cache holds it: no use after free, no double free, no lost page.
FreeExactlyUnreferenced ==
    \A p \in Pages : free[p] = IF attach[p] = 0 /\ ref[p] = 0 THEN 1 ELSE 0

\* Row of the i-th token of slot s.
Row(s, i) == kv[table[s][CeilDiv(i, PageSize)]][((i - 1) % PageSize) + 1]

\* Sharing is invisible: every slot reads back the tokens it wrote or
\* borrowed, and an indexed page still holds what it was published with,
\* however slots share, copy, truncate and free.
KVIntact ==
    /\ \A s \in Slots : \A i \in 1..seqLen[s] : Row(s, i) = log[s][i]
    /\ \A b \in Pages : \A p \in Range(blockPages[b]) :
           ref[p] > 0 /\ kv[p] = sealed[p]
==============================================================================
