------------------------------ MODULE RadixCache ------------------------------
(***************************************************************************)
(* The prefix cache (infer/src/prefix_cache.rs): a compressed radix tree   *)
(* over token sequences.  A node whose path ends on a block boundary       *)
(* carries the id of a KV block.  Requests pin the blocks they look up,    *)
(* publish their own when they finish, and the scheduler demotes blocks to *)
(* the host tier, promotes them back and evicts.  Nodes live in a vector;  *)
(* evicted slots are kept in free_nodes for reuse.                         *)
(*                                                                         *)
(* Left out: access clocks, scores and soft pins, which only choose among  *)
(* the eviction candidates (any choice is allowed here), entry_state,      *)
(* which only turns hits into misses, and the tiers below the host's.      *)
(* cached, slotReused and planOvertaken are history variables: the tokens  *)
(* whose KV a block holds, and the two events after which the tree is not  *)
(* what it should be.                                                      *)
(*                                                                         *)
(* An operator named D_Word is a faulty variant of the definition D that   *)
(* follows it; no specification uses it.                                   *)
(***************************************************************************)
EXTENDS Naturals, Sequences, FiniteSets, FiniteSetsExt, SequencesExt

CONSTANTS
    BlockTokens,   \* block_size
    Prompts,       \* token sequences of the requests
    Requests,
    NumPages,      \* device pages; a block in T0 is named by its page
    NumLogical,    \* bound: blocks in the host tier, named by logical ids
    MaxRefs,       \* bound: pins per node
    MaxEvictions   \* bound: calls that evict at least one block

ASSUME BlockTokensAssumption == BlockTokens \in Nat \ {0}
ASSUME BlockIdsAssumption == NumPages \in Nat /\ NumLogical \in Nat
ASSUME CacheBoundAssumption == MaxRefs \in Nat /\ MaxEvictions \in Nat

VARIABLES
    nodes,      \* Vec<Node>, index 1 is the root
    freeNodes,  \* free_nodes, used as a stack
    index,      \* block_index: block id -> node; 0 if absent
    cached,    \* history: the path a block was computed for; << >> if unused
    req,        \* requests: prompt and the blocks they pinned and attached
    evictions,  \* history: calls of evict so far
    slotReused,    \* history: a node slot was handed out while it was in use
    planOvertaken  \* history: making room took blocks the promotion then named

tree == <<nodes, freeNodes, index>>
cacheVars == <<tree, cached, req, evictions, slotReused, planOvertaken>>

None == 0
DevicePages == 1..NumPages
BlockIds == 1..NumPages + NumLogical
Logical == BlockIds \ DevicePages
Root == 1
NoRequest == [prompt |-> << >>, held |-> << >>]

\* tier is tier_location; a new node has none until its metadata is recorded.
Node(tokens, block) ==
    [tokens |-> tokens, block |-> block, refs |-> 0, tier |-> "none", children |-> << >>]

CacheInit ==
    /\ nodes = <<Node(<< >>, None)>>
    /\ freeNodes = << >>
    /\ index = [b \in BlockIds |-> None]
    /\ cached = [b \in BlockIds |-> << >>]
    /\ req = [r \in Requests |-> NoRequest]
    /\ evictions = 0 /\ slotReused = FALSE /\ planOvertaken = FALSE

------------------------------------------------------------------------------
(* Walking the tree *)

edge_match_len(edge, rest) ==
    LET agrees(n) == \A i \in 1..n : edge[i] = rest[i]
        longest == IF Len(edge) < Len(rest) THEN Len(edge) ELSE Len(rest)
    IN  CHOOSE n \in 0..longest : agrees(n) /\ (n < longest => ~agrees(n + 1))

Rest(toks, pos) == SubSeq(toks, pos + 1, Len(toks))

\* A node whose block was taken away but not what was recorded about it.
is_tombstone(node) == node.block = None /\ node.tier /= "none"

\* The block-bearing nodes on the longest path of whole edges along toks.
RECURSIVE Walk(_, _, _, _)
Walk(ns, at, pos, toks) ==
    IF pos >= Len(toks) \/ toks[pos + 1] \notin DOMAIN ns[at].children THEN << >>
    ELSE LET c    == ns[at].children[toks[pos + 1]]
             edge == ns[c].tokens
             here == IF ns[c].block = None THEN << >> ELSE <<c>>
         IN  IF edge_match_len(edge, Rest(toks, pos)) < Len(edge) \/ is_tombstone(ns[c])
             THEN << >>
             ELSE here \o Walk(ns, c, pos + Len(edge), toks)

Matched(ns, toks) == Walk(ns, Root, 0, toks)
BlocksOf(ns, path) == [i \in DOMAIN path |-> ns[path[i]].block]

\* lookup_blocks_ready_on_gpu: a node without a location counts as T0.
ready_on_gpu(ns, path) == \A i \in DOMAIN path : ns[path[i]].tier /= "host"

------------------------------------------------------------------------------
(* Insertion; a cache under construction is a record t of these fields *)

Cache == [nodes |-> nodes, free |-> freeNodes, index |-> index, cached |-> cached,
          reused |-> slotReused]

Becomes(t) ==
    /\ nodes' = t.nodes /\ freeNodes' = t.free /\ index' = t.index /\ cached' = t.cached
    /\ slotReused' = t.reused

\* Every node but the root has an edge; a collected one has none.
InUse(node) == node.tokens /= << >>

\* alloc_node: [tree, slot]
alloc_node(t, node) ==
    IF t.free /= << >>
    THEN [tree |-> [t EXCEPT !.nodes[Last(t.free)] = node, !.free = Front(@),
                             !.reused = @ \/ InUse(t.nodes[Last(t.free)])],
          slot |-> Last(t.free)]
    ELSE [tree |-> [t EXCEPT !.nodes = Append(@, node)], slot |-> Len(t.nodes) + 1]

\* f with f[x] = v, whether or not x was in its domain.
With(f, x, v) == [y \in DOMAIN f \cup {x} |-> IF y = x THEN v ELSE f[y]]

SetChild(t, parent, token, slot) ==
    [t EXCEPT !.nodes[parent] = [@ EXCEPT !.children = With(@, token, slot)]]

\* A new child for toks[pos+1 .. end], with block number k + 1 if it is full.
NewChild(t, parent, pos, k, toks, bids) ==
    LET boundary == (k + 1) * BlockTokens
        end   == IF boundary < Len(toks) THEN boundary ELSE Len(toks)
        block == IF end = boundary THEN bids[k + 1] ELSE None
        a     == alloc_node(t, Node(SubSeq(toks, pos + 1, end), block))
        named == IF block = None THEN a.tree ELSE [a.tree EXCEPT !.index[block] = a.slot]
    IN  [tree |-> SetChild(named, parent, toks[pos + 1], a.slot),
         slot |-> a.slot, pos |-> end]

RECURSIVE NewSubtree(_, _, _, _, _, _)
NewSubtree(t, parent, pos, k, toks, bids) ==
    IF pos >= Len(toks) \/ k >= Len(bids) THEN t
    ELSE LET n == NewChild(t, parent, pos, k, toks, bids)
         IN  IF n.pos < (k + 1) * BlockTokens THEN n.tree
             ELSE NewSubtree(n.tree, n.slot, n.pos, k + 1, toks, bids)

\* Descending through a block-bearing node replaces its block.
Replace(t, slot, bid) ==
    LET old == t.nodes[slot].block
    IN  [t EXCEPT !.nodes[slot] = [@ EXCEPT !.block = bid],
                  !.index = [@ EXCEPT ![old] = None, ![bid] = slot]]

\* Only a node with a block advances the block count: after a split an edge
\* may be shorter than a block.
Advance_PerEdge(node, k) == k + 1
Advance(node, k) == IF node.block /= None THEN k + 1 ELSE k

\* Cut the edge of child c after m tokens.  The new upper node takes over the
\* pin count.
Split(t, parent, c, m) ==
    LET child == t.nodes[c]
        upper == [Node(SubSeq(child.tokens, 1, m), None) EXCEPT !.refs = child.refs]
        a     == alloc_node(t, upper)
        lower == [a.tree EXCEPT !.nodes[c] =
                     [@ EXCEPT !.tokens = SubSeq(child.tokens, m + 1, Len(child.tokens))]]
    IN  [tree |-> SetChild(SetChild(lower, a.slot, child.tokens[m + 1], c),
                           parent, child.tokens[1], a.slot),
         slot |-> a.slot]

\* insert_with_fingerprints
RECURSIVE InsertFrom(_, _, _, _, _, _)
InsertFrom(t, at, pos, k, toks, bids) ==
    IF pos >= Len(toks) \/ k >= Len(bids) THEN t
    ELSE IF toks[pos + 1] \notin DOMAIN t.nodes[at].children
         THEN NewSubtree(t, at, pos, k, toks, bids)
    ELSE LET c    == t.nodes[at].children[toks[pos + 1]]
             edge == t.nodes[c].tokens
             m    == edge_match_len(edge, Rest(toks, pos))
         IN  IF m = Len(edge)
             THEN InsertFrom(IF t.nodes[c].block = None THEN t ELSE Replace(t, c, bids[k + 1]),
                             c, pos + m, Advance(t.nodes[c], k), toks, bids)
             ELSE LET s == Split(t, at, c, m)
                      n == NewChild(s.tree, s.slot, pos + m, k, toks, bids)
                  IN  IF (k + 1) * BlockTokens <= Len(toks)
                      THEN InsertFrom(n.tree, n.slot, n.pos, k + 1, toks, bids)
                      ELSE s.tree

\* release: by block id, over all nodes.
Unpinned(ns, bids) ==
    FoldSet(LAMBDA i, acc : [acc EXCEPT ![i].refs = @ - 1], ns,
            {i \in DOMAIN ns : ns[i].block \in ToSet(bids) /\ ns[i].refs > 0})

------------------------------------------------------------------------------
(* What the scheduler does with the cache *)

\* Up to n ids nobody uses, in a fixed order: of free pages or logical ids.
Fresh(held, ids, n) ==
    LET unused == SetToSortSeq({b \in ids : held[b] = << >>}, <)
    IN  SubSeq(unused, 1, IF n < Len(unused) THEN n ELSE Len(unused))

\* lookup_or_stage pins the blocks on the path.
Pinned(ns, path) ==
    [i \in DOMAIN ns |->
        IF i \in ToSet(path) THEN [ns[i] EXCEPT !.refs = @ + 1] ELSE ns[i]]

CanPin(ns, path) == \A i \in DOMAIN path : ns[path[i]].refs < MaxRefs

\* Admission of a request that attaches the blocks it hit, all in T0.
admit(r, prompt) ==
    LET path == Matched(nodes, prompt) IN
    /\ req[r] = NoRequest
    /\ ready_on_gpu(nodes, path) /\ CanPin(nodes, path)
    /\ nodes' = Pinned(nodes, path)
    /\ req' = [req EXCEPT ![r] = [prompt |-> prompt, held |-> BlocksOf(nodes, path)]]
    /\ UNCHANGED <<freeNodes, index, cached, evictions, slotReused, planOvertaken>>

\* Admission that recomputes: the lookup's pins are released in the same turn.
admit_cold(r, prompt) ==
    /\ req[r] = NoRequest
    /\ req' = [req EXCEPT ![r] = [prompt |-> prompt, held |-> << >>]]
    /\ UNCHANGED <<tree, cached, evictions, slotReused, planOvertaken>>

\* update_block_metadata, through block_index: these blocks are in this tier.
Located(t, bids, tier) ==
    LET named == {t.index[b] : b \in ToSet(bids)} \ {None}
    IN  [t EXCEPT !.nodes = [i \in DOMAIN @ |->
            IF i \in named THEN [@[i] EXCEPT !.tier = tier] ELSE @[i]]]

\* The KV that bids hold: those computed or copied for the blocks of toks.
Filled(held, bids, toks) ==
    [b \in BlockIds |->
        LET is == {i \in DOMAIN bids : bids[i] = b}
        IN  IF is = {} THEN held[b]
            ELSE SubSeq(toks, 1, (CHOOSE i \in is : TRUE) * BlockTokens)]

\* cleanup: release the pins, then publish the sealed blocks of the prompt:
\* the attached ones under their ids, the computed ones under fresh ids.
finish(r) ==
    LET prompt == req[r].prompt
        held   == req[r].held
        count  == Len(prompt) \div BlockTokens
        fresh  == Fresh(cached, DevicePages, count - Len(held))
        bids   == held \o fresh
        t == InsertFrom([Cache EXCEPT !.nodes = Unpinned(nodes, held)], Root, 0, 0,
                        SubSeq(prompt, 1, count * BlockTokens), bids)
    IN
    /\ prompt /= << >> /\ Len(bids) = count
    /\ Becomes(Located([t EXCEPT !.cached =
                   Filled(@, [i \in 1..count |-> IF i > Len(held) THEN bids[i] ELSE None], prompt)],
                       bids, "gpu"))
    /\ req' = [req EXCEPT ![r] = NoRequest]
    /\ UNCHANGED <<evictions, planOvertaken>>

\* A request that ends without publishing (error, client gone, publish cap).
abort(r) ==
    /\ req[r] /= NoRequest
    /\ nodes' = Unpinned(nodes, req[r].held)
    /\ req' = [req EXCEPT ![r] = NoRequest]
    /\ UNCHANGED <<freeNodes, index, cached, evictions, slotReused, planOvertaken>>

\* demote_block_to_host moves a block under a new id; the old id is free.
retag_block_KeepsIndex(t, old, new) ==
    [t EXCEPT !.nodes[t.index[old]].block = new, !.index[new] = t.index[old]]
retag_block(t, old, new) ==
    [t EXCEPT !.nodes[t.index[old]].block = new,
              !.index = [@ EXCEPT ![old] = None, ![new] = t.index[old]]]

\* A block under node i that the tier filter sees and the victims leave.
RECURSIVE subtree_has_unselected_block_in_tier(_, _, _, _)
subtree_has_unselected_block_in_tier(ns, i, tier, chosen) ==
    /\ i \notin chosen
    /\ \/ ns[i].block /= None /\ ns[i].tier = tier
       \/ \E c \in Range(ns[i].children) :
              subtree_has_unselected_block_in_tier(ns, c, tier, chosen)

node_is_active_leaf_for_tier(ns, i, tier, chosen) ==
    \A c \in Range(ns[i].children) :
        ~subtree_has_unselected_block_in_tier(ns, c, tier, chosen)

Evictable_IgnoresPins(node, tier) == node.block /= None /\ node.tier = tier
Evictable(node, tier) == node.block /= None /\ node.tier = tier /\ node.refs = 0

CanDemote(t, b) ==
    /\ t.index[b] /= None /\ Evictable(t.nodes[t.index[b]], "gpu")
    /\ node_is_active_leaf_for_tier(t.nodes, t.index[b], "gpu", {})
    /\ Len(Fresh(t.cached, Logical, 1)) = 1

Demoted(t, b) ==
    LET new == Fresh(t.cached, Logical, 1)[1]
        u   == Located(retag_block(t, b, new), <<new>>, "host")
    IN  [u EXCEPT !.cached = [@ EXCEPT ![b] = << >>, ![new] = t.cached[b]]]

demote(b) ==
    /\ CanDemote(Cache, b)
    /\ Becomes(Demoted(Cache, b))
    /\ UNCHANGED <<req, evictions, planOvertaken>>

------------------------------------------------------------------------------
(* Eviction *)

Unlink(ns, gone) ==
    [i \in DOMAIN ns |->
        [ns[i] EXCEPT !.children =
            [k \in {k \in DOMAIN @ : @[k] \notin gone} |-> @[k]]]]

\* gc_orphan_tombstones: blockless, unpinned nodes without any other kind of
\* descendant.  Slots that are free already are found again.
RECURSIVE Reclaimable(_, _)
Reclaimable(ns, found) ==
    LET more == {i \in DOMAIN ns \ {Root} :
                    /\ ns[i].block = None /\ ns[i].refs = 0
                    /\ Range(ns[i].children) \subseteq found}
    IN  IF more \subseteq found THEN found ELSE Reclaimable(ns, found \cup more)

\* evict_with_policy_for_intent_excluding and drop_cached_blocks: victims is
\* what its loop can pick.
CanEvict(t, tier, victims) ==
    \A i \in victims : /\ Evictable(t.nodes[i], tier)
                       /\ node_is_active_leaf_for_tier(t.nodes, i, tier, victims)

Evicted(t, victims) ==
    LET blocks == {t.nodes[i].block : i \in victims}
        taken  == [i \in DOMAIN t.nodes |->
                     IF i \in victims THEN [t.nodes[i] EXCEPT !.block = None] ELSE t.nodes[i]]
        gone   == Reclaimable(Unlink(taken, victims), {})
    IN  [t EXCEPT !.nodes   = [i \in DOMAIN @ |->
                                 IF i \in gone THEN Node(<< >>, None)
                                 ELSE Unlink(Unlink(taken, victims), gone)[i]],
                  !.free    = @ \o SetToSortSeq(gone, <),
                  !.index   = [b \in BlockIds |-> IF b \in blocks THEN None ELSE @[b]],
                  !.cached = [b \in BlockIds |-> IF b \in blocks THEN << >> ELSE @[b]]]

evict(tier, victims) ==
    /\ evictions < MaxEvictions
    /\ CanEvict(Cache, tier, victims)
    /\ Becomes(Evicted(Cache, victims))
    /\ evictions' = evictions + 1
    /\ UNCHANGED <<req, planOvertaken>>

\* evict_prefix_cache_for_allocation, for n more pages: the caches its loop can
\* leave when each block it selects may or may not find room in the host tier.
RECURSIVE Demotions(_, _)
Demotions(t, n) ==
    {t} \cup IF n = 0 THEN {}
             ELSE UNION {Demotions(Demoted(t, b), n - 1) : b \in {b \in DevicePages : CanDemote(t, b)}}

\* What demotion did not free may be dropped: [cache, drops].
Rooms(t, n) ==
    LET left(u) == n - (Cardinality({b \in DevicePages : u.cached[b] = << >>})
                        - Cardinality({b \in DevicePages : t.cached[b] = << >>}))
    IN  UNION {{[cache |-> u, drops |-> 0]} \cup
               {[cache |-> Evicted(u, victims), drops |-> 1] :
                   victims \in {v \in SUBSET DOMAIN u.nodes \ {{}} :
                                   Cardinality(v) <= left(u) /\ CanEvict(u, "gpu", v)}} :
               u \in Demotions(t, n)}

------------------------------------------------------------------------------
(* Readmission *)

\* The positions of a path whose block must come back from the host tier.
Staged(path) == {i \in DOMAIN path : nodes[path[i]].tier = "host"}

\* promote_fetched_prefix in the cache t, after it made room, for the blocks
\* that lay along toks when the request was planned: those in the host tier get
\* fresh pages, the others keep the id they had.
Promoted(t, path, toks) ==
    LET old    == BlocksOf(nodes, path)
        nth(i) == Cardinality({j \in Staged(path) : j <= i})
        fresh  == Fresh(t.cached, DevicePages, Cardinality(Staged(path)))
        bids   == [i \in DOMAIN path |-> IF i \in Staged(path) THEN fresh[nth(i)] ELSE old[i]]
        moved  == [i \in DOMAIN path |-> IF i \in Staged(path) THEN bids[i] ELSE None]
        u      == InsertFrom(t, Root, 0, 0, SubSeq(toks, 1, Len(path) * BlockTokens), bids)
    IN  Located([u EXCEPT !.cached = Filled([b \in BlockIds |->
                    IF b \in {old[i] : i \in Staged(path)} THEN << >> ELSE @[b]], moved, toks)],
                fresh, "gpu")

\* The pages run out half way: those that were filled are dropped unreleased.
PromotedInPart(t, path, toks) ==
    LET free   == Fresh(t.cached, DevicePages, Cardinality(Staged(path)))
        staged == SetToSortSeq(Staged(path), <)
    IN  [t EXCEPT !.cached = [b \in BlockIds |->
            IF b \in ToSet(free)
            THEN SubSeq(toks, 1, staged[CHOOSE k \in DOMAIN free : free[k] = b] * BlockTokens)
            ELSE @[b]]]

\* A block of the plan that was in T0 is not where the plan has it.
Overtaken(t, path) ==
    \E i \in DOMAIN path \ Staged(path) : t.nodes[path[i]].block /= nodes[path[i]].block

\* Admission of a request whose blocks are all in T0 or T1: the pins of the
\* lookup are released, room is made for the promotion, the T1 blocks are
\* promoted, and adopt_promoted_prefix looks the prefix up again to pin it.  If
\* there are too few pages, or the prefix is not ready, the request recomputes,
\* without a release.
readmit(r, prompt) ==
    LET path  == Matched(nodes, prompt)
        need  == Cardinality(Staged(path))
        short == need - Len(Fresh(cached, DevicePages, need))
    IN
    /\ req[r] = NoRequest /\ Staged(path) /= {}
    /\ \E room \in Rooms(Cache, short) :
        LET t     == room.cache
            u     == Promoted(t, path, prompt)
            again == Matched(u.nodes, SubSeq(prompt, 1, Len(path) * BlockTokens))
            ok    == ready_on_gpu(u.nodes, again) /\ Len(again) = Len(path)
        IN
        /\ evictions' = evictions + room.drops /\ evictions' <= MaxEvictions
        /\ \/ /\ Len(Fresh(t.cached, DevicePages, need)) = need
              /\ CanPin(u.nodes, again)
              /\ Becomes([u EXCEPT !.nodes = Pinned(@, again)])
              /\ planOvertaken' = (planOvertaken \/ Overtaken(t, path))
              /\ req' = [req EXCEPT ![r] = [prompt |-> prompt,
                             held |-> IF ok THEN BlocksOf(u.nodes, again) ELSE << >>]]
           \/ /\ Len(Fresh(t.cached, DevicePages, need)) < need
              /\ Becomes(PromotedInPart(t, path, prompt))
              /\ req' = [req EXCEPT ![r] = [prompt |-> prompt, held |-> << >>]]
              /\ UNCHANGED planOvertaken

CacheNext ==
    \/ \E r \in Requests, p \in Prompts : admit(r, p) \/ admit_cold(r, p)
    \/ \E r \in Requests : finish(r) \/ abort(r)
    \/ \E b \in BlockIds : demote(b)
    \/ \E r \in Requests, p \in Prompts : readmit(r, p)
    \/ \E tier \in {"gpu", "host"} : \E victims \in (SUBSET DOMAIN nodes) \ {{}} :
           evict(tier, victims)

CacheSpec == CacheInit /\ [][CacheNext]_cacheVars

------------------------------------------------------------------------------
\* A node that carries a block carries "the GPU KV block that caches those
\* tokens" (prefix_cache.rs:23): the blocks a lookup returns hold the KV of the
\* prompt it was given, block by block and without a gap.
BlocksCacheTheirTokens ==
    \A p \in Prompts : LET path == Matched(nodes, p) IN
        \A i \in DOMAIN path :
            cached[nodes[path[i]].block] = SubSeq(p, 1, i * BlockTokens)

\* block_index is "always kept in sync with insert / evict / tombstone paths"
\* (prefix_cache.rs:264): it names exactly the node that carries each block.
BlockIndexInSync ==
    /\ \A i \in DOMAIN nodes : nodes[i].block /= None => index[nodes[i].block] = i
    /\ \A b \in BlockIds : index[b] /= None => nodes[index[b]].block = b

\* Neither of the two defects has struck: a slot that eviction put on the free
\* list twice was not handed out twice, and no promotion inserted the id of a
\* block that its own call for room had taken away.
Undamaged == ~slotReused /\ ~planOvertaken

\* Otherwise the blocks a lookup returns are right, whatever was split,
\* replaced, moved between tiers, promoted under pressure and evicted before.
LookupSound == Undamaged => BlocksCacheTheirTokens

\* Otherwise block_index is exact, also through retagging and promotion.
BlockIndexExact == Undamaged => BlockIndexInSync

\* Otherwise a block that a running request attached is not given away: its id
\* still names the KV of the request's prompt.
HeldBlocksLive ==
    Undamaged => \A r \in Requests : \A i \in DOMAIN req[r].held :
        cached[req[r].held[i]] = SubSeq(req[r].prompt, 1, i * BlockTokens)
==============================================================================
