-------------------------------- MODULE KvTier --------------------------------
(***************************************************************************)
(* What the CUDA scheduler keeps about KV blocks below the device: where   *)
(* each cached block lives (T0 device, T1 host-pinned region, T2 disk),    *)
(* the fetch and store tickets in flight, the requests waiting on them,    *)
(* and the steps that move blocks between tiers.                           *)
(*                                                                         *)
(* The cached prompts are the prefixes of one prompt of Depth blocks, so a *)
(* block's fingerprint is its position.  The coordinator, specified in     *)
(* Coordinator, is here a queue of commands that it runs one at a time and *)
(* a queue of the events it sends.  The device pool never runs out, every  *)
(* block may be demoted, session slots are already evicted and only the    *)
(* disk backs T1.  Among free block ids and free regions the smallest is   *)
(* taken.                                                                  *)
(*                                                                         *)
(* The scheduler thread and the pool it shares with the coordinator are    *)
(* the record s; operators map one value of it to the next.  D_Word is a   *)
(* faulty variant of the definition D that follows it.                     *)
(***************************************************************************)
EXTENDS Naturals, SequencesExt, FiniteSetsExt, Selections

CONSTANTS
    Requests,
    Want,        \* full blocks in the prompt of each request
    Depth,       \* full blocks of the longest prompt
    NumRegions,  \* blocks that fit in the host pool
    HighWater,   \* t1_host_pinned_high_water, in blocks
    LowWater,    \* t1_host_pinned_low_water, in blocks
    QueueCap,    \* capacity of the coordinator's command channel
    HangUps,     \* requests whose client may disconnect
    MaxFaults,   \* bound: I/O and copy errors
    MaxDemotes   \* bound: calls that reclaim device pages

ASSUME ConstantsAssumption ==
    /\ Depth \in Nat \ {0} /\ Want \in [Requests -> 1..Depth] /\ HangUps \subseteq Requests
    /\ NumRegions \in Nat /\ HighWater \in 0..NumRegions /\ LowWater \in 0..HighWater
    /\ QueueCap \in Nat /\ MaxFaults \in Nat /\ MaxDemotes \in Nat

VARIABLES
    s,       \* scheduler tables, prefix-cache metadata and host pool
    cmds,    \* commands the coordinator has not finished
    events,  \* events the scheduler has not handled
    faults, demotes  \* history: errors and reclaims so far

vars == <<s, cmds, events, faults, demotes>>

Fps == 1..Depth
Regions == 1..NumRegions
NoTable == [x \in {} |-> x]

(* Tables, functions whose domain grows and shrinks *)
Put(f, x, v) == [y \in DOMAIN f \cup {x} |-> IF y = x THEN v ELSE f[y]]
Drop(f, xs) == [y \in DOMAIN f \ xs |-> f[y]]

Monus(a, b) == IF a > b THEN a - b ELSE 0

Waiting == [phase |-> "idle", plan |-> <<>>, closed |-> FALSE]

Init ==
    /\ s = [node |-> NoTable,        \* prefix cache: block id -> block
            live |-> {},             \* live_regions of the host pool
            bytes |-> [r \in Regions |-> 0],  \* whose KV a region holds
            disk |-> [f \in Fps |-> 0],       \* whose KV a block file holds
            fetchWaiting |-> NoTable, fetchDedupe |-> NoTable, fetchKeys |-> NoTable,
            prefetching |-> {},
            storeWaiting |-> NoTable, storeDedupe |-> NoTable, storeKeys |-> NoTable,
            req |-> [r \in Requests |-> Waiting]]
    /\ cmds = <<>>
    /\ events = <<>>
    /\ faults = 0
    /\ demotes = 0

------------------------------------------------------------------------------
(* Prefix cache.  tree: 0 where a lookup reaches the block, otherwise the  *)
(* number of the subtree it was cut off with; pins is ref_count; kv: whose *)
(* KV the device pages hold; store "busy" is Pending or Storing, which no  *)
(* guard tells apart.                                                      *)

NewNode(f) == [fp |-> f, tree |-> 0, loc |-> "gpu", region |-> 0, kv |-> f,
               store |-> "idle", pins |-> 0]

At(t, f) == CHOOSE b \in DOMAIN t.node : t.node[b].tree = 0 /\ t.node[b].fp = f

\* Blocks of the longest cached prefix of a prompt of n blocks.
Path(t, n) ==
    LET there == {t.node[b].fp : b \in {c \in DOMAIN t.node : t.node[c].tree = 0}}
        m     == Max({k \in 0..n : 1..k \subseteq there})
    IN  [i \in 1..m |-> At(t, i)]

Pin(t, ids) ==
    [t EXCEPT !.node = [b \in DOMAIN @ |->
        IF b \in Range(ids) THEN [@[b] EXCEPT !.pins = @ + 1] ELSE @[b]]]

\* release: by block id, ignoring the ids the index no longer has.
Unpin(t, ids) ==
    [t EXCEPT !.node = [b \in DOMAIN @ |->
        IF b \in Range(ids) /\ @[b].pins > 0 THEN [@[b] EXCEPT !.pins = @ - 1] ELSE @[b]]]

\* insert_with_fingerprints: blocks on the path take the new ids and keep
\* their metadata; the rest of the path is added.
Insert(t, ids) ==
    LET path == Path(t, Len(ids))
        kept == DOMAIN t.node \ (Range(path) \cup Range(ids))
        at(b) == CHOOSE i \in DOMAIN ids : ids[i] = b
    IN  [t EXCEPT !.node = [b \in kept \cup Range(ids) |->
            IF b \in kept THEN @[b]
            ELSE IF at(b) <= Len(path) THEN @[path[at(b)]] ELSE NewNode(at(b))]]

\* The blocks of b's subtree further from the root.
Below(t, b) == {c \in DOMAIN t.node : t.node[c].tree = t.node[b].tree
                                      /\ t.node[c].fp > t.node[b].fp}

\* evict: a removed block's descendants stay indexed but out of reach, in a
\* subtree of their own.
Evict(t, bs) ==
    LET over(c)    == {b \in bs : c \in Below(t, b)}
        nearest(c) == CHOOSE b \in over(c) : over(c) \cap Below(t, b) = {}
        last       == Max({t.node[b].tree : b \in DOMAIN t.node})
        subtree(c) == last + Cardinality({b \in bs : b <= nearest(c)})
    IN  [t EXCEPT !.node = [c \in DOMAIN @ \ bs |->
            IF over(c) = {} THEN @[c] ELSE [@[c] EXCEPT !.tree = subtree(c)]]]

SetStore(t, b, state) ==
    IF b \in DOMAIN t.node THEN [t EXCEPT !.node[b].store = state] ELSE t

\* Unpinned blocks of a tier, taken leaves first (node_is_active_leaf_for_tier).
Selectable(t, loc, ok) ==
    LET pick(b) == t.node[b].loc = loc /\ t.node[b].pins = 0 /\ b \in ok
    IN  {b \in DOMAIN t.node : pick(b) /\ \A c \in Below(t, b) : t.node[c].loc = loc => pick(c)}

\* Intents Spill and Drain skip blocks that are stored or being stored.
HostSelectable(t) ==
    Selectable(t, "host", {b \in DOMAIN t.node : t.node[b].store \in {"idle", "failed"}})

DeepFirst(t, bs) ==
    LET before(b) == {c \in bs : \/ t.node[c].fp > t.node[b].fp
                                 \/ t.node[c].fp = t.node[b].fp /\ c < b}
    IN  [i \in 1..Cardinality(bs) |-> CHOOSE b \in bs : Cardinality(before(b)) = i - 1]

\* Block ids: page ids and logical tier ids, none of them still named anywhere.
Named(t) ==
    DOMAIN t.node
    \cup (UNION {{p.id : p \in Range(t.req[r].plan)} : r \in Requests})
    \cup (UNION {{w.id : w \in Range(t.storeWaiting[k])} : k \in DOMAIN t.storeWaiting})
    \cup (UNION {{p.id : p \in Range(c.blocks)} : c \in Range(cmds) \cup Range(events)})

NewIds(t, n) ==
    LET used == Named(t)
        free == {i \in 1..(Cardinality(used) + n) : i \notin used}
    IN  SubSeq(SetToSortSeq(free, LAMBDA a, b : a < b), 1, n)

NewTicket(t, q) ==
    LET used == DOMAIN t.fetchKeys \cup DOMAIN t.storeKeys
                \cup {c.ticket : c \in Range(q) \cup Range(events)}
    IN  Min((1..(Cardinality(used) + 1)) \ used)
------------------------------------------------------------------------------
(* Host pool *)

Free(t) == Regions \ t.live

\* release_region of each: one that is not live is reported and ignored.
ReleaseAll(t, rs) == [t EXCEPT !.live = @ \ rs]

Reserve(t, kv) ==
    LET r == Min(Free(t)) IN [t EXCEPT !.live = @ \cup {r}, !.bytes[r] = kv]

Unclaimed(blocks) == {p.region : p \in {q \in Range(blocks) : q.own}}
release_unclaimed_fetch_regions(t, blocks) == ReleaseAll(t, Unclaimed(blocks))
------------------------------------------------------------------------------
(* Readmission plans *)

PlanOf(t, path) ==
    [i \in DOMAIN path |-> [id |-> path[i], fp |-> i, src |-> t.node[path[i]].loc,
                            region |-> t.node[path[i]].region,
                            kv |-> t.node[path[i]].kv]]
Ids(plan) == [i \in DOMAIN plan |-> plan[i].id]
Staged(plan) == SelectSeq(plan, LAMBDA p : p.src /= "gpu")
FromDisk(plan) == SelectSeq(plan, LAMBDA p : p.src = "disk")
fetch_key(plan) == LET st == Staged(plan) IN [i \in DOMAIN st |-> st[i].fp]

Become(t, r, phase, plan) ==
    [t EXCEPT !.req[r].phase = phase, !.req[r].plan = plan]

\* The plans of the requests rs release their pins, one after the other.
ReleasePlans(t, rs) ==
    LET held(b) == {r \in rs : b \in Range(Ids(t.req[r].plan))}
    IN  [t EXCEPT !.node = [b \in DOMAIN @ |->
            [@[b] EXCEPT !.pins = Monus(@, Cardinality(held(b)))]]]

\* fallback_to_cold_prefill_without_release, and the one that releases.
GoCold(t, rs) ==
    [t EXCEPT !.req = [r \in Requests |->
        IF r \in rs THEN [@[r] EXCEPT !.phase = "cold", !.plan = <<>>] ELSE @[r]]]
fallback_to_cold_prefill(t, rs) == GoCold(ReleasePlans(t, rs), rs)

\* promote_fetched_prefix: [ok, t].  A copy error, or a region that is not
\* live, fails; the regions of T1 blocks are released, whoever else uses them.
promote_fetched_prefix(t, plan, blocks, copied) ==
    LET got(p) == {q \in Range(blocks) : q.id = p.id}
        region(p) == (CHOOSE q \in got(p) : TRUE).region
        fresh == NewIds(t, Len(plan))
        ids   == [i \in DOMAIN plan |->
                    IF plan[i].src = "gpu" THEN plan[i].id ELSE fresh[i]]
        ok    == copied /\ \A p \in Range(Staged(plan)) :
                              got(p) /= {} /\ region(p) \in t.live
        there == Insert(t, ids)
        moved == {i \in DOMAIN plan : plan[i].src /= "gpu"}
    IN  [ok |-> ok,
         t  |-> IF ~ok THEN t
                ELSE [there EXCEPT
                        !.node = [b \in DOMAIN @ |->
                            IF \E i \in moved : ids[i] = b
                            THEN LET i == CHOOSE j \in moved : ids[j] = b
                                 IN  [@[b] EXCEPT !.loc = "gpu", !.region = 0,
                                                  !.kv = t.bytes[region(plan[i])]]
                            ELSE @[b]],
                        !.live = @ \ {plan[i].region : i \in {j \in moved :
                                                              plan[j].src = "host"}}]]

\* adopt_promoted_prefix: the lookup pins; a prefix that is not whole and on
\* the device keeps those pins and goes cold.
adopt_promoted_prefix(t, rs) ==
    LET path(r)   == Path(t, Len(t.req[r].plan))
        ready(r)  == /\ Len(path(r)) = Len(t.req[r].plan)
                     /\ \A i \in DOMAIN path(r) : t.node[path(r)[i]].loc = "gpu"
        pinned(b) == {r \in rs : b \in Range(path(r))}
    IN  [t EXCEPT
            !.node = [b \in DOMAIN @ |-> [@[b] EXCEPT !.pins = @ + Cardinality(pinned(b))]],
            !.req = [r \in Requests |->
                IF r \notin rs THEN @[r]
                ELSE IF ready(r)
                THEN [@[r] EXCEPT !.phase = "attached", !.plan = PlanOf(t, path(r))]
                ELSE [@[r] EXCEPT !.phase = "cold", !.plan = <<>>]]]

complete_ready_fetch_waiters(t, ready, blocks, copied) ==
    IF ready = <<>> THEN release_unclaimed_fetch_regions(t, blocks)
    ELSE LET promoted == promote_fetched_prefix(ReleasePlans(t, Range(ready)),
                                                t.req[ready[1]].plan, blocks, copied)
         IN  release_unclaimed_fetch_regions(
                 IF promoted.ok THEN adopt_promoted_prefix(promoted.t, Range(ready))
                                ELSE GoCold(promoted.t, Range(ready)),
                 blocks)
------------------------------------------------------------------------------
(* Tickets *)

Submitted(q, kind, ticket, blocks) ==
    Append(q, [kind |-> kind, ticket |-> ticket, blocks |-> blocks, cancelled |-> FALSE])

FetchCmds == SelectSeq(cmds, LAMBDA c : c.kind = "fetch")
fetch_backpressured == 4 * Len(FetchCmds) >= 3 * QueueCap

TrackFetch(t, key, ticket) ==
    [t EXCEPT !.fetchDedupe = Put(@, key, ticket), !.fetchKeys = Put(@, ticket, key)]

ForgetFetch(t, ticket) ==
    [t EXCEPT !.prefetching = @ \ {ticket},
              !.fetchWaiting = Drop(@, {ticket}),
              !.fetchKeys = Drop(@, {ticket}),
              !.fetchDedupe = IF ticket \in DOMAIN t.fetchKeys
                              THEN Drop(@, {t.fetchKeys[ticket]}) ELSE @]

WaitersOf(t, ticket) ==
    IF ticket \in DOMAIN t.fetchWaiting THEN t.fetchWaiting[ticket] ELSE <<>>

JoinFetch_Replace(t, ticket, r) ==
    [t EXCEPT !.fetchWaiting = Put(@, ticket, <<r>>)]
JoinFetch(t, ticket, r) ==
    [t EXCEPT !.fetchWaiting = Put(@, ticket, Append(WaitersOf(t, ticket), r))]

\* clear_fetch_waiting_for_slot: [t, cancel].  A ticket left without waiters is
\* forgotten and cancelled, unless a prefetch still wants it.
clear_fetch_waiting_for_slot_KeepDedupe(t, r) ==
    LET cleared == [k \in DOMAIN t.fetchWaiting |->
                        Keeping(t.fetchWaiting[k], Requests \ {r})]
        emptied == {k \in DOMAIN cleared : cleared[k] = <<>>}
        dead    == emptied \ t.prefetching
    IN  [t |-> [t EXCEPT !.fetchWaiting = Drop(cleared, emptied),
                         !.fetchKeys = Drop(@, dead)],
         cancel |-> dead]
clear_fetch_waiting_for_slot(t, r) ==
    LET cleared == [k \in DOMAIN t.fetchWaiting |->
                        Keeping(t.fetchWaiting[k], Requests \ {r})]
        emptied == {k \in DOMAIN cleared : cleared[k] = <<>>}
        dead    == emptied \ t.prefetching
    IN  [t |-> [t EXCEPT !.fetchWaiting = Drop(cleared, emptied),
                         !.fetchKeys = Drop(@, dead),
                         !.fetchDedupe = Drop(@, {t.fetchKeys[k] : k \in dead})],
         cancel |-> dead]

ForgetStore(t, ticket) ==
    [t EXCEPT !.storeWaiting = Drop(@, {ticket}),
              !.storeKeys = Drop(@, {ticket}),
              !.storeDedupe = IF ticket \in DOMAIN t.storeKeys
                              THEN Drop(@, {t.storeKeys[ticket]}) ELSE @]
------------------------------------------------------------------------------
(* Admission *)

\* admit_waiting_candidate for the outcomes of build_prefix_admission_plan.
AdmitCold(r) ==
    /\ s.req[r].phase \in {"idle", "waiting"}
    /\ Path(s, Want[r]) = <<>>
    /\ s' = GoCold(s, {r})
    /\ UNCHANGED <<cmds, events, faults, demotes>>

AdmitAttached(r) ==
    LET path == Path(s, Want[r])
    IN  /\ s.req[r].phase \in {"idle", "waiting"}
        /\ path /= <<>> /\ \A i \in DOMAIN path : s.node[path[i]].loc = "gpu"
        /\ s' = Become(Pin(s, path), r, "attached", PlanOf(s, path))
        /\ UNCHANGED <<cmds, events, faults, demotes>>

\* try_complete_direct_host_staged_prefix: nothing on disk, no fetch needed.
DirectHostBlocks(plan) ==
    LET st == Staged(plan)
    IN  [i \in DOMAIN st |-> [id |-> st[i].id, region |-> st[i].region, own |-> FALSE]]

AdmitFromHost(r) ==
    LET path == Path(s, Want[r])
        plan == PlanOf(s, path)
        held == Become(Pin(s, path), r, "fetch", plan)
    IN  /\ s.req[r].phase \in {"idle", "waiting"}
        /\ Staged(plan) /= <<>> /\ FromDisk(plan) = <<>>
        /\ \E copied \in BOOLEAN :
              /\ copied \/ faults < MaxFaults
              /\ s' = complete_ready_fetch_waiters(held, <<r>>, DirectHostBlocks(plan), copied)
              /\ faults' = IF copied THEN faults ELSE faults + 1
        /\ UNCHANGED <<cmds, events, demotes>>

AdmitStaged(r) ==
    LET path   == Path(s, Want[r])
        plan   == PlanOf(s, path)
        key    == fetch_key(plan)
        held   == Become(Pin(s, path), r, "fetch", plan)
        ticket == NewTicket(s, cmds)
    IN  /\ s.req[r].phase \in {"idle", "waiting"}
        /\ FromDisk(plan) /= <<>>
        /\ \/ /\ key \in DOMAIN s.fetchDedupe
              /\ s' = JoinFetch(held, s.fetchDedupe[key], r)
              /\ UNCHANGED cmds
           \/ /\ key \notin DOMAIN s.fetchDedupe
              /\ fetch_backpressured \/ Len(cmds) >= QueueCap
              /\ s' = fallback_to_cold_prefill(held, {r})
              /\ UNCHANGED cmds
           \/ /\ key \notin DOMAIN s.fetchDedupe
              /\ ~fetch_backpressured /\ Len(cmds) < QueueCap
              /\ s' = JoinFetch(TrackFetch(held, key, ticket), ticket, r)
              /\ cmds' = Submitted(cmds, "fetch", ticket, Staged(plan))
        /\ UNCHANGED <<events, faults, demotes>>

\* maybe_prefetch_staged_prefix: the request stays queued and its plan's pins
\* are given back at once.
maybe_prefetch_staged_prefix(r) ==
    LET plan   == PlanOf(s, Path(s, Want[r]))
        key    == fetch_key(plan)
        ticket == NewTicket(s, cmds)
    IN  /\ s.req[r].phase \in {"idle", "waiting"}
        /\ FromDisk(plan) /= <<>>
        /\ ~fetch_backpressured /\ Len(cmds) < QueueCap
        /\ key \notin DOMAIN s.fetchDedupe
        /\ s' = [TrackFetch(Become(s, r, "waiting", <<>>), key, ticket)
                    EXCEPT !.prefetching = @ \cup {ticket}]
        /\ cmds' = Submitted(cmds, "fetch", ticket, Staged(plan))
        /\ UNCHANGED <<events, faults, demotes>>
------------------------------------------------------------------------------
(* Events of the coordinator *)

\* materialize_prefetched_host_blocks
materialize_prefetched_host_blocks(t, blocks) ==
    LET there == {p \in Range(blocks) : p.id \in DOMAIN t.node}
        gone  == Range(blocks) \ there
        at(b) == CHOOSE p \in there : p.id = b
    IN  [ReleaseAll(t, {p.region : p \in {q \in gone : q.own}}) EXCEPT
            !.node = [b \in DOMAIN @ |->
                IF \E p \in there : p.id = b
                THEN [@[b] EXCEPT !.loc = "host", !.region = at(b).region] ELSE @[b]]]

collect_fetch_waiters(t, waiters) ==
    LET gone == {r \in Range(waiters) : t.req[r].closed}
    IN  [t |-> [t EXCEPT !.req = [r \in Requests |->
                    IF r \in gone THEN [@[r] EXCEPT !.phase = "finished"] ELSE @[r]]],
         ready |-> Keeping(waiters, Requests \ gone)]

FetchCompleted(e, copied) ==
    LET waiters == WaitersOf(s, e.ticket)
        t       == ForgetFetch(s, e.ticket)
        c       == collect_fetch_waiters(t, waiters)
    IN  IF waiters /= <<>> THEN complete_ready_fetch_waiters(c.t, c.ready, e.blocks, copied)
        ELSE IF e.ticket \in s.prefetching THEN materialize_prefetched_host_blocks(t, e.blocks)
        ELSE release_unclaimed_fetch_regions(t, e.blocks)

FetchFailed_FirstWaiter(e) ==
    LET waiters == WaitersOf(s, e.ticket)
        t       == ForgetFetch(s, e.ticket)
    IN  IF waiters = <<>> THEN t ELSE fallback_to_cold_prefill(t, {Head(waiters)})
FetchFailed(e) ==
    fallback_to_cold_prefill(ForgetFetch(s, e.ticket), Range(WaitersOf(s, e.ticket)))

StoreCompleted(e) ==
    LET ws == Range(s.storeWaiting[e.ticket])
    IN  [ForgetStore(s, e.ticket) EXCEPT
            !.node = [b \in DOMAIN @ |->
                IF \E w \in ws : w.id = b
                THEN [@[b] EXCEPT !.loc = "disk", !.region = 0, !.store = "stored"] ELSE @[b]],
            !.live = @ \ {w.region : w \in ws}]

StoreFailed(e) ==
    LET ws == Range(s.storeWaiting[e.ticket])
    IN  [ForgetStore(s, e.ticket) EXCEPT
            !.node = [b \in DOMAIN @ |->
                IF \E w \in ws : w.id = b THEN [@[b] EXCEPT !.store = "failed"] ELSE @[b]],
            !.live = @ \ {w.region : w \in ws}]

handle_coordinator_event ==
    /\ events /= <<>>
    /\ events' = Tail(events)
    /\ LET e == Head(events)
       IN  \/ /\ e.kind = "fetched"
              /\ \E copied \in BOOLEAN :
                    /\ copied \/ faults < MaxFaults
                    /\ s' = FetchCompleted(e, copied)
                    /\ faults' = IF copied THEN faults ELSE faults + 1
           \/ e.kind = "fetch failed" /\ s' = FetchFailed(e) /\ UNCHANGED faults
           \/ e.kind = "stored" /\ s' = StoreCompleted(e) /\ UNCHANGED faults
           \/ e.kind = "store failed" /\ s' = StoreFailed(e) /\ UNCHANGED faults
    /\ UNCHANGED <<cmds, demotes>>
------------------------------------------------------------------------------
(* Stores and reclaim *)

InStore(t, b) == \E k \in DOMAIN t.storeWaiting : \E w \in Range(t.storeWaiting[k]) : w.id = b

\* One candidate of spill_host_blocks_if_pressured; a is the state of its loop.
SpillBlock_NoDedupe(a, b) ==
    LET n      == a.t.node[b]
        ticket == NewTicket(a.t, a.q)
        marked == SetStore(a.t, b, "busy")
    IN  IF a.left = 0 \/ InStore(a.t, b) THEN a
        ELSE IF a.room = 0 \/ Len(a.q) >= QueueCap THEN [a EXCEPT !.left = 0]
        ELSE [left |-> a.left - 1, room |-> a.room - 1,
              t |-> [marked EXCEPT !.storeWaiting = Put(@, ticket, <<[id |-> b, region |-> n.region]>>),
                                   !.storeDedupe = Put(@, n.fp, ticket),
                                   !.storeKeys = Put(@, ticket, n.fp)],
              q |-> Submitted(a.q, "store", ticket,
                              <<[id |-> b, fp |-> n.fp, region |-> n.region]>>)]
SpillBlock(a, b) ==
    LET n      == a.t.node[b]
        ticket == NewTicket(a.t, a.q)
        marked == SetStore(a.t, b, "busy")
        entry  == [id |-> b, region |-> n.region]
    IN  IF a.left = 0 \/ InStore(a.t, b) THEN a
        ELSE IF n.fp \in DOMAIN a.t.storeDedupe
        THEN [a EXCEPT !.left = @ - 1,
                       !.t = [marked EXCEPT !.storeWaiting[a.t.storeDedupe[n.fp]] =
                                                Append(@, entry)]]
        ELSE IF a.room = 0 \/ Len(a.q) >= QueueCap THEN [a EXCEPT !.left = 0]
        ELSE [left |-> a.left - 1, room |-> a.room - 1,
              t |-> [marked EXCEPT !.storeWaiting = Put(@, ticket, <<entry>>),
                                   !.storeDedupe = Put(@, n.fp, ticket),
                                   !.storeKeys = Put(@, ticket, n.fp)],
              q |-> Submitted(a.q, "store", ticket,
                              <<[id |-> b, fp |-> n.fp, region |-> n.region]>>)]

spill_target(t, intent) ==
    IF intent = "Spill" /\ Cardinality(t.live) < HighWater THEN 0
    ELSE Monus(Cardinality(t.live), LowWater)

spill_host_blocks_if_pressured(t, intent) ==
    LET seq  == DeepFirst(t, HostSelectable(t))
        loop[i \in 0..Len(seq)] ==
            IF i = 0 THEN [t |-> t, q |-> cmds, left |-> spill_target(t, intent),
                           room |-> Monus(QueueCap, Len(cmds) + 1)]
            ELSE SpillBlock(loop[i - 1], seq[i])
    IN  loop[Len(seq)]

\* trigger_background_store_drain: the scheduler is idle.
trigger_background_store_drain ==
    /\ \A r \in Requests : s.req[r].phase \in {"idle", "done"}
    /\ spill_target(s, "Drain") > 0
    /\ LET done == spill_host_blocks_if_pressured(s, "Drain")
       IN  s' = done.t /\ cmds' = done.q
    /\ UNCHANGED <<events, faults, demotes>>

\* Blocks of T0 that can leave it now.
DeviceLeaves(t) == {b \in Selectable(t, "gpu", DOMAIN t.node) :
                       \A c \in Below(t, b) : t.node[c].loc /= "gpu"}

demote_headroom(t) == Monus(HighWater, Cardinality(t.live))

\* demote_block_to_host
demote_block_to_host(t, b) ==
    LET r    == Min(Free(t))
        host == NewIds(t, 1)[1]
        n    == [t.node[b] EXCEPT !.loc = "host", !.region = r, !.kv = 0]
    IN  [Reserve(t, t.node[b].kv) EXCEPT !.node = Put(Drop(@, {b}), host, n)]

\* evict_host_blocks_for_demote_headroom: drop_cached_blocks finds no metadata
\* once a block has left the index, so no region is released and the loop goes
\* on until no host block can be evicted.
evict_host_blocks_for_demote_headroom(t) == Evict(t, HostSelectable(t))

\* evict_prefix_cache_if_pressured for one page: demote a block, or drop one
\* when the host tier has no headroom; then spill.
evict_prefix_cache_if_pressured ==
    /\ demotes < MaxDemotes
    /\ \E b \in DeviceLeaves(s) :
          LET t == IF demote_headroom(s) > 0 THEN demote_block_to_host(s, b)
                   ELSE Evict(evict_host_blocks_for_demote_headroom(s), {b})
              done == spill_host_blocks_if_pressured(t, "Spill")
          IN  s' = done.t /\ cmds' = done.q
    /\ demotes' = demotes + 1
    /\ UNCHANGED <<events, faults>>
------------------------------------------------------------------------------
(* Clients and cleanup *)

HangUp(r) ==
    /\ r \in HangUps /\ ~s.req[r].closed /\ s.req[r].phase /= "done"
    /\ s' = [s EXCEPT !.req[r].closed = TRUE,
                      !.req[r].phase = IF @ \in {"idle", "waiting"} THEN "done" ELSE @]
    /\ UNCHANGED <<cmds, events, faults, demotes>>

\* publish_to_prefix_cache: the slot's pages, the attached ones first.
publish_to_prefix_cache(t, r, plan) ==
    LET fresh == NewIds(t, Want[r])
        ids   == [i \in 1..Want[r] |-> IF i <= Len(plan) THEN plan[i].id ELSE fresh[i]]
        kv(i) == IF i <= Len(plan) THEN plan[i].kv ELSE i
        at(b) == CHOOSE i \in DOMAIN ids : ids[i] = b
    IN  [Insert(t, ids) EXCEPT !.node = [b \in DOMAIN @ |->
            IF b \in Range(ids)
            THEN [@[b] EXCEPT !.loc = "gpu", !.region = 0, !.kv = kv(at(b))]
            ELSE @[b]]]

\* cleanup of one slot.  A request whose client left may not have finished its
\* prefill, and then has nothing to publish.
cleanup(r) ==
    LET q     == s.req[r]
        freed == Unpin(s, Ids(q.plan))
        left  == clear_fetch_waiting_for_slot(freed, r)
    IN  /\ \/ q.phase \in {"attached", "cold", "finished"}
           \/ q.phase = "fetch" /\ q.closed
        /\ \E publish \in BOOLEAN :
              /\ publish => q.phase \in {"attached", "cold"}
              /\ ~publish => q.closed
              /\ s' = Become(IF publish THEN publish_to_prefix_cache(left.t, r, q.plan)
                             ELSE left.t, r, "done", <<>>)
        /\ cmds' = [i \in DOMAIN cmds |->
                       [cmds[i] EXCEPT !.cancelled = @ \/ cmds[i].ticket \in left.cancel]]
        /\ UNCHANGED <<events, faults, demotes>>
------------------------------------------------------------------------------
(* The coordinator thread *)

Emit(kind, ticket, blocks) ==
    events' = Append(events, [kind |-> kind, ticket |-> ticket, blocks |-> blocks])

\* Stages one block of a fetch; a is [t, out, ok], t the host pool.
StageBlock(a, p) ==
    IF p.src = "host"
    THEN [a EXCEPT !.out = Append(@, [id |-> p.id, region |-> p.region, own |-> FALSE])]
    ELSE IF ~a.ok \/ Free(a.t) = {} \/ s.disk[p.fp] = 0 THEN [a EXCEPT !.ok = FALSE]
    ELSE [t |-> Reserve(a.t, s.disk[p.fp]), ok |-> TRUE,
          out |-> Append(a.out, [id |-> p.id, region |-> Min(Free(a.t)), own |-> TRUE])]

Staging(c) ==
    FoldLeft(StageBlock, [t |-> [live |-> s.live, bytes |-> s.bytes], out |-> <<>>,
                          ok |-> ~c.cancelled], c.blocks)

handle_fetch ==
    LET c      == Head(cmds)
        staged == Staging(c)
    IN  /\ cmds /= <<>> /\ c.kind = "fetch"
        /\ cmds' = Tail(cmds)
        /\ \/ /\ staged.ok
              /\ s' = [s EXCEPT !.live = staged.t.live, !.bytes = staged.t.bytes]
              /\ Emit("fetched", c.ticket, staged.out)
              /\ UNCHANGED faults
           \/ /\ ~staged.ok \/ faults < MaxFaults
              /\ Emit("fetch failed", c.ticket, <<>>)
              /\ faults' = IF staged.ok THEN faults + 1 ELSE faults
              /\ UNCHANGED s
        /\ UNCHANGED demotes

handle_store ==
    LET c == Head(cmds)
        b == c.blocks[1]
        readable == b.region \in s.live
    IN  /\ cmds /= <<>> /\ c.kind = "store"
        /\ cmds' = Tail(cmds)
        /\ \/ /\ readable
              /\ s' = [s EXCEPT !.disk[b.fp] = s.bytes[b.region]]
              /\ Emit("stored", c.ticket, <<>>)
              /\ UNCHANGED faults
           \/ /\ ~readable \/ faults < MaxFaults
              /\ Emit("store failed", c.ticket, <<>>)
              /\ faults' = IF readable THEN faults + 1 ELSE faults
              /\ UNCHANGED s
        /\ UNCHANGED demotes
------------------------------------------------------------------------------
Next ==
    \/ \E r \in Requests :
          \/ AdmitCold(r) \/ AdmitAttached(r) \/ AdmitFromHost(r) \/ AdmitStaged(r)
          \/ maybe_prefetch_staged_prefix(r) \/ HangUp(r) \/ cleanup(r)
    \/ handle_coordinator_event
    \/ trigger_background_store_drain
    \/ evict_prefix_cache_if_pressured
    \/ handle_fetch
    \/ handle_store

Spec == Init /\ [][Next]_vars

(* The scheduler receives from the event channel on every turn, and blocks on *)
(* it while requests wait for a fetch; the coordinator thread runs every       *)
(* command it received.  This is weak fairness of handle_coordinator_event,    *)
(* the one action that shortens events, and of handle_fetch \/ handle_store,   *)
(* which alone shorten cmds, with their enabling conditions written out.       *)
Fairness ==
    /\ []<>(events = <<>>) \/ []<><<Len(events') < Len(events)>>_vars
    /\ []<>(cmds = <<>>) \/ []<><<Len(cmds') < Len(cmds)>>_vars

FairSpec == Spec /\ Fairness
------------------------------------------------------------------------------
(* Properties *)

\* Commands and events that carry a ticket and were not cancelled.
InFlight(ticket) ==
    Cardinality({i \in DOMAIN cmds : cmds[i].ticket = ticket /\ ~cmds[i].cancelled})
      + Cardinality({i \in DOMAIN events : events[i].ticket = ticket})

\* fetch_waiting, fetch_dedupe, fetch_ticket_keys and prefetch_fetching agree
\* through joins, hang-ups, cancellations and prefetches: a key leads to the
\* ticket that fetches it, a tracked ticket is wanted by a waiter or a prefetch,
\* and its answer is still to come, exactly once.
FetchTablesAgree ==
    /\ \A t \in DOMAIN s.fetchKeys : /\ s.fetchKeys[t] \in DOMAIN s.fetchDedupe
                                      /\ s.fetchDedupe[s.fetchKeys[t]] = t
                                      /\ InFlight(t) = 1
    /\ \A k \in DOMAIN s.fetchDedupe : s.fetchDedupe[k] \in DOMAIN s.fetchKeys
    /\ DOMAIN s.fetchWaiting \cup s.prefetching = DOMAIN s.fetchKeys
    /\ \A t \in DOMAIN s.fetchWaiting : s.fetchWaiting[t] /= <<>>

\* A request in Phase::WaitingFetch waits on exactly one ticket, whose key is the
\* one of its own plan, and only such requests wait.
WaiterServed ==
    LET entries(r) == UNION {{<<t, i>> : i \in {j \in DOMAIN s.fetchWaiting[t] :
                                                   s.fetchWaiting[t][j] = r}} :
                             t \in DOMAIN s.fetchWaiting}
    IN  \A r \in Requests :
          IF s.req[r].phase = "fetch"
          THEN /\ Cardinality(entries(r)) = 1
               /\ \A e \in entries(r) : s.fetchKeys[e[1]] = fetch_key(s.req[r].plan)
          ELSE entries(r) = {}

\* store_waiting, store_dedupe and store_ticket_keys agree, one store per
\* fingerprint is in flight, and no block waits on two stores: its region would
\* be released twice.
StoreTablesAgree ==
    /\ DOMAIN s.storeWaiting = DOMAIN s.storeKeys
    /\ \A t \in DOMAIN s.storeKeys : /\ s.storeKeys[t] \in DOMAIN s.storeDedupe
                                      /\ s.storeDedupe[s.storeKeys[t]] = t
                                      /\ InFlight(t) = 1
    /\ \A k \in DOMAIN s.storeDedupe : s.storeDedupe[k] \in DOMAIN s.storeKeys
    /\ \A t, u \in DOMAIN s.storeWaiting :
         \A i \in DOMAIN s.storeWaiting[t], j \in DOMAIN s.storeWaiting[u] :
           s.storeWaiting[t][i].id = s.storeWaiting[u][j].id => t = u /\ i = j

\* A request never waits for a fetch forever: completion, failure, cancellation
\* and back pressure all lead out of Phase::WaitingFetch.
FetchAnswered == \A r \in Requests : s.req[r].phase = "fetch" ~> s.req[r].phase /= "fetch"
==============================================================================
