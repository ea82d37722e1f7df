----------------------------- MODULE Coordinator -----------------------------
(***************************************************************************)
(* The tiered-KV coordinator (infer/src/kv_tier/coordinator.rs and         *)
(* coordinator/{builder,control,events,types}.rs): the scheduler thread    *)
(* submits fetch, store and plan tickets over a bounded command channel, a *)
(* single coordinator thread runs them and answers on a bounded event      *)
(* channel.  The counters and the live/cancelled ticket sets are shared    *)
(* by the two threads outside of both channels.                            *)
(*                                                                         *)
(* An operator named D_Word is a faulty variant of the definition D that   *)
(* follows it; no specification uses it.                                   *)
(*                                                                         *)
(* The client is the only owner of the CoordinatorHandle (the CUDA         *)
(* scheduler, core.rs): its calls are sequential, but each call that       *)
(* touches shared state twice (try_send then on_submit; the two locks of   *)
(* cancel; the four steps of Drop) is split where the coordinator thread   *)
(* can run in between.                                                     *)
(***************************************************************************)
EXTENDS Naturals, Sequences, FiniteSets, Functions

CONSTANTS
    Capacity,    \* queue_capacity of both channels, clamped to >= 1
    MaxTicket,   \* bound: tickets 1..MaxTicket may be minted
    MaxBlocks,   \* bound: blocks per submitted command
    Regions,     \* regions the host-pinned pool can hand out
    CounterMod   \* 2^w of the AtomicUsize counters

ASSUME CapacityAssumption == Capacity \in Nat \ {0}
ASSUME MaxTicketAssumption == MaxTicket \in Nat
ASSUME MaxBlocksAssumption == MaxBlocks \in Nat \ {0}
ASSUME RegionsAssumption == {"tier", "gpu"} \cap Regions = {}
ASSUME CounterModAssumption == CounterMod \in Nat /\ CounterMod > MaxTicket

VARIABLES
    \* channels
    cmds,        \* CoordinatorCommand queue
    events,      \* CoordinatorEvent queue
    cmdTx,       \* the command Sender is alive
    evRx,        \* the event Receiver is alive
    \* CoordinatorHandle / CoordinatorControl
    nextTicket, queued, inFlight, submitted, settled, rejected,
    live, cancelled,
    \* host-pinned pool and who owns its live regions
    pool,        \* live regions
    owned,       \* regions of the client's host blocks (location HostPinned)
    storeWaiting, \* store_waiting: regions the client releases per ticket
    planned,     \* host regions named by the plans that wait for a fetch
    stale,       \* history: regions released while somebody still named them
    \* client thread
    cpc, carg,
    \* coordinator thread
    pc, cur, staged, outcome,
    \* what the client has observed of each ticket (history)
    obs, cancelReq

\* obs[t]: "none" before the ticket is minted, "rejected" by a full queue,
\* "unobserved" for a plan (its events are ignored), else "pending" until the
\* client drains the Queued event and then the outcome.

chanVars   == <<cmds, events, cmdTx, evRx>>
ctrlVars   == <<nextTicket, queued, inFlight, submitted, settled, rejected,
                live, cancelled>>
poolVars   == <<pool, owned, storeWaiting, planned, stale>>
clientVars == <<cpc, carg>>
coordVars  == <<pc, cur, staged, outcome>>
histVars   == <<obs, cancelReq>>
vars == <<chanVars, ctrlVars, poolVars, clientVars, coordVars, histVars>>

------------------------------------------------------------------------------
QueueKind    == {"plan", "fetch", "store"}
QueueOutcome == {"completed", "failed", "cancelled"}
Tickets      == 1..MaxTicket

\* Where the bytes of a fetched block are: in a T1 region, in a lower tier
\* (disk or remote), or in T0, which the fetch queue refuses.
Source == Regions \cup {"tier", "gpu"}
BlockLists(S) == UNION {[1..n -> S] : n \in 1..MaxBlocks}

\* A plan's blocks only determine the PrefetchActions of its ignored events.
Command  == [kind : {"plan"}, ticket : Tickets, blocks : {<< >>}]
            \cup [kind : {"fetch"}, ticket : Tickets, blocks : Seq(Source)]
            \cup [kind : {"store"}, ticket : Tickets, blocks : Seq(Regions)]
Shutdown == [kind |-> "shutdown", ticket |-> 0, blocks |-> << >>]

\* regions: the FetchedBlock regions whose release_after_promote is set.
Event == [type : {"queued"} \cup QueueOutcome, kind : QueueKind,
          ticket : Tickets, regions : SUBSET Regions]

Msg(type, regions) ==
    [type |-> type, kind |-> cur.kind, ticket |-> cur.ticket, regions |-> regions]

\* AtomicUsize fetch_add / fetch_sub wrap around.
Inc(f, k) == [f EXCEPT ![k] = (@ + 1) % CounterMod]
Dec_Signed(f, k) == [f EXCEPT ![k] = @ - 1]
Dec_Skipped(f, k) == f
Dec(f, k) == [f EXCEPT ![k] = (@ + CounterMod - 1) % CounterMod]

\* The ticket a client call is in the middle of.
NoTicket == [kind |-> "none", ticket |-> 0]

Init ==
    /\ cmds = << >> /\ events = << >> /\ cmdTx = TRUE /\ evRx = TRUE
    /\ nextTicket = 1
    /\ queued = [k \in QueueKind |-> 0]
    /\ inFlight = [k \in QueueKind |-> 0]
    /\ submitted = [k \in QueueKind |-> 0]
    /\ settled = [k \in QueueKind |-> [o \in QueueOutcome |-> 0]]
    /\ rejected = [k \in QueueKind |-> 0]
    /\ live = {} /\ cancelled = {}
    /\ pool = {} /\ owned = {}
    /\ storeWaiting = [t \in Tickets |-> {}]
    /\ planned = [t \in Tickets |-> {}] /\ stale = {}
    /\ cpc = "idle" /\ carg = NoTicket
    /\ pc = "recv" /\ cur = Shutdown /\ staged = {}
    /\ outcome = "completed"
    /\ obs = [t \in Tickets |-> "none"]
    /\ cancelReq = {}

------------------------------------------------------------------------------
(* Client thread: CoordinatorHandle *)

\* try_send_ticket, first half: mint the ticket and try_send the command.  A
\* full channel counts a rejection and the ticket is lost.  The coordinator
\* thread drops its receiver only after Drop began, so Disconnected cannot be
\* met here.
TrySend(kind, blocks) ==
    /\ cpc = "idle" /\ nextTicket \in Tickets
    /\ nextTicket' = nextTicket + 1
    /\ \/ /\ Len(cmds) < Capacity
          /\ cmds' = Append(cmds, [kind |-> kind, ticket |-> nextTicket,
                                   blocks |-> blocks])
          /\ cpc' = "submitting"
          /\ carg' = [kind |-> kind, ticket |-> nextTicket]
          /\ obs' = [obs EXCEPT ![nextTicket] =
                       IF kind = "plan" THEN "unobserved" ELSE "pending"]
          /\ storeWaiting' = IF kind = "store"
                             THEN [storeWaiting EXCEPT ![nextTicket] = Range(blocks)]
                             ELSE storeWaiting
          /\ planned' = IF kind = "fetch"
                        THEN [planned EXCEPT ![nextTicket] = Range(blocks) \cap Regions]
                        ELSE planned
          /\ UNCHANGED rejected
       \/ /\ Len(cmds) = Capacity
          /\ rejected' = [rejected EXCEPT ![kind] = @ + 1]
          /\ obs' = [obs EXCEPT ![nextTicket] = "rejected"]
          /\ UNCHANGED <<cmds, cpc, carg, storeWaiting, planned>>
    /\ UNCHANGED <<events, cmdTx, evRx, queued, inFlight, submitted, settled,
                   live, cancelled, pool, owned, stale, coordVars, cancelReq>>

submit_prefetch_plan == TrySend("plan", << >>)

\* A plan takes the region of a host block from what is recorded of the block.
submit_fetch ==
    \E blocks \in BlockLists(owned \cup {"tier", "gpu"}) : TrySend("fetch", blocks)

\* The spill path submits only blocks that no store is waiting on, so a region
\* that another store waits on is one that two blocks name.
submit_store ==
    \E blocks \in BlockLists(owned \ ((UNION Range(storeWaiting)) \ stale)) :
        /\ \A i, j \in DOMAIN blocks : blocks[i] = blocks[j] => i = j
        /\ TrySend("store", blocks)

\* try_send_ticket, second half: the command is already visible to the
\* coordinator thread when the counters and the live set learn of it.
on_submit ==
    /\ cpc = "submitting"
    /\ submitted' = [submitted EXCEPT ![carg.kind] = @ + 1]
    /\ queued' = Inc(queued, carg.kind)
    /\ live' = live \cup {carg.ticket}
    /\ cpc' = "idle" /\ carg' = NoTicket
    /\ UNCHANGED <<chanVars, nextTicket, inFlight, settled, rejected, cancelled,
                   poolVars, coordVars, histVars>>

\* cancel, first lock: a ticket that is not live is refused.  The scheduler
\* cancels a ticket at most once (clear_fetch_waiting_for_slot forgets it).
cancel(t) ==
    /\ cpc = "idle" /\ t \notin cancelReq
    /\ obs[t] \in {"pending", "queued", "unobserved"}
    /\ cancelReq' = cancelReq \cup {t}
    /\ IF t \in live
       THEN cpc' = "cancelling" /\ carg' = [kind |-> "none", ticket |-> t]
       ELSE UNCHANGED clientVars
    /\ UNCHANGED <<chanVars, ctrlVars, poolVars, coordVars, obs>>

\* cancel, second lock: the live lock was dropped in between.
cancel_insert ==
    /\ cpc = "cancelling"
    /\ cancelled' = cancelled \cup {carg.ticket}
    /\ cpc' = "idle" /\ carg' = NoTicket
    /\ UNCHANGED <<chanVars, nextTicket, queued, inFlight, submitted, settled,
                   rejected, live, poolVars, coordVars, histVars>>

\* The client's records stop naming the regions S, but for those that another
\* block names as well.
Forget(S) == \E other \in SUBSET (S \cap stale) : owned' = owned \ (S \ other)

\* The regions that the client's blocks, waiting stores and waiting plans name.
Named == owned \cup (UNION Range(storeWaiting)) \cup (UNION Range(planned))

\* release_host_region for all of S; nothing asks who still names a region.
Release(S) == pool' = pool \ S /\ stale' = stale \cup (S \cap Named')

\* demote_block_to_host reserves a region for a T0 block.
ReserveRegion(r) ==
    /\ cpc = "idle" /\ r \notin pool
    /\ pool' = pool \cup {r} /\ owned' = owned \cup {r}
    /\ UNCHANGED <<chanVars, ctrlVars, storeWaiting, planned, stale, clientVars, coordVars,
                   histVars>>

\* promote_fetched_prefix, called directly for blocks in T1: it copies from a
\* region that must be live, and releases it whatever store or fetch waits on it.
ReleaseRegion(r) ==
    /\ cpc = "idle" /\ r \in owned \cap pool
    /\ UNCHANGED <<chanVars, ctrlVars, storeWaiting, planned, clientVars, coordVars, histVars>>
    /\ Forget({r}) /\ Release({r})

\* Store* and Fetch* outcomes, as opposed to the *Queued announcements.
Terminal_Any(e) == TRUE
Terminal(e) == e.type \in QueueOutcome

\* The end of a store releases the regions its waiters hold.  The location of a
\* stored block changes (mark_block_stored), that of the others does not
\* (mark_block_store_failed).
EndStore(e) ==
    /\ storeWaiting' = [storeWaiting EXCEPT ![e.ticket] = {}] /\ UNCHANGED planned
    /\ IF e.type \in {"failed", "cancelled"} THEN UNCHANGED owned
                                             ELSE Forget(storeWaiting[e.ticket])
    /\ Release(storeWaiting[e.ticket])

\* The end of a fetch: the waiters' plan is promoted and the regions it named
\* are released with the temporary ones; or a prefetch makes the regions of
\* blocks that are still cached their T1 home
\* (materialize_prefetched_host_blocks) and the other temporary ones are
\* released, all of them when nobody waits or the promotion fails.
EndFetch(e) ==
    LET named == planned[e.ticket] IN
    /\ planned' = [planned EXCEPT ![e.ticket] = {}] /\ UNCHANGED storeWaiting
    /\ \/ /\ e.type /= "completed"
          /\ UNCHANGED <<pool, owned, stale>>
       \/ /\ e.type = "completed" /\ e.regions \cup named \subseteq pool
          /\ Forget(named) /\ Release(e.regions \cup named)
       \/ /\ e.type = "completed"
          /\ \E homes \in SUBSET e.regions : \E again \in SUBSET (named \cap stale) :
                /\ owned' = owned \cup homes \cup again
                /\ Release(e.regions \ homes)

\* handle_coordinator_event, the part that is about regions (Plan* events are
\* listened to and ignored).
DrainEvent ==
    /\ cpc = "idle" /\ events /= << >>
    /\ LET e == Head(events) IN
       /\ events' = Tail(events)
       /\ obs' = IF e.kind = "plan" THEN obs ELSE [obs EXCEPT ![e.ticket] = e.type]
       /\ \/ (~Terminal(e) \/ e.kind = "plan") /\ UNCHANGED poolVars
          \/ Terminal(e) /\ e.kind = "store" /\ EndStore(e)
          \/ Terminal(e) /\ e.kind = "fetch" /\ EndFetch(e)
    /\ UNCHANGED <<cmds, cmdTx, evRx, ctrlVars, clientVars, coordVars, cancelReq>>

\* Drop for Scheduler: a shutdown hint that a full channel loses, then the
\* handle, then the event receiver with whatever it still holds, then join.
try_send_shutdown ==
    /\ cpc = "idle"
    /\ cmds' = IF Len(cmds) < Capacity THEN Append(cmds, Shutdown) ELSE cmds
    /\ cpc' = "dropHandle"
    /\ UNCHANGED <<events, cmdTx, evRx, ctrlVars, poolVars, carg, coordVars, histVars>>

DropHandle ==
    /\ cpc = "dropHandle"
    /\ cmdTx' = FALSE /\ cpc' = "dropEvents"
    /\ UNCHANGED <<cmds, events, evRx, ctrlVars, poolVars, carg, coordVars, histVars>>

DropEvents ==
    /\ cpc = "dropEvents"
    /\ evRx' = FALSE /\ events' = << >> /\ cpc' = "join"
    /\ UNCHANGED <<cmds, cmdTx, ctrlVars, poolVars, carg, coordVars, histVars>>

Join ==
    /\ cpc = "join" /\ pc \in {"exited", "errored"}
    /\ cpc' = "joined"
    /\ UNCHANGED <<chanVars, ctrlVars, poolVars, carg, coordVars, histVars>>

------------------------------------------------------------------------------
(* Coordinator thread *)

\* emit_required blocks while the channel is full and fails once the receiver
\* is gone; the error leaves run_once without on_finish.
emit_required_IgnoresDisconnect(e, next) ==
    /\ Len(events) < Capacity /\ evRx
    /\ events' = Append(events, e) /\ pc' = next
emit_required(e, next) ==
    \/ /\ evRx /\ Len(events) < Capacity
       /\ events' = Append(events, e)
       /\ pc' = next
    \/ /\ ~evRx
       /\ pc' = "errored"
       /\ UNCHANGED events

\* emit_observability never waits: a full channel loses the event.
emit_observability(e, next) ==
    /\ events' = IF evRx /\ Len(events) < Capacity THEN Append(events, e) ELSE events
    /\ pc' = next

Emit_Lossy(e, next) == emit_observability(e, next)
Emit(e, next) == IF cur.kind = "plan" THEN emit_observability(e, next)
                                      ELSE emit_required(e, next)

\* run_once: take the next command, or leave on Shutdown or on a disconnected
\* and empty channel.
run_once ==
    /\ pc = "recv"
    /\ \/ /\ cmds /= << >>
          /\ cmds' = Tail(cmds)
          /\ IF Head(cmds) = Shutdown
             THEN pc' = "exited" /\ UNCHANGED cur
             ELSE pc' = "start" /\ cur' = Head(cmds)
       \/ /\ cmds = << >> /\ ~cmdTx
          /\ pc' = "exited"
          /\ UNCHANGED <<cmds, cur>>
    /\ UNCHANGED <<events, cmdTx, evRx, ctrlVars, poolVars, clientVars, staged,
                   outcome, histVars>>

on_start ==
    /\ pc = "start"
    /\ queued' = Dec(queued, cur.kind)
    /\ inFlight' = Inc(inFlight, cur.kind)
    /\ pc' = "queued"
    /\ UNCHANGED <<chanVars, nextTicket, submitted, settled, rejected, live, cancelled,
                   poolVars, clientVars, cur, staged, outcome, histVars>>

\* Leave the loop early: AllocatedRegions::release_now, then report_failure.
FailBlock_KeepsRegions(class) ==
    /\ staged' = {} /\ UNCHANGED pool
    /\ pc' = "fail" /\ outcome' = class
    /\ cur' = [cur EXCEPT !.blocks = << >>]
FailBlock(class) ==
    /\ pool' = pool \ staged /\ staged' = {}
    /\ pc' = "fail" /\ outcome' = class
    /\ cur' = [cur EXCEPT !.blocks = << >>]

\* cur.blocks holds the blocks the loop has still to visit.
NextBlock ==
    /\ cur' = [cur EXCEPT !.blocks = Tail(@)]
    /\ pc' = IF Tail(cur.blocks) = << >> THEN "done" ELSE "block"
    /\ UNCHANGED outcome

\* handle_{plan,store,fetch}: the *Queued event ...
EmitQueued ==
    /\ pc = "queued"
    /\ Emit(Msg("queued", {}), "check")
    /\ UNCHANGED <<cmds, cmdTx, evRx, ctrlVars, poolVars, clientVars, cur, staged,
                   outcome, histVars>>

\* ... the cancellation check before any block ...
CheckCancelled ==
    /\ pc = "check"
    /\ \/ /\ cur.ticket \in cancelled
          /\ FailBlock("cancelled")
       \/ /\ cur.ticket \notin cancelled
          /\ pc' = IF cur.kind = "plan" THEN "done" ELSE "block"
          /\ UNCHANGED <<pool, cur, staged, outcome>>
    /\ UNCHANGED <<chanVars, ctrlVars, owned, storeWaiting, planned, stale, clientVars,
                   histVars>>

\* One turn of handle_store's loop.  The failure stands for every early
\* return after the cancellation check: an unreadable region, a backend that
\* is not configured, a rejected or unfinished write.
StoreBlock ==
    /\ pc = "block" /\ cur.kind = "store"
    /\ \/ cur.ticket \in cancelled /\ FailBlock("cancelled")
       \/ cur.ticket \notin cancelled /\ FailBlock("failed")
       \/ /\ cur.ticket \notin cancelled /\ Head(cur.blocks) \in pool
          /\ NextBlock
          /\ UNCHANGED <<pool, staged>>
    /\ UNCHANGED <<chanVars, ctrlVars, owned, storeWaiting, planned, stale, clientVars,
                   histVars>>

\* One turn of handle_fetch's loop: a T1 block is passed through, the bytes of
\* a lower tier are staged into a fresh region (or the read fails, or the pool
\* is exhausted), a T0 block is an error.
FetchBlock ==
    /\ pc = "block" /\ cur.kind = "fetch"
    /\ \/ cur.ticket \in cancelled /\ FailBlock("cancelled")
       \/ /\ cur.ticket \notin cancelled /\ Head(cur.blocks) \in Regions
          /\ NextBlock
          /\ UNCHANGED <<pool, staged>>
       \/ /\ cur.ticket \notin cancelled /\ Head(cur.blocks) = "tier"
          /\ \E r \in Regions \ pool : /\ pool' = pool \cup {r}
                                        /\ staged' = staged \cup {r}
          /\ NextBlock
       \/ cur.ticket \notin cancelled /\ Head(cur.blocks) \notin Regions /\ FailBlock("failed")
    /\ UNCHANGED <<chanVars, ctrlVars, owned, storeWaiting, planned, stale, clientVars,
                   histVars>>

report_failure ==
    /\ pc = "fail"
    /\ Emit(Msg(outcome, {}), "finish")
    /\ UNCHANGED <<cmds, cmdTx, evRx, ctrlVars, poolVars, clientVars, cur, staged,
                   outcome, histVars>>

\* The regions are committed before the send: if it fails nobody frees them.
EmitCompleted ==
    /\ pc = "done"
    /\ outcome' = "completed"
    /\ Emit(Msg("completed", staged), "finish")
    /\ staged' = {}
    /\ UNCHANGED <<cmds, cmdTx, evRx, ctrlVars, poolVars, clientVars, cur, histVars>>

on_finish ==
    /\ pc = "finish"
    /\ inFlight' = Dec(inFlight, cur.kind)
    /\ settled' = [settled EXCEPT ![cur.kind][outcome] = @ + 1]
    /\ live' = live \ {cur.ticket}
    /\ cancelled' = cancelled \ {cur.ticket}
    /\ pc' = "recv" /\ cur' = Shutdown /\ outcome' = "completed"
    /\ UNCHANGED <<chanVars, nextTicket, queued, submitted, rejected, poolVars,
                   clientVars, staged, histVars>>

------------------------------------------------------------------------------
Submit == submit_prefetch_plan \/ submit_fetch \/ submit_store

Client ==
    \/ Submit \/ on_submit
    \/ (\E t \in Tickets : cancel(t)) \/ cancel_insert
    \/ (\E r \in Regions : ReserveRegion(r) \/ ReleaseRegion(r))
    \/ DrainEvent
    \/ try_send_shutdown \/ DropHandle \/ DropEvents \/ Join

CoordinatorThread ==
    \/ run_once \/ on_start \/ EmitQueued \/ CheckCancelled
    \/ StoreBlock \/ FetchBlock \/ report_failure \/ EmitCompleted \/ on_finish

\* Both threads are joined: the program has ended.
Ended == cpc = "joined" /\ UNCHANGED vars

Next == Client \/ CoordinatorThread \/ Ended

Spec == Init /\ [][Next]_vars

\* The coordinator thread never stops by itself, a client call that began
\* returns, and every turn of the scheduler loop drains the event channel
\* (scheduler_loop.rs; when it blocks, it selects on that channel).
Fairness ==
    /\ WF_vars(CoordinatorThread)
    /\ WF_vars(on_submit) /\ WF_vars(cancel_insert)
    /\ SF_vars(DrainEvent)
    /\ WF_vars(DropHandle \/ DropEvents \/ Join)

FairSpec == Spec /\ Fairness

------------------------------------------------------------------------------
Dropping == cpc \in {"dropHandle", "dropEvents", "join", "joined"}

ChannelTypes ==
    /\ cmds \in Seq(Command \cup {Shutdown}) /\ Len(cmds) <= Capacity
    /\ events \in Seq(Event) /\ Len(events) <= Capacity
    /\ cmdTx \in BOOLEAN /\ evRx \in BOOLEAN

ControlTypes ==
    /\ nextTicket \in 1..MaxTicket + 1
    /\ queued \in [QueueKind -> 0..CounterMod - 1]
    /\ inFlight \in [QueueKind -> 0..CounterMod - 1]
    /\ submitted \in [QueueKind -> Nat] /\ rejected \in [QueueKind -> Nat]
    /\ settled \in [QueueKind -> [QueueOutcome -> Nat]]
    /\ live \subseteq Tickets /\ cancelled \subseteq Tickets

PoolTypes ==
    /\ pool \subseteq Regions /\ owned \subseteq Regions
    /\ storeWaiting \in [Tickets -> SUBSET Regions]
    /\ planned \in [Tickets -> SUBSET Regions] /\ stale \subseteq Regions

ClientTypes ==
    /\ cpc \in {"idle", "submitting", "cancelling", "dropHandle", "dropEvents",
                "join", "joined"}
    /\ carg \in [kind : QueueKind \cup {"none"}, ticket : Tickets \cup {0}]

ThreadTypes ==
    /\ pc \in {"recv", "start", "queued", "check", "block", "fail", "done",
               "finish", "exited", "errored"}
    /\ cur \in Command \cup {Shutdown}
    /\ staged \subseteq Regions
    /\ outcome \in QueueOutcome

HistoryTypes ==
    /\ obs \in [Tickets -> {"none", "rejected", "unobserved", "pending", "queued"}
                           \cup QueueOutcome]
    /\ cancelReq \subseteq Tickets

\* The counters stay in the range of an AtomicUsize, the channels within
\* their capacity, and each thread holds a command its handler can run.
TypeOK ==
    /\ ChannelTypes /\ ControlTypes /\ PoolTypes
    /\ ClientTypes /\ ThreadTypes /\ HistoryTypes

------------------------------------------------------------------------------
(* Region ownership *)

RegionsOf(es) == UNION {es[i].regions : i \in DOMAIN es}
EventRegions  == RegionsOf(events)

\* Every live region has exactly one holder.
RegionPartition ==
    /\ pool \ stale = (owned \cup staged \cup EventRegions) \ stale
    /\ owned \cap staged \subseteq stale
    /\ (owned \cup staged) \cap EventRegions \subseteq stale
    /\ \A i, j \in DOMAIN events :
           i /= j => events[i].regions \cap events[j].regions \subseteq stale

\* The regions that waiting stores and fetches name are those of the client's
\* blocks, and no two stores wait for the release of one region.
RegionClaims ==
    /\ \A t \in Tickets : storeWaiting[t] \cup planned[t] \subseteq owned \cup stale
    /\ \A t, u \in Tickets : t /= u => storeWaiting[t] \cap storeWaiting[u] \subseteq stale

\* No region of the pool is lost or held twice: while the client listens, the
\* live regions are exactly those of its blocks, those of the fetch under way
\* (AllocatedRegions) and those in the FetchCompleted events it has not
\* drained, and these three never overlap.  Excepted are only the regions that
\* were once released while a waiting store, a waiting plan or the block of a
\* failed store still named them.
RegionOwnership == evRx => RegionPartition /\ RegionClaims

\* A store that is queued or running finds the bytes it was given: its regions
\* stay reserved, and the client's to release, until the client has drained the
\* ticket's outcome.  Excepted as above: nothing but such a release takes the
\* source of a store away.
StoreSourceLive ==
    evRx => \A c \in Range(cmds) \cup {cur} :
               c.kind = "store" =>
                   Range(c.blocks) \ stale \subseteq pool \cap storeWaiting[c.ticket]

\* "The scheduler's StoreCompleted / StoreFailed handlers own host-pool region
\* release" (coordinator.rs:100): until one of them runs, the regions of a store
\* are reserved.
StoreOwnsRelease == evRx => \A t \in Tickets : storeWaiting[t] \subseteq pool

------------------------------------------------------------------------------
(* Queue counters *)

InChannel(k) == Cardinality({i \in DOMAIN cmds : cmds[i].kind = k})
Popped(k)    == IF pc = "start" /\ cur.kind = k THEN 1 ELSE 0
Running(k)   == IF pc \notin {"recv", "start", "exited"} /\ cur.kind = k THEN 1 ELSE 0
Unrecorded(k) == IF cpc = "submitting" /\ carg.kind = k THEN 1 ELSE 0

Settled(k) == settled[k]["completed"] + settled[k]["failed"] + settled[k]["cancelled"]

\* The counters account for every command of each kind although on_submit may
\* run after on_start and even after on_finish: queued may wrap below zero in
\* that window, and is exact again as soon as the submit call returns.
QueueAccounting ==
    \A k \in QueueKind :
        /\ (queued[k] + Unrecorded(k)) % CounterMod = InChannel(k) + Popped(k)
        /\ inFlight[k] = Running(k)
        /\ submitted[k] + Unrecorded(k) =
               InChannel(k) + Popped(k) + Running(k) + Settled(k)

\* CoordinatorQueueStats::active, as the client reads it between two calls.
Active_InFlightOnly == inFlight["plan"] + inFlight["fetch"] + inFlight["store"]
Active == queued["plan"] + queued["fetch"] + queued["store"]
          + inFlight["plan"] + inFlight["fetch"] + inFlight["store"]

\* budget.rs: saturating, and one slot of the queue is kept back.
coordinator_submit_headroom ==
    IF Active + 1 < Capacity THEN Capacity - (Active + 1) ELSE 0

\* The headroom the spill loop computes once and counts down is real although
\* the coordinator keeps running: the channel has that many free places, so
\* none of those submits is rejected.
SubmitHeadroom ==
    cpc = "idle" => Len(cmds) + coordinator_submit_headroom <= Capacity

------------------------------------------------------------------------------
(* The client's view *)

\* The coordinator implements the ticket lifecycle: FIFO channels, the two
\* racing threads and lost plan events never show a client two outcomes, an
\* outcome before its announcement or a cancellation nobody asked for.
Lifecycle == INSTANCE TicketLifecycle
                 WITH status <- obs, asked <- cancelReq, open <- ~Dropping

ImplementsLifecycle == Lifecycle!Spec

\* Every accepted fetch or store settles unless the client shuts down: a full
\* event channel holds the coordinator back but loses nothing
\* (emit_required), a waiting request never hangs.
EveryTicketSettles ==
    \A t \in Tickets :
        obs[t] = "pending" ~> (obs[t] \in QueueOutcome \/ Dropping)

\* Drop returns: whatever the coordinator is blocked on when the scheduler
\* goes away, full channels included, its thread ends and is joined.
DropJoins == Dropping ~> cpc = "joined"
==============================================================================
