------------------------------ MODULE EnginePool ------------------------------
(***************************************************************************)
(* The pool of loaded engines (infer/src/server_engine/pool.rs).  One      *)
(* thread at a time holds the pool (`&mut self`) and checks engines out,   *)
(* unloads idle ones and evicts the least recently used to stay in the     *)
(* memory budget.  The threads that hold leases drop them without the      *)
(* pool: Drop writes last_used, then lowers active_requests, and only then *)
(* lets go of its share of the engine.                                     *)
(*                                                                         *)
(* D_Word is a faulty variant of the definition D that follows it.         *)
(***************************************************************************)
EXTENDS Integers, Sequences, FiniteSets

CONSTANTS
    Models,       \* configured text-generation models
    EstimateOf,   \* model -> memory_estimate_bytes, zero when it has none
    Pinned,       \* models with `pinned`
    WithTtl,      \* models with a ttl
    Budget,       \* memory_budget_bytes
    Leases,       \* handles the callers may hold at once
    MaxLoads      \* bound: engines loaded in a behaviour

ASSUME PoolAssumption ==
    /\ EstimateOf \in [Models -> Nat] /\ Budget \in Nat /\ MaxLoads \in Nat
    /\ Pinned \subseteq Models /\ WithTtl \subseteq Models
    /\ IsFiniteSet(Models) /\ IsFiniteSet(Leases)

VARIABLES
    entries,          \* model -> its loaded engine, 0 for none
    loaded_estimate,  \* loaded_estimate_bytes
    modelOf,          \* the model of each engine ever loaded, oldest first
    active_requests,  \* engine -> active_requests of its entry
    last_used,        \* engine -> its place in the order of last_used, oldest first
    lease,            \* lease -> where its holder is, and its engine
    call              \* the checkout in progress

poolVars == <<entries, loaded_estimate, modelOf, active_requests, last_used, lease, call>>

Engines == DOMAIN modelOf
Idle == [at |-> "idle"]
Free == [at |-> "free"]
Loaded == {m \in Models : entries[m] # 0}
\* The sum of the estimates of ms, counted byte by byte.
Total(ms) == Cardinality(UNION {{m} \X (1..EstimateOf[m]) : m \in ms})
Monus(a, b) == IF a > b THEN a - b ELSE 0

PoolInit ==
    /\ entries = [m \in Models |-> 0] /\ loaded_estimate = 0
    /\ modelOf = <<>> /\ active_requests = <<>> /\ last_used = <<>>
    /\ lease = [l \in Leases |-> Free] /\ call = Idle

\* The lease's clock reading is the latest of all.
Touch(e) == last_used' = [x \in Engines |->
    CASE x = e -> Len(modelOf)
      [] last_used[x] > last_used[e] -> last_used[x] - 1
      [] OTHER -> last_used[x]]

Evictable_Busy(m) == m \notin Pinned
Evictable(m) == active_requests[entries[m]] = 0 /\ m \notin Pinned

\* The entries ms leave the pool; a lease may still hold their engines.
Unload_KeepEstimate(ms) ==
    /\ entries' = [m \in Models |-> IF m \in ms THEN 0 ELSE entries[m]]
    /\ UNCHANGED loaded_estimate
Unload(ms) ==
    /\ entries' = [m \in Models |-> IF m \in ms THEN 0 ELSE entries[m]]
    /\ loaded_estimate' = Monus(loaded_estimate, Total(ms))

-----------------------------------------------------------------------------
\* checkout_with_loader

\* The model is loaded: the entry is counted and shared.
Share(m, l) ==
    /\ call = Idle /\ lease[l] = Free /\ entries[m] # 0
    /\ active_requests' = [active_requests EXCEPT ![entries[m]] = @ + 1]
    /\ lease' = [lease EXCEPT ![l] = [at |-> "held", engine |-> entries[m]]]
    /\ UNCHANGED <<entries, loaded_estimate, modelOf, last_used, call>>

\* It is not: eviction_plan looks for room.
Plan(m, l) ==
    /\ call = Idle /\ lease[l] = Free /\ entries[m] = 0
    /\ Len(modelOf) < MaxLoads /\ EstimateOf[m] <= Budget
    /\ call' = [at |-> IF loaded_estimate + EstimateOf[m] <= Budget THEN "load" ELSE "scan",
                model |-> m, lease |-> l, unread |-> Loaded, found |-> {}]
    /\ UNCHANGED <<entries, loaded_estimate, modelOf, active_requests, last_used, lease>>

\* One turn of the filter over the entries.
ReadEntry(m) ==
    /\ call.at = "scan" /\ m \in call.unread
    /\ call' = [call EXCEPT !.unread = @ \ {m},
                            !.found = IF Evictable(m) THEN @ \cup {m} ELSE @]
    /\ UNCHANGED <<entries, loaded_estimate, modelOf, active_requests, last_used, lease>>

Required == loaded_estimate + EstimateOf[call.model] - Budget

\* Candidates by last_used, cut after the first that frees enough.
Victims_NewestFirst(ms, needed) ==
    LET UpTo(m) == {n \in ms : last_used[entries[n]] >= last_used[entries[m]]}
    IN  {UpTo(m) : m \in {m \in ms : Total(UpTo(m)) >= needed /\ Total(UpTo(m) \ {m}) < needed}}
Victims(ms, needed) ==
    LET UpTo(m) == {n \in ms : last_used[entries[n]] <= last_used[entries[m]]}
    IN  {UpTo(m) : m \in {m \in ms : Total(UpTo(m)) >= needed /\ Total(UpTo(m) \ {m}) < needed}}

apply_evictions ==
    /\ call.at = "scan" /\ call.unread = {}
    /\ \E ms \in Victims(call.found, Required) :
          /\ Unload(ms)
          /\ call' = [call EXCEPT !.at = "load"]
    /\ UNCHANGED <<modelOf, active_requests, last_used, lease>>

PlanFails ==
    /\ call.at = "scan" /\ call.unread = {} /\ Victims(call.found, Required) = {}
    /\ call' = Idle
    /\ UNCHANGED <<entries, loaded_estimate, modelOf, active_requests, last_used, lease>>

LoaderReturns ==
    LET e == Len(modelOf) + 1 IN
    /\ call.at = "load"
    /\ loaded_estimate' = loaded_estimate + EstimateOf[call.model]
    /\ entries' = [entries EXCEPT ![call.model] = e]
    /\ modelOf' = Append(modelOf, call.model)
    /\ active_requests' = Append(active_requests, 1)
    /\ last_used' = Append(last_used, e)
    /\ lease' = [lease EXCEPT ![call.lease] = [at |-> "held", engine |-> e]]
    /\ call' = Idle

LoaderFails ==
    /\ call.at = "load" /\ call' = Idle
    /\ UNCHANGED <<entries, loaded_estimate, modelOf, active_requests, last_used, lease>>

-----------------------------------------------------------------------------
unload_idle(m) ==
    /\ call = Idle /\ entries[m] # 0 /\ Evictable(m)
    /\ Unload({m})
    /\ UNCHANGED <<modelOf, active_requests, last_used, lease, call>>

\* Which of the idle models with a ttl have outlived it is the clock's choice.
unload_expired ==
    /\ call = Idle
    /\ \E ms \in SUBSET {m \in Loaded \cap WithTtl : Evictable(m)} : ms # {} /\ Unload(ms)
    /\ UNCHANGED <<modelOf, active_requests, last_used, lease, call>>

\* Drop for EngineLease, in its caller's thread.
DropTouches(l) ==
    /\ lease[l].at = "held" /\ Touch(lease[l].engine)
    /\ lease' = [lease EXCEPT ![l].at = "touched"]
    /\ UNCHANGED <<entries, loaded_estimate, modelOf, active_requests, call>>

DropUncounts(l) ==
    /\ lease[l].at = "touched"
    /\ active_requests' = [active_requests EXCEPT ![lease[l].engine] = @ - 1]
    /\ lease' = [lease EXCEPT ![l].at = "uncounted"]
    /\ UNCHANGED <<entries, loaded_estimate, modelOf, last_used, call>>

DropReleases(l) ==
    /\ lease[l].at = "uncounted" /\ lease' = [lease EXCEPT ![l] = Free]
    /\ UNCHANGED <<entries, loaded_estimate, modelOf, active_requests, last_used, call>>

PoolNext ==
    \/ \E m \in Models : \/ \E l \in Leases : Share(m, l) \/ Plan(m, l)
                         \/ ReadEntry(m) \/ unload_idle(m)
    \/ apply_evictions \/ PlanFails \/ LoaderReturns \/ LoaderFails \/ unload_expired
    \/ \E l \in Leases : DropTouches(l) \/ DropUncounts(l) \/ DropReleases(l)

PoolSpec == PoolInit /\ [][PoolNext]_poolVars

-----------------------------------------------------------------------------
Holding(e) == {l \in Leases : lease[l].at \in {"held", "touched"} /\ lease[l].engine = e}

\* A caller that still uses its lease (it has not lowered active_requests)
\* uses the engine the pool would hand to the next caller, and the pool counts
\* it: neither the eviction plan, whose candidates were read one by one while
\* leases were dropped, nor unloading takes an engine in use (pool.rs:378).
LeasedStaysLoaded ==
    \A e \in Engines : /\ active_requests[e] = Cardinality(Holding(e))
                       /\ Holding(e) # {} => entries[modelOf[e]] = e

\* loaded_estimate_bytes is the sum over the loaded models and never above the
\* budget, although it is changed by checkouts, evictions, unloading and
\* loaders that fail after the evictions (pool.rs:296).
EstimateExact == loaded_estimate = Total(Loaded) /\ loaded_estimate <= Budget

\* Of two engines idle when the plan read them, the one used less recently goes
\* first: a victim is never more recently used than a candidate that stays.
LeastRecentFirst ==
    [][\A m, n \in Models :
          (/\ call.at = "scan" /\ call'.at = "load" /\ {m, n} \subseteq call.found
           /\ entries'[m] = 0 /\ entries'[n] # 0) =>
          last_used[entries[m]] < last_used[entries[n]]]_poolVars
==============================================================================
