---------------------------- MODULE ServingProofs -----------------------------
(***************************************************************************)
(* Proofs about the components above the scheduler.  EnginePool, for every *)
(* set of models and leases, every estimate and every budget: an engine in *)
(* use is never unloaded, the memory estimate is exact and within the      *)
(* budget, and eviction goes by last use.  DistributedGroup, for every     *)
(* number of clients, ranks, requests and tokens, in both modes.           *)
(*                                                                         *)
(* The estimate of a set of models is the cardinality of a disjoint union  *)
(* (Total), so that the theorems on finite sets stand in for induction on  *)
(* sums.                                                                   *)
(***************************************************************************)
EXTENDS EnginePool, DistributedGroup, FiniteSetTheorems, SequenceTheorems, TLAPS

------------------------------------------------------------------------------
(* The engine pool *)

Holders == [at : {"held", "touched", "uncounted"}, engine : Nat]
Checkouts == [at : {"scan", "load"}, model : Models, lease : Leases,
          unread : SUBSET Models, found : SUBSET Models]

\* The variables have their types; leases and entries name engines that were
\* loaded, and an entry names an engine of its own model.
PoolTypeOK ==
    /\ entries \in [Models -> Nat] /\ loaded_estimate \in Nat
    /\ modelOf \in Seq(Models)
    /\ active_requests \in [Engines -> Nat] /\ last_used \in [Engines -> Nat]
    /\ lease \in [Leases -> {Free} \cup Holders]
    /\ \A l \in Leases : lease[l] # Free => lease[l].engine \in Engines
    /\ call \in {Idle} \cup Checkouts
    /\ \A m \in Loaded : entries[m] \in Engines /\ modelOf[entries[m]] = m

\* A checkout in progress: its model is not loaded and its lease not taken.
\* What the plan has read as idle is still loaded and still idle, since only
\* the pool's own thread counts a new lease.
CallInv ==
    call # Idle =>
        /\ lease[call.lease] = Free /\ entries[call.model] = 0
        /\ EstimateOf[call.model] <= Budget
        /\ call.at = "scan" =>
              /\ loaded_estimate + EstimateOf[call.model] > Budget
              /\ call.unread \cup call.found \subseteq Loaded
              /\ \A m \in call.found : active_requests[entries[m]] = 0
        /\ call.at = "load" => loaded_estimate + EstimateOf[call.model] <= Budget

\* The inductive invariant.
PoolInv == PoolTypeOK /\ CallInv /\ LeasedStaysLoaded /\ EstimateExact

------------------------------------------------------------------------------
(* Sums of estimates *)

Bytes(ms) == UNION {{m} \X (1..EstimateOf[m]) : m \in ms}

\* Membership in the disjoint union behind Total.
LEMMA BytesMember ==
    ASSUME NEW ms, NEW x
    PROVE  x \in Bytes(ms) <=> \E m \in ms : x \in {m} \X (1..EstimateOf[m])
BY DEF Bytes

\* Total counts it.
LEMMA TotalIsCardinality ==
    ASSUME NEW ms
    PROVE  Total(ms) = Cardinality(Bytes(ms))
BY DEF Total, Bytes

\* The union behind Total is finite, so cardinalities of such sets add up.
LEMMA BytesFinite ==
    ASSUME NEW ms \in SUBSET Models
    PROVE  IsFiniteSet(Bytes(ms))
<1> DEFINE T == {{m} \X (1..EstimateOf[m]) : m \in ms}
           f == [m \in ms |-> {m} \X (1..EstimateOf[m])]
<1>1. IsFiniteSet(ms)
  BY PoolAssumption, FS_Subset
<1>2. f \in Surjection(ms, T)
  BY DEF Surjection
<1>3. IsFiniteSet(T)
  <2> HIDE DEF T, f
  <2> QED BY <1>1, <1>2, FS_Surjection
<1>4. \A X \in T : IsFiniteSet(X)
  <2> SUFFICES ASSUME NEW m \in ms PROVE IsFiniteSet({m} \X (1..EstimateOf[m]))
    OBVIOUS
  <2>1. IsFiniteSet({m})
    BY FS_Singleton
  <2>2. EstimateOf[m] \in Int
    BY PoolAssumption
  <2>3. IsFiniteSet(1..EstimateOf[m])
    BY <2>2, FS_Interval
  <2> QED BY <2>1, <2>3, FS_Product
<1> QED
  <2>1. Bytes(ms) = UNION T
    BY DEF Bytes
  <2> HIDE DEF T
  <2> QED BY <1>3, <1>4, <2>1, FS_UNION

\* The sum over a set of models is a natural number.
LEMMA TotalType ==
    ASSUME NEW ms \in SUBSET Models
    PROVE  Total(ms) \in Nat
BY BytesFinite, FS_CardinalityType, TotalIsCardinality

\* The sum over two disjoint sets of models is the sum of the sums.
LEMMA TotalUnion ==
    ASSUME NEW ms \in SUBSET Models, NEW ns \in SUBSET Models, ms \cap ns = {}
    PROVE  Total(ms \cup ns) = Total(ms) + Total(ns)
<1>1. Bytes(ms \cup ns) = Bytes(ms) \cup Bytes(ns)
  <2> SUFFICES ASSUME NEW x
               PROVE  x \in Bytes(ms \cup ns) <=> x \in Bytes(ms) \/ x \in Bytes(ns)
    OBVIOUS
  <2> QED BY BytesMember
<1>2. Bytes(ms) \cap Bytes(ns) = {}
  <2> SUFFICES ASSUME NEW x, x \in Bytes(ms), x \in Bytes(ns)
               PROVE  FALSE
    OBVIOUS
  <2>1. PICK m \in ms : x \in {m} \X (1..EstimateOf[m])
    BY BytesMember
  <2>2. PICK n \in ns : x \in {n} \X (1..EstimateOf[n])
    BY BytesMember
  <2>3. x[1] = m /\ x[1] = n
    BY <2>1, <2>2
  <2> QED BY <2>3
<1>3. Cardinality(Bytes(ms) \cap Bytes(ns)) = 0
  BY <1>2, FS_EmptySet
<1>4. IsFiniteSet(Bytes(ms)) /\ IsFiniteSet(Bytes(ns))
  BY BytesFinite
<1>5. Cardinality(Bytes(ms)) \in Nat /\ Cardinality(Bytes(ns)) \in Nat
  BY <1>4, FS_CardinalityType
<1>6. Cardinality(Bytes(ms) \cup Bytes(ns))
        = Cardinality(Bytes(ms)) + Cardinality(Bytes(ns)) - Cardinality(Bytes(ms) \cap Bytes(ns))
  BY <1>4, FS_Union
<1>7. Cardinality(Bytes(ms \cup ns)) = Cardinality(Bytes(ms) \cup Bytes(ns))
  BY <1>1, Zenon
<1>8. Cardinality(Bytes(ms \cup ns)) = Cardinality(Bytes(ms)) + Cardinality(Bytes(ns))
  BY <1>3, <1>5, <1>6, <1>7
<1> QED BY <1>8, TotalIsCardinality

\* Taking a subset away takes its sum away.
LEMMA TotalDifference ==
    ASSUME NEW ms \in SUBSET Models, NEW ns \in SUBSET ms
    PROVE  Total(ms \ ns) = Total(ms) - Total(ns)
<1>1. Total((ms \ ns) \cup ns) = Total(ms \ ns) + Total(ns)
  BY TotalUnion
<1>2. Total((ms \ ns) \cup ns) = Total(ms)
  <2>1. (ms \ ns) \cup ns = ms
    OBVIOUS
  <2> QED BY <2>1, Zenon
<1>3. Total(ms \ ns) \in Nat /\ Total(ns) \in Nat /\ Total(ms) \in Nat
  BY TotalType
<1> QED BY <1>1, <1>2, <1>3

\* The sum over one model is its estimate.
LEMMA TotalOne ==
    ASSUME NEW m \in Models
    PROVE  Total({m}) = EstimateOf[m]
<1> DEFINE k == EstimateOf[m]
<1>1. k \in Nat
  BY PoolAssumption
<1>2. Bytes({m}) = {m} \X (1..k)
  BY DEF Bytes
<1>3. IsFiniteSet({m}) /\ Cardinality({m}) = 1
  BY FS_Singleton
<1>4. IsFiniteSet(1..k) /\ Cardinality(1..k) = k
  BY <1>1, FS_Interval
<1>5. Cardinality({m} \X (1..k)) = Cardinality({m}) * Cardinality(1..k)
  <2> HIDE DEF k
  <2> QED BY <1>3, <1>4, FS_Product
<1>6. Cardinality(Bytes({m})) = Cardinality({m} \X (1..k))
  BY <1>2, Zenon
<1>7. Cardinality(Bytes({m})) = k
  BY <1>1, <1>3, <1>4, <1>5, <1>6
<1> QED BY <1>7, TotalIsCardinality

------------------------------------------------------------------------------
(* The inductive invariant *)

\* A function on 1..n is a sequence of length n, and Append extends it.
LEMMA FunctionIsSeq ==
    ASSUME NEW S, NEW n \in Nat, NEW f \in [1..n -> S], NEW x \in S, NEW a, a = Append(f, x)
    PROVE  a \in [1..n + 1 -> S] /\ a[n + 1] = x /\ \A i \in 1..n : a[i] = f[i]
<1>1. f \in Seq(S)
  BY SeqDef
<1>2. Len(f) \in Nat /\ 1..Len(f) = 1..n
  BY <1>1, LenProperties
<1>3. Len(f) = n
  BY <1>2
<1>4. /\ a \in Seq(S) /\ Len(a) = Len(f) + 1 /\ a[Len(f) + 1] = x
      /\ \A i \in 1..Len(f) : a[i] = f[i]
  BY <1>1, AppendProperties
<1>5. a \in [1..Len(a) -> S]
  BY <1>4, LenProperties
<1> QED BY <1>3, <1>4, <1>5

\* A finite number of leases holds an engine.
LEMMA HoldingFinite ==
    ASSUME NEW e
    PROVE  IsFiniteSet(Holding(e)) /\ Cardinality(Holding(e)) \in Nat
<1>1. Holding(e) \in SUBSET Leases
  BY DEF Holding
<1> QED BY <1>1, PoolAssumption, FS_Subset, FS_CardinalityType

\* An engine that is loaded and not counted is in nobody's hands.
LEMMA IdleNotHeld ==
    ASSUME LeasedStaysLoaded, NEW e \in Engines, active_requests[e] = 0
    PROVE  Holding(e) = {}
BY HoldingFinite, FS_EmptySet DEF LeasedStaysLoaded

\* The pool starts with nothing loaded and nobody served.
LEMMA InitPoolInv == PoolInit => PoolInv
<1> SUFFICES ASSUME PoolInit PROVE PoolInv
  OBVIOUS
<1>1. PoolTypeOK
  BY DEF PoolInit, PoolTypeOK, Engines, Loaded
<1>2. LeasedStaysLoaded
  BY DEF PoolInit, LeasedStaysLoaded, Engines
<1>3. Loaded = {}
  BY DEF PoolInit, Loaded
<1>4. Total(Loaded) = 0
  <2>1. Bytes({}) = {}
    BY DEF Bytes
  <2>2. Total({}) = Cardinality({})
    BY <2>1, TotalIsCardinality, Zenon
  <2>3. Total(Loaded) = Cardinality({})
    BY <1>3, <2>2, Zenon
  <2> QED BY <2>3, FS_EmptySet
<1> QED
  BY <1>1, <1>2, <1>4, PoolAssumption DEF PoolInit, PoolInv, CallInv, EstimateExact

\* checkout_with_loader of a loaded model counts the lease it hands out.
LEMMA ShareInv ==
    ASSUME PoolInv, NEW m \in Models, NEW l \in Leases, Share(m, l)
    PROVE  PoolInv'
<1> USE DEF PoolInv, Share
<1> DEFINE e == entries[m]
<1>1. e \in Engines /\ modelOf[e] = m
  BY DEF PoolTypeOK, Loaded
<1>2. PoolTypeOK'
  BY <1>1 DEF PoolTypeOK, Loaded, Engines, Free, Holders
<1>3. \A x \in Engines : Holding(x)' = IF x = e THEN Holding(x) \cup {l} ELSE Holding(x)
  BY DEF Holding, Free, PoolTypeOK
<1>4. l \notin Holding(e)
  BY DEF Holding, Free
<1>5. Cardinality(Holding(e) \cup {l}) = Cardinality(Holding(e)) + 1
  BY <1>4, HoldingFinite, FS_AddElement
<1>6. LeasedStaysLoaded'
  <2> SUFFICES ASSUME NEW x \in Engines
               PROVE  /\ active_requests'[x] = Cardinality(Holding(x)')
                      /\ Holding(x)' # {} => entries[modelOf[x]] = x
    BY DEF LeasedStaysLoaded, Engines
  <2>1. CASE x = e
    BY <2>1, <1>1, <1>3, <1>5 DEF LeasedStaysLoaded, PoolTypeOK
  <2>2. CASE x # e
    BY <2>2, <1>3 DEF LeasedStaysLoaded, PoolTypeOK
  <2> QED BY <2>1, <2>2
<1> QED BY <1>2, <1>6 DEF CallInv, EstimateExact, Loaded

\* eviction_plan starts with a model that is not loaded and fits the budget.
LEMMA PlanInv ==
    ASSUME PoolInv, NEW m \in Models, NEW l \in Leases, Plan(m, l)
    PROVE  PoolInv'
<1> USE DEF PoolInv, Plan
<1>1. PoolTypeOK'
  BY DEF PoolTypeOK, Loaded, Engines, Checkouts
<1>2. LeasedStaysLoaded' /\ EstimateExact'
  BY DEF LeasedStaysLoaded, EstimateExact, Loaded, Engines, Holding
<1>3. CallInv'
  BY PoolAssumption DEF CallInv, Loaded, PoolTypeOK
<1> QED BY <1>1, <1>2, <1>3

\* One turn of the filter reads an idle entry as a candidate.
LEMMA ReadEntryInv ==
    ASSUME PoolInv, NEW m \in Models, ReadEntry(m)
    PROVE  PoolInv'
<1> USE DEF PoolInv, ReadEntry
<1>0. call \in Checkouts /\ call # Idle
  BY DEF PoolTypeOK, Idle
<1>1. PoolTypeOK'
  BY <1>0 DEF PoolTypeOK, Loaded, Engines, Checkouts
<1>2. LeasedStaysLoaded' /\ EstimateExact'
  BY DEF LeasedStaysLoaded, EstimateExact, Loaded, Engines, Holding
<1>3. CallInv'
  BY <1>0 DEF CallInv, Loaded, Evictable, Checkouts
<1> QED BY <1>1, <1>2, <1>3

\* Unloading idle models: nobody loses an engine in use, and the estimate falls
\* by exactly what they were counted with.
LEMMA UnloadKeeps ==
    ASSUME PoolInv, NEW ms \in SUBSET Loaded, \A m \in ms : active_requests[entries[m]] = 0,
           Unload(ms), UNCHANGED <<modelOf, active_requests, last_used, lease>>
    PROVE  /\ entries' \in [Models -> Nat] /\ loaded_estimate' \in Nat
           /\ Loaded' = Loaded \ ms
           /\ loaded_estimate' = loaded_estimate - Total(ms)
           /\ LeasedStaysLoaded' /\ EstimateExact'
<1> USE DEF PoolInv
<1>0. Loaded \in SUBSET Models /\ ms \in SUBSET Models
  BY DEF Loaded
<1>1. entries' \in [Models -> Nat] /\ \A m \in Models : entries'[m] = IF m \in ms THEN 0 ELSE entries[m]
  BY DEF Unload, PoolTypeOK
<1>2. Loaded' = Loaded \ ms
  BY <1>1 DEF Loaded
<1>3. Total(Loaded) \in Nat /\ Total(ms) \in Nat /\ Total(Loaded \ ms) \in Nat
  BY <1>0, TotalType
<1>4. Total(Loaded \ ms) = Total(Loaded) - Total(ms)
  BY <1>0, TotalDifference
<1>5. Total(Loaded)' = Total(Loaded \ ms)
  <2>1. Total(Loaded)' = Total(Loaded')
    BY DEF Total
  <2> QED BY <1>2, <2>1, Zenon
<1>6. loaded_estimate' = loaded_estimate - Total(ms)
  BY <1>3, <1>4 DEF Unload, Monus, EstimateExact
<1>7. EstimateExact'
  BY <1>3, <1>4, <1>5, <1>6, PoolAssumption DEF EstimateExact
<1>8. LeasedStaysLoaded'
  <2> SUFFICES ASSUME NEW e \in Engines
               PROVE  /\ active_requests[e] = Cardinality(Holding(e)')
                      /\ Holding(e)' # {} => entries'[modelOf[e]] = e
    BY DEF LeasedStaysLoaded, Engines
  <2>1. Holding(e)' = Holding(e)
    BY DEF Holding
  <2>2. active_requests[e] = Cardinality(Holding(e)')
    BY <2>1 DEF LeasedStaysLoaded
  <2>3. ASSUME Holding(e) # {} PROVE modelOf[e] \notin ms
    <3>1. entries[modelOf[e]] = e /\ active_requests[e] # 0
      BY <2>3, IdleNotHeld DEF LeasedStaysLoaded
    <3> QED BY <3>1
  <2>4. modelOf[e] \in Models
    BY DEF PoolTypeOK, Engines
  <2> QED BY <1>1, <2>1, <2>2, <2>3, <2>4 DEF LeasedStaysLoaded
<1> QED
  BY <1>1, <1>2, <1>3, <1>4, <1>6, <1>7, <1>8, PoolAssumption DEF EstimateExact

\* A set of victims are candidates that free what is needed.
LEMMA VictimsFree ==
    ASSUME NEW ms, NEW needed, NEW vs \in Victims(ms, needed)
    PROVE  vs \subseteq ms /\ Total(vs) >= needed
BY DEF Victims

\* apply_evictions takes only models the plan read as idle, and makes the room
\* the new model needs.
LEMMA EvictInv ==
    ASSUME PoolInv, apply_evictions
    PROVE  PoolInv'
<1> USE DEF PoolInv, apply_evictions
<1>0. call \in Checkouts /\ call # Idle
  BY DEF PoolTypeOK, Idle
<1>1. PICK ms \in Victims(call.found, Required) : Unload(ms) /\ call' = [call EXCEPT !.at = "load"]
  OBVIOUS
<1>2. ms \subseteq call.found /\ Total(ms) >= Required
  BY VictimsFree
<1>3. ms \in SUBSET Loaded /\ \A m \in ms : active_requests[entries[m]] = 0
  BY <1>0, <1>2 DEF CallInv
<1>4. /\ entries' \in [Models -> Nat] /\ loaded_estimate' \in Nat
      /\ Loaded' = Loaded \ ms
      /\ loaded_estimate' = loaded_estimate - Total(ms)
      /\ LeasedStaysLoaded' /\ EstimateExact'
  BY <1>1, <1>3, UnloadKeeps
<1>5. call' \in Checkouts /\ call' # Idle /\ call'.at = "load" /\ call'.model = call.model
        /\ call'.lease = call.lease
  BY <1>0, <1>1 DEF Checkouts, Idle
<1>6. PoolTypeOK'
  BY <1>1, <1>4, <1>5 DEF PoolTypeOK, Engines, Unload, Loaded
<1>7. ms \in SUBSET Models /\ call.model \in Models
  BY <1>0, <1>3 DEF Loaded, Checkouts
<1>8. Total(ms) \in Nat
  BY <1>7, TotalType
<1>9. loaded_estimate' + EstimateOf[call.model] <= Budget
  BY <1>2, <1>4, <1>7, <1>8, PoolAssumption DEF Required, PoolTypeOK
<1>10. CallInv'
  BY <1>0, <1>1, <1>5, <1>7, <1>9 DEF CallInv, Unload
<1> QED BY <1>4, <1>6, <1>10

\* A plan that finds no room, or a loader that fails, leaves the pool as it is.
LEMMA CallEndsInv ==
    ASSUME PoolInv, call' = Idle,
           UNCHANGED <<entries, loaded_estimate, modelOf, active_requests, last_used, lease>>
    PROVE  PoolInv'
<1>1. PoolTypeOK' /\ CallInv'
  BY DEF PoolInv, PoolTypeOK, Loaded, Engines, CallInv
<1>2. LeasedStaysLoaded' /\ EstimateExact'
  BY DEF PoolInv, LeasedStaysLoaded, EstimateExact, Loaded, Engines, Holding
<1> QED BY <1>1, <1>2 DEF PoolInv

\* The loader returns: a new engine is entered with one lease on it.
LEMMA LoaderReturnsInv ==
    ASSUME PoolInv, LoaderReturns
    PROVE  PoolInv'
<1> USE DEF PoolInv
<1> PICK m, l, e : m = call.model /\ l = call.lease /\ e = Len(modelOf) + 1
  OBVIOUS
<1>0. call \in Checkouts /\ call # Idle /\ m \in Models /\ l \in Leases
  BY DEF LoaderReturns, PoolTypeOK, Idle, Checkouts
<1>a. /\ loaded_estimate' = loaded_estimate + EstimateOf[m]
      /\ entries' = [entries EXCEPT ![m] = e] /\ modelOf' = Append(modelOf, m)
      /\ active_requests' = Append(active_requests, 1) /\ last_used' = Append(last_used, e)
      /\ lease' = [lease EXCEPT ![l] = [at |-> "held", engine |-> e]] /\ call' = Idle
  BY DEF LoaderReturns
<1>b. /\ Len(modelOf) \in Nat /\ Engines = 1..Len(modelOf)
      /\ active_requests \in [1..Len(modelOf) -> Nat] /\ last_used \in [1..Len(modelOf) -> Nat]
  BY DEF PoolTypeOK, Engines
<1>c. Engines' = 1..Len(modelOf) + 1 /\ modelOf \in Seq(Models)
  BY <1>0, <1>a DEF Engines, PoolTypeOK
<1>1. lease[l] = Free /\ entries[m] = 0 /\ loaded_estimate + EstimateOf[m] <= Budget
  BY <1>0 DEF CallInv, LoaderReturns
<1>2. e \in Nat \ {0} /\ e \notin Engines /\ Engines' = Engines \cup {e}
      /\ modelOf' \in Seq(Models) /\ modelOf'[e] = m /\ \A x \in Engines : modelOf'[x] = modelOf[x]
  BY <1>0, <1>a DEF Engines, PoolTypeOK
<1>3. /\ active_requests' \in [Engines' -> Nat] /\ active_requests'[e] = 1
      /\ \A x \in Engines : active_requests'[x] = active_requests[x]
  <2>1. /\ active_requests' \in [1..Len(modelOf) + 1 -> Nat]
        /\ active_requests'[Len(modelOf) + 1] = 1
        /\ \A x \in 1..Len(modelOf) : active_requests'[x] = active_requests[x]
    <3>1. \A one \in Nat : active_requests' = Append(active_requests, one) =>
              /\ active_requests' \in [1..Len(modelOf) + 1 -> Nat]
              /\ active_requests'[Len(modelOf) + 1] = one
              /\ \A x \in 1..Len(modelOf) : active_requests'[x] = active_requests[x]
      <4> TAKE one \in Nat
      <4> HAVE active_requests' = Append(active_requests, one)
      <4>1. active_requests' \in [1..Len(modelOf) + 1 -> Nat]
        BY <1>b, FunctionIsSeq
      <4>2. active_requests'[Len(modelOf) + 1] = one
        BY <1>b, FunctionIsSeq
      <4>3. \A x \in 1..Len(modelOf) : active_requests'[x] = active_requests[x]
        BY <1>b, FunctionIsSeq
      <4> QED BY <4>1, <4>2, <4>3
    <3> QED BY <1>a, <3>1
  <2> QED BY <1>b, <1>c, <2>1
<1>4. last_used' \in [Engines' -> Nat]
  <2>1. last_used' \in [1..Len(modelOf) + 1 -> Nat]
    BY <1>2, <1>a, <1>b, FunctionIsSeq
  <2> QED BY <1>c, <2>1
<1>5. /\ entries' \in [Models -> Nat] /\ entries'[m] = e
      /\ \A n \in Models : n # m => entries'[n] = entries[n]
  BY <1>0, <1>2, <1>a DEF PoolTypeOK
<1>6. /\ lease' \in [Leases -> {Free} \cup Holders] /\ lease'[l] = [at |-> "held", engine |-> e]
      /\ \A k \in Leases : k # l => lease'[k] = lease[k]
  BY <1>0, <1>2, <1>a DEF PoolTypeOK, Holders
<1>7. Loaded' = Loaded \cup {m} /\ m \notin Loaded
  BY <1>0, <1>1, <1>2, <1>5 DEF Loaded
<1>8. PoolTypeOK'
  <2>1. loaded_estimate' \in Nat /\ call' \in {Idle} \cup Checkouts
    <3>1. EstimateOf[m] \in Nat /\ loaded_estimate \in Nat
      BY <1>0, PoolAssumption DEF PoolTypeOK
    <3> QED BY <1>a, <3>1
  <2>2. \A n \in Loaded' : entries'[n] \in Engines' /\ modelOf'[entries'[n]] = n
    BY <1>2, <1>5, <1>7 DEF PoolTypeOK, Loaded
  <2>3. \A k \in Leases : lease'[k] # Free => lease'[k].engine \in Engines'
    <3> SUFFICES ASSUME NEW k \in Leases, lease'[k] # Free PROVE lease'[k].engine \in Engines'
      OBVIOUS
    <3>1. CASE k = l
      BY <3>1, <1>2, <1>6
    <3>2. CASE k # l
      BY <3>2, <1>2, <1>6 DEF PoolTypeOK
    <3> QED BY <3>1, <3>2
  <2> QED BY <1>2, <1>3, <1>4, <1>5, <1>6, <2>1, <2>2, <2>3 DEF PoolTypeOK
<1>9. \A x \in Engines : Holding(x)' = Holding(x)
  BY <1>1, <1>2, <1>6 DEF Holding, Free
<1>10. Holding(e)' = {l}
  <2>1. \A k \in Leases : k # l => k \notin Holding(e)'
    BY <1>2, <1>6 DEF Holding, PoolTypeOK, Free
  <2>2. l \in Holding(e)' /\ Holding(e)' \subseteq Leases
    BY <1>0, <1>6 DEF Holding
  <2> QED BY <2>1, <2>2
<1>11. LeasedStaysLoaded'
  <2> SUFFICES ASSUME NEW x \in Engines'
               PROVE  /\ active_requests'[x] = Cardinality(Holding(x)')
                      /\ Holding(x)' # {} => entries'[modelOf'[x]] = x
    BY DEF LeasedStaysLoaded
  <2>1. CASE x = e
    <3>1. Cardinality(Holding(x)') = 1
      BY <2>1, <1>10, FS_Singleton
    <3> QED BY <2>1, <3>1, <1>2, <1>3, <1>5
  <2>2. CASE x \in Engines
    <3>1. Holding(x) # {} => entries[modelOf[x]] = x /\ x \in Nat \ {0}
      BY <2>2 DEF LeasedStaysLoaded, Engines, PoolTypeOK
    <3>2. Holding(x) # {} => modelOf[x] # m
      BY <1>1, <3>1
    <3>3. modelOf[x] \in Models
      BY <2>2 DEF PoolTypeOK, Engines
    <3>4. active_requests'[x] = Cardinality(Holding(x)')
      BY <2>2, <1>3, <1>9 DEF LeasedStaysLoaded
    <3> QED BY <2>2, <3>1, <3>2, <3>3, <3>4, <1>2, <1>5, <1>9
  <2> QED BY <2>1, <2>2, <1>2
<1>12. EstimateExact'
  <2>1. Loaded \in SUBSET Models /\ {m} \in SUBSET Models /\ Loaded \cap {m} = {}
    BY <1>0, <1>7 DEF Loaded
  <2>2. Total(Loaded \cup {m}) = Total(Loaded) + Total({m})
    BY <2>1, TotalUnion
  <2>3. Total({m}) = EstimateOf[m]
    BY <1>0, TotalOne
  <2>4. Total(Loaded)' = Total(Loaded \cup {m})
    <3>1. Total(Loaded)' = Total(Loaded')
      BY DEF Total
    <3> QED BY <1>7, <3>1, Zenon
  <2> QED BY <1>1, <1>a, <2>2, <2>3, <2>4 DEF EstimateExact
<1> QED BY <1>8, <1>11, <1>12, <1>a DEF CallInv

\* unload_idle refuses a model in use.
LEMMA UnloadIdleInv ==
    ASSUME PoolInv, NEW m \in Models, unload_idle(m)
    PROVE  PoolInv'
<1> USE DEF PoolInv, unload_idle
<1>1. {m} \in SUBSET Loaded /\ \A n \in {m} : active_requests[entries[n]] = 0
  BY DEF Loaded, Evictable
<1>2. /\ entries' \in [Models -> Nat] /\ loaded_estimate' \in Nat
      /\ Loaded' = Loaded \ {m} /\ LeasedStaysLoaded' /\ EstimateExact'
  BY <1>1, UnloadKeeps
<1>3. PoolTypeOK'
  BY <1>2 DEF PoolTypeOK, Engines, Unload, Loaded
<1> QED BY <1>2, <1>3 DEF CallInv

\* unload_expired takes only models that are not in use.
LEMMA UnloadExpiredInv ==
    ASSUME PoolInv, unload_expired
    PROVE  PoolInv'
<1> USE DEF PoolInv, unload_expired
<1>1. PICK ms \in SUBSET {m \in Loaded \cap WithTtl : Evictable(m)} : Unload(ms)
  OBVIOUS
<1>2. ms \in SUBSET Loaded /\ \A n \in ms : active_requests[entries[n]] = 0
  BY DEF Evictable
<1>3. /\ entries' \in [Models -> Nat] /\ loaded_estimate' \in Nat
      /\ Loaded' = Loaded \ ms /\ LeasedStaysLoaded' /\ EstimateExact'
  BY <1>1, <1>2, UnloadKeeps
<1>4. PoolTypeOK'
  BY <1>1, <1>3 DEF PoolTypeOK, Engines, Unload, Loaded
<1> QED BY <1>3, <1>4 DEF CallInv

\* Drop first writes last_used; the lease still counts.
LEMMA DropTouchesInv ==
    ASSUME PoolInv, NEW l \in Leases, DropTouches(l)
    PROVE  PoolInv'
<1> USE DEF PoolInv, DropTouches
<1>1. lease[l] \in Holders /\ lease[l].engine \in Engines /\ lease[l] # Free
  BY DEF PoolTypeOK, Free
<1>2. /\ lease' \in [Leases -> {Free} \cup Holders] /\ lease'[l].at = "touched"
      /\ lease'[l].engine = lease[l].engine /\ lease'[l] # Free
      /\ \A k \in Leases : k # l => lease'[k] = lease[k]
  BY <1>1 DEF PoolTypeOK, Holders, Free
<1>3. last_used' \in [Engines -> Nat]
  <2>1. \A x \in Engines : (CASE x = lease[l].engine -> Len(modelOf)
            [] last_used[x] > last_used[lease[l].engine] -> last_used[x] - 1
            [] OTHER -> last_used[x]) \in Nat
    BY <1>1 DEF PoolTypeOK
  <2> QED BY <2>1 DEF Touch
<1>4. PoolTypeOK'
  BY <1>1, <1>2, <1>3 DEF PoolTypeOK, Engines, Loaded
<1>5. \A e \in Engines : Holding(e)' = Holding(e)
  BY <1>2 DEF Holding
<1>6. LeasedStaysLoaded'
  BY <1>5 DEF LeasedStaysLoaded, Engines
<1>7. CallInv'
  BY <1>1, <1>2 DEF CallInv, Loaded, PoolTypeOK, Checkouts
<1> QED BY <1>4, <1>6, <1>7 DEF EstimateExact, Loaded

\* Drop then lowers active_requests, from the thread of its caller.
LEMMA DropUncountsInv ==
    ASSUME PoolInv, NEW l \in Leases, DropUncounts(l)
    PROVE  PoolInv'
<1> USE DEF PoolInv, DropUncounts
<1> DEFINE e == lease[l].engine
<1>1. lease[l] \in Holders /\ e \in Engines /\ lease[l] # Free
  BY DEF PoolTypeOK, Free
<1>2. /\ lease' \in [Leases -> {Free} \cup Holders] /\ lease'[l].at = "uncounted"
      /\ lease'[l].engine = e /\ lease'[l] # Free
      /\ \A k \in Leases : k # l => lease'[k] = lease[k]
  BY <1>1 DEF PoolTypeOK, Holders, Free
<1>3. \A x \in Engines : Holding(x)' = IF x = e THEN Holding(x) \ {l} ELSE Holding(x)
  BY <1>2 DEF Holding
<1>4. l \in Holding(e)
  BY DEF Holding
<1>5. Cardinality(Holding(e) \ {l}) = Cardinality(Holding(e)) - 1 /\ Cardinality(Holding(e) \ {l}) \in Nat
  BY <1>4, HoldingFinite, FS_RemoveElement, FS_CardinalityType
<1>6. active_requests'[e] = Cardinality(Holding(e) \ {l})
  BY <1>1, <1>5 DEF LeasedStaysLoaded, PoolTypeOK
<1>7. active_requests' \in [Engines -> Nat] /\ \A x \in Engines : x # e => active_requests'[x] = active_requests[x]
  BY <1>1, <1>5, <1>6 DEF PoolTypeOK
<1>8. PoolTypeOK'
  BY <1>1, <1>2, <1>7 DEF PoolTypeOK, Engines, Loaded
<1>9. LeasedStaysLoaded'
  <2> SUFFICES ASSUME NEW x \in Engines
               PROVE  /\ active_requests'[x] = Cardinality(Holding(x)')
                      /\ Holding(x)' # {} => entries[modelOf[x]] = x
    BY DEF LeasedStaysLoaded, Engines
  <2>1. CASE x = e
    BY <2>1, <1>1, <1>3, <1>6 DEF LeasedStaysLoaded
  <2>2. CASE x # e
    BY <2>2, <1>3, <1>7 DEF LeasedStaysLoaded
  <2> QED BY <2>1, <2>2
<1>10. CallInv'
  <2>1. \A m \in Loaded : active_requests[entries[m]] = 0 => active_requests'[entries[m]] = 0
    <3> SUFFICES ASSUME NEW m \in Loaded, active_requests[entries[m]] = 0
                 PROVE  entries[m] # e /\ entries[m] \in Engines
      BY <1>7
    <3>1. entries[m] \in Engines
      BY DEF PoolTypeOK
    <3> QED BY <3>1, <1>4, IdleNotHeld
  <2> QED BY <1>1, <1>2, <2>1 DEF CallInv, Loaded, PoolTypeOK, Checkouts
<1> QED BY <1>8, <1>9, <1>10 DEF EstimateExact, Loaded

\* Drop last lets go of its share of the engine.
LEMMA DropReleasesInv ==
    ASSUME PoolInv, NEW l \in Leases, DropReleases(l)
    PROVE  PoolInv'
<1> USE DEF PoolInv, DropReleases
<1>1. /\ lease' \in [Leases -> {Free} \cup Holders] /\ lease'[l] = Free
      /\ \A k \in Leases : k # l => lease'[k] = lease[k]
  BY DEF PoolTypeOK
<1>2. PoolTypeOK'
  BY <1>1 DEF PoolTypeOK, Engines, Loaded
<1>3. \A e \in Engines : Holding(e)' = Holding(e)
  BY <1>1 DEF Holding, Free
<1>4. LeasedStaysLoaded'
  BY <1>3 DEF LeasedStaysLoaded, Engines
<1>5. CallInv'
  BY <1>1 DEF CallInv, Loaded, PoolTypeOK, Checkouts
<1> QED BY <1>2, <1>4, <1>5 DEF EstimateExact, Loaded

\* Every step of the pool's thread and of the threads that drop leases keeps the
\* invariant.
LEMMA NextPoolInv == PoolInv /\ [PoolNext]_poolVars => PoolInv'
<1> SUFFICES ASSUME PoolInv, [PoolNext]_poolVars PROVE PoolInv'
  OBVIOUS
<1>1. CASE \E m \in Models, l \in Leases : Share(m, l) \/ Plan(m, l)
  BY <1>1, ShareInv, PlanInv
<1>2. CASE \E m \in Models : ReadEntry(m) \/ unload_idle(m)
  BY <1>2, ReadEntryInv, UnloadIdleInv
<1>3. CASE apply_evictions
  BY <1>3, EvictInv
<1>4. CASE PlanFails \/ LoaderFails
  BY <1>4, CallEndsInv DEF PlanFails, LoaderFails
<1>5. CASE LoaderReturns
  BY <1>5, LoaderReturnsInv
<1>6. CASE unload_expired
  BY <1>6, UnloadExpiredInv
<1>7. CASE \E l \in Leases : DropTouches(l) \/ DropUncounts(l) \/ DropReleases(l)
  BY <1>7, DropTouchesInv, DropUncountsInv, DropReleasesInv
<1>8. CASE UNCHANGED poolVars
  <2> USE <1>8 DEF poolVars, PoolInv
  <2>1. PoolTypeOK' /\ CallInv'
    BY DEF PoolTypeOK, CallInv, Engines, Loaded
  <2>2. LeasedStaysLoaded' /\ EstimateExact'
    BY DEF LeasedStaysLoaded, EstimateExact, Engines, Loaded, Holding
  <2> QED BY <2>1, <2>2
<1> QED BY <1>1, <1>2, <1>3, <1>4, <1>5, <1>6, <1>7, <1>8 DEF PoolNext

\* PoolInv holds in every state of the pool.
LEMMA PoolInvAlways == PoolSpec => []PoolInv
BY InitPoolInv, NextPoolInv, PTL DEF PoolSpec

------------------------------------------------------------------------------
\* No sequence of checkouts, drops, plans and unloading takes an engine from a
\* caller that still uses it, and active_requests counts exactly those callers
\* (pool.rs:378).
THEOREM EngineInUseStaysLoaded == PoolSpec => []LeasedStaysLoaded
BY PoolInvAlways, PTL DEF PoolInv

\* loaded_estimate_bytes is the sum of what is loaded and stays within the
\* budget, also when a loader fails after the evictions (pool.rs:296).
THEOREM EstimateWithinBudget == PoolSpec => []EstimateExact
BY PoolInvAlways, PTL DEF PoolInv

\* Eviction goes by last use: no victim is more recently used than a candidate
\* that stays (pool.rs:412).
THEOREM EvictsLeastRecent == PoolSpec => LeastRecentFirst
<1> DEFINE A(m, n) ==
      (/\ call.at = "scan" /\ call'.at = "load" /\ {m, n} \subseteq call.found
       /\ entries'[m] = 0 /\ entries'[n] # 0) =>
      last_used[entries[m]] < last_used[entries[n]]
<1>1. ASSUME PoolInv, [PoolNext]_poolVars
      PROVE  [\A m, n \in Models : A(m, n)]_poolVars
  <2> SUFFICES ASSUME PoolNext, NEW m \in Models, NEW n \in Models,
                      call.at = "scan", call'.at = "load", {m, n} \subseteq call.found,
                      entries'[m] = 0, entries'[n] # 0
               PROVE  last_used[entries[m]] < last_used[entries[n]]
    BY <1>1
  <2> USE <1>1 DEF PoolInv
  <2>1. apply_evictions
    <3>1. call # Idle /\ call' # Idle /\ call' # call
      BY DEF Idle
    <3>2. \A k \in Models : ~ReadEntry(k)
      BY DEF ReadEntry, PoolTypeOK, Checkouts, Idle
    <3> QED BY <3>1, <3>2 DEF PoolNext, Share, Plan, PlanFails, LoaderReturns, LoaderFails,
              unload_idle, unload_expired, DropTouches, DropUncounts, DropReleases
  <2>2. PICK vs \in Victims(call.found, Required) : Unload(vs)
    BY <2>1 DEF apply_evictions
  <2>3. PICK k \in call.found : vs = {x \in call.found : last_used[entries[x]] <= last_used[entries[k]]}
    BY <2>2 DEF Victims
  <2>4. m \in Loaded /\ n \in Loaded /\ k \in Loaded
    BY DEF CallInv, PoolTypeOK, Idle, Checkouts
  <2>5. m \in vs /\ n \notin vs
    BY <2>2, <2>4 DEF Unload, Loaded
  <2>6. last_used[entries[m]] \in Nat /\ last_used[entries[n]] \in Nat /\ last_used[entries[k]] \in Nat
    BY <2>4 DEF PoolTypeOK
  <2> QED BY <2>3, <2>5, <2>6
<1> QED BY <1>1, PoolInvAlways, PTL DEF PoolSpec, LeastRecentFirst

------------------------------------------------------------------------------
(* The rank group *)

Calls == Clients \X Nat
Submitting(c) == client[c].at \in {"reserve", "send"}

\* The variables have their types.
GroupTypeOK ==
    /\ mode \in {"threads", "relay"}
    /\ client \in [Clients -> [at : {"idle", "reserve", "send", "stream"}, calls : Nat, rank : Ranks]]
    /\ waiting_count \in [Ranks -> Int]
    /\ request_rx \in [Ranks -> Seq(Calls)] /\ wire \in [Ranks -> Seq(Calls)]
    /\ order \in [Ranks -> Seq(Calls)]

\* submission_lock is held by the one client between its first permit and its
\* last send; the relay's handle is that of rank 0.
LockInv ==
    /\ \A c \in Clients : Submitting(c) => lock = {c}
    /\ mode = "relay" => \A c \in Clients : client[c].at = "reserve" => client[c].rank = 0

\* Only ranks of other processes have a stream.
WiresRemote == \A r \in LocalRanks : wire[r] = <<>>

\* What was sent to rank r and not lost: queued, or still in its stream.
Sent(r) == order[r] \o wire[r]

\* Ranks the call of c has not sent to yet: ranks are served upwards, rank 0
\* last when there is a relay.
Unsent(c, r) ==
    \/ client[c].at = "reserve"
    \/ /\ client[c].at = "send"
       /\ IF mode = "threads" THEN r >= client[c].rank
          ELSE r = 0 \/ (client[c].rank # 0 /\ r >= client[c].rank)

\* No call is sent before it is made.
SentWasMade ==
    \A r \in Ranks : \A i \in DOMAIN Sent(r) : Sent(r)[i][2] <= client[Sent(r)[i][1]].calls

\* The call being made is, where it was sent and not lost, the last.
CurrentIsLast ==
    \A c \in Clients : Submitting(c) =>
        \A r \in Ranks : \A i \in DOMAIN Sent(r) :
            Sent(r)[i] = Current(c) => ~Unsent(c, r) /\ i = Len(Sent(r))

\* What two ranks were both sent they were sent in the same order.
SentAlike ==
    \A r \in Ranks \ {0} : \A i, j \in DOMAIN Sent(0), k, l \in DOMAIN Sent(r) :
        i < j /\ Sent(0)[i] = Sent(r)[k] /\ Sent(0)[j] = Sent(r)[l] => k < l

\* The inductive invariant of the order of submissions; the permits and the lock
\* have theirs below.
OrderInv == WiresRemote /\ SentWasMade /\ CurrentIsLast /\ SentAlike

\* The coordinator's slot of a request that rank 0 has not preempted has the last
\* token of rank 0, or the stop after it.
SlotIsLast ==
    \A q \in Requests \ restarted :
        \/ /\ published[q].step = Len(history[0][q]) - 1
           /\ history[0][q] # <<>> => published[q].token = history[0][q][Len(history[0][q])]
        \/ published[q].step = Len(history[0][q]) /\ published[q].token = "stop"

TokenTypeOK ==
    /\ history \in [Ranks -> [Requests -> Seq(Tokens)]]
    /\ published \in [Requests -> [step : Int, token : Tokens \cup {"none"}]]
    /\ \A q \in Requests : published[q].step >= 0 => published[q].token \in Tokens

\* The inductive invariant of the token coordinator.
TokenInv == TokenTypeOK /\ (mode = "threads" => SlotIsLast /\ FollowersAgree)

------------------------------------------------------------------------------
(* The token coordinator *)

\* A prefix, element by element.
LEMMA PrefixPointwise ==
    ASSUME NEW S, NEW s \in Seq(S), NEW t \in Seq(S)
    PROVE  IsPrefix(s, t) <=> Len(s) <= Len(t) /\ \A i \in 1..Len(s) : s[i] = t[i]
<1>1. SubSeq(s, 1, Len(s)) = s
  BY SubSeqFull
<1>2. ASSUME Len(s) <= Len(t)
      PROVE  s = SubSeq(t, 1, Len(s)) <=> \A i \in 1..Len(s) : s[i] = t[i]
  <2>1. /\ SubSeq(t, 1, Len(s)) \in Seq(S) /\ Len(SubSeq(t, 1, Len(s))) = Len(s)
        /\ \A i \in 1..Len(s) : SubSeq(t, 1, Len(s))[i] = t[i]
    BY <1>2, SubSeqProperties, LenProperties
  <2> QED BY <2>1, SeqEqual
<1> QED BY <1>1, <1>2 DEF IsPrefix

\* Nothing is published and no rank has a token.
LEMMA InitTokenInv == GroupInit => TokenInv
<1> SUFFICES ASSUME GroupInit PROVE TokenInv
  OBVIOUS
<1>1. 0 \in Ranks
  BY GroupAssumption DEF Ranks
<1>2. TokenTypeOK
  BY DEF GroupInit, TokenTypeOK, Tokens
<1>3. SlotIsLast
  BY <1>1 DEF GroupInit, SlotIsLast
<1>4. \A r \in Ranks, q \in Requests \ restarted : IsPrefix(history[r][q], history[0][q])
  <2>1. IsPrefix(<<>>, <<>>)
    BY DEF IsPrefix
  <2>2. \A r \in Ranks, q \in Requests : history[r][q] = <<>>
    BY DEF GroupInit
  <2> QED BY <1>1, <2>1, <2>2, Zenon
<1> QED BY <1>2, <1>3, <1>4 DEF TokenInv, FollowersAgree

\* What Apply does to the histories.
LEMMA ApplyHistory ==
    ASSUME TokenTypeOK, NEW rs \in SUBSET Ranks, NEW token \in Tokens, Apply(rs, token)
    PROVE  /\ history' \in [Ranks -> [Requests -> Seq(Tokens)]]
           /\ \A r \in Ranks, q \in Requests :
                 history'[r][q] = IF r \in rs /\ token # "stop" /\ q = Head(rows[r])
                                  THEN Append(history[r][q], token) ELSE history[r][q]
<1>1. \A r \in Ranks : history'[r] =
          IF r \in rs /\ token # "stop"
          THEN [history[r] EXCEPT ![Head(rows[r])] = Append(@, token)] ELSE history[r]
  BY DEF Apply
<1>2. \A r \in Ranks : history[r] \in [Requests -> Seq(Tokens)]
  BY DEF TokenTypeOK
<1>3. \A r \in Ranks, q \in Requests :
          history'[r][q] = IF r \in rs /\ token # "stop" /\ q = Head(rows[r])
                           THEN Append(history[r][q], token) ELSE history[r][q]
  BY <1>1, <1>2
<1>4. \A s \in Seq(Tokens) : Append(s, token) \in Seq(Tokens)
  BY AppendProperties
<1>5. \A r \in Ranks : history'[r] \in [Requests -> Seq(Tokens)]
  <2> TAKE r \in Ranks
  <2>1. history'[r] = [q \in Requests |-> history'[r][q]]
    <3>1. CASE r \in rs /\ token # "stop"
      <4>1. history'[r] = [history[r] EXCEPT ![Head(rows[r])] = Append(@, token)]
        BY <1>1, <3>1
      <4>2. DOMAIN history[r] = Requests
        BY <1>2
      <4> QED BY <4>1, <4>2
    <3>2. CASE ~(r \in rs /\ token # "stop")
      BY <1>1, <1>2, <3>2
    <3> QED BY <3>1, <3>2
  <2>2. ASSUME NEW q \in Requests PROVE history'[r][q] \in Seq(Tokens)
    <3>1. history[r][q] \in Seq(Tokens)
      BY <1>2
    <3> QED BY <1>3, <1>4, <3>1
  <2> QED BY <2>1, <2>2
<1>6. history' = [r \in Ranks |-> history'[r]]
  BY DEF Apply
<1> QED BY <1>3, <1>5, <1>6

\* Rank 0 publishes the token it takes.
LEMMA PublishTokenInv ==
    ASSUME TokenInv, Publish
    PROVE  TokenInv'
<1>1. PICK token \in Tokens :
        /\ mode = "threads" /\ at[0] = "sync"
        /\ Slot(0).step = Step(0) => token = Slot(0).token
        /\ published' = [published EXCEPT ![Head(rows[0])] = [step |-> Step(0), token |-> token]]
        /\ Apply({0}, token)
  BY DEF Publish
<1>0. restarted' = restarted /\ mode' = mode
  BY <1>1 DEF Apply, kvVars
<1>2. PICK p : p = Head(rows[0])
  OBVIOUS
<1>3. 0 \in Ranks /\ TokenTypeOK /\ SlotIsLast /\ FollowersAgree
  BY <1>1, GroupAssumption DEF Ranks, TokenInv
<1>4. /\ history' \in [Ranks -> [Requests -> Seq(Tokens)]]
      /\ \A r \in Ranks, q \in Requests :
            history'[r][q] = IF r = 0 /\ token # "stop" /\ q = p
                             THEN Append(history[r][q], token) ELSE history[r][q]
  <2>1. PICK rs \in SUBSET Ranks : rs = {0} /\ Apply(rs, token)
    BY <1>1, <1>3
  <2>2. /\ history' \in [Ranks -> [Requests -> Seq(Tokens)]]
        /\ \A r \in Ranks, q \in Requests :
              history'[r][q] = IF r \in rs /\ token # "stop" /\ q = Head(rows[r])
                               THEN Append(history[r][q], token) ELSE history[r][q]
    BY <1>1, <1>3, <2>1, ApplyHistory, ZenonT(30)
  <2> QED BY <1>2, <2>1, <2>2
<1>5. /\ published' = [published EXCEPT ![p] = [step |-> Len(history[0][p]), token |-> token]]
      /\ p \in Requests /\ published[p].step = Len(history[0][p]) => token = published[p].token
  BY <1>1, <1>2 DEF Step, Slot
<1>6. /\ \A q \in Requests : history[0][q] \in Seq(Tokens) /\ Len(history[0][q]) \in Nat
      /\ \A r \in Ranks, q \in Requests : history[r][q] \in Seq(Tokens)
  BY <1>3, LenProperties DEF TokenTypeOK
<1>7. TokenTypeOK'
  <2>1. CASE p \in Requests
    BY <1>3, <1>4, <1>5, <1>6, <2>1 DEF TokenTypeOK
  <2>2. CASE p \notin Requests
    BY <1>3, <1>4, <1>5, <2>2 DEF TokenTypeOK
  <2> QED BY <2>1, <2>2
<1>8. SlotIsLast'
  <2> SUFFICES ASSUME NEW q \in Requests \ restarted
               PROVE  \/ /\ published'[q].step = Len(history'[0][q]) - 1
                         /\ history'[0][q] # <<>> => published'[q].token = history'[0][q][Len(history'[0][q])]
                      \/ published'[q].step = Len(history'[0][q]) /\ published'[q].token = "stop"
    BY <1>0 DEF SlotIsLast
  <2>1. CASE q # p
    <3>1. history'[0][q] = history[0][q] /\ published'[q] = published[q]
      BY <1>3, <1>4, <1>5, <2>1 DEF TokenTypeOK
    <3> QED BY <1>3, <3>1 DEF SlotIsLast
  <2>2. CASE q = p
    <3>1. published'[q].step = Len(history[0][q]) /\ published'[q].token = token
      BY <1>3, <1>5, <2>2 DEF TokenTypeOK
    <3>2. CASE token = "stop"
      BY <1>3, <1>4, <3>1, <3>2
    <3>3. CASE token # "stop"
      <4>1. history'[0][q] = Append(history[0][q], token)
        BY <1>3, <1>4, <2>2, <3>3
      <4>2. /\ Len(history'[0][q]) = Len(history[0][q]) + 1
            /\ history'[0][q][Len(history[0][q]) + 1] = token
        BY <1>6, <4>1, AppendProperties
      <4> QED BY <1>6, <3>1, <4>2
    <3> QED BY <3>2, <3>3
  <2> QED BY <2>1, <2>2
<1>9. \A r \in Ranks, q \in Requests \ restarted : IsPrefix(history'[r][q], history'[0][q])
  <2> TAKE r \in Ranks, q \in Requests \ restarted
  <2>1. IsPrefix(history[r][q], history[0][q])
    BY <1>1, <1>3 DEF FollowersAgree
  <2>2. CASE history'[r][q] = history[r][q] /\ history'[0][q] = history[0][q]
    BY <2>1, <2>2, Zenon
  <2>3. CASE history'[0][q] = Append(history[0][q], token)
    <3>1. PICK s, t, u \in Seq(Tokens) : s = history[r][q] /\ t = history[0][q] /\ u = Append(t, token)
      BY <1>6, AppendProperties
    <3>2. IsPrefix(s, u) /\ IsPrefix(u, u)
      <4>1. IsPrefix(s, t)
        BY <2>1, <3>1, Zenon
      <4>2. Len(s) <= Len(t) /\ \A i \in 1..Len(s) : s[i] = t[i]
        BY <4>1, PrefixPointwise
      <4>3. Len(s) \in Nat /\ Len(t) \in Nat /\ Len(u) = Len(t) + 1 /\ \A i \in 1..Len(t) : u[i] = t[i]
        BY <3>1, AppendProperties, LenProperties
      <4>4. Len(s) <= Len(u) /\ \A i \in 1..Len(s) : s[i] = u[i]
        BY <4>2, <4>3
      <4> QED BY <4>4, PrefixPointwise
    <3>3. history'[0][q] = u /\ history'[r][q] \in {s, u}
      BY <1>4, <2>3, <3>1
    <3> QED BY <3>2, <3>3
  <2> QED BY <1>3, <1>4, <2>2, <2>3
<1> QED BY <1>0, <1>7, <1>8, <1>9 DEF TokenInv, FollowersAgree

\* A follower takes the token that rank 0 took at the same step.
LEMMA FollowTokenInv ==
    ASSUME TokenInv, NEW r \in Ranks, Follow(r)
    PROVE  TokenInv'
<1>1. PICK p : p = Head(rows[r])
  OBVIOUS
<1>2. PICK token : token = published[p].token
  OBVIOUS
<1>3. 0 \in Ranks /\ TokenTypeOK /\ SlotIsLast /\ FollowersAgree /\ mode = "threads"
  BY GroupAssumption DEF Ranks, TokenInv, Follow
<1>4. r # 0 /\ published[p].step = Len(history[r][p]) /\ Apply({r}, token) /\ published' = published
  BY <1>1, <1>2 DEF Follow, Slot, Step
<1>5. \A x \in Ranks, q \in Requests : history[x][q] \in Seq(Tokens) /\ Len(history[x][q]) \in Nat
  BY <1>3, LenProperties DEF TokenTypeOK
<1>0. restarted' = restarted /\ mode' = mode
  BY <1>4 DEF Apply, kvVars
<1>13. ASSUME p \in Requests PROVE token \in Tokens
  <2>1. Len(history[r][p]) \in Nat
    BY <1>5, <1>13
  <2> QED BY <1>2, <1>3, <1>4, <1>13, <2>1 DEF TokenTypeOK
<1>6. ASSUME p \in Requests \ restarted
      PROVE  \/ token = "stop"
             \/ /\ Len(history[0][p]) = Len(history[r][p]) + 1
                /\ token \in Tokens /\ token = history[0][p][Len(history[0][p])]
  <2>1. PICK s \in Seq(Tokens) : s = history[0][p] /\ Len(s) \in Nat
    BY <1>3, <1>5, <1>6
  <2>2. \/ published[p].step = Len(s) - 1 /\ (s # <<>> => token = s[Len(s)])
        \/ published[p].step = Len(s) /\ token = "stop"
    BY <1>2, <1>3, <1>6, <2>1 DEF SlotIsLast
  <2>3. Len(history[r][p]) \in Nat
    BY <1>5, <1>6
  <2>4. Len(s) = 0 \/ (s # <<>> /\ s[Len(s)] \in Tokens)
    BY <2>1, LenProperties
  <2> QED BY <1>4, <2>1, <2>2, <2>3, <2>4
<1>7. /\ history' \in [Ranks -> [Requests -> Seq(Tokens)]]
      /\ \A x \in Ranks, q \in Requests :
            history'[x][q] = IF x \in {r} /\ token # "stop" /\ q = Head(rows[x])
                             THEN Append(history[x][q], token) ELSE history[x][q]
  <2>1. CASE token \in Tokens
    <3>1. PICK rs \in SUBSET Ranks : rs = {r} /\ Apply(rs, token)
      BY <1>4
    <3>2. /\ history' \in [Ranks -> [Requests -> Seq(Tokens)]]
          /\ \A x \in Ranks, q \in Requests :
                history'[x][q] = IF x \in rs /\ token # "stop" /\ q = Head(rows[x])
                                 THEN Append(history[x][q], token) ELSE history[x][q]
      BY <1>3, <2>1, <3>1, ApplyHistory, ZenonT(30)
    <3> QED BY <3>1, <3>2
  <2>2. CASE token \notin Tokens
    <3>1. p \notin Requests
      BY <1>13, <2>2
    <3>2. history' = [x \in Ranks |-> history'[x]]
      BY <1>4 DEF Apply
    <3>3. ASSUME NEW x \in Ranks PROVE history'[x] = history[x]
      <4>1. history'[x] = IF x \in {r} /\ token # "stop"
                          THEN [history[x] EXCEPT ![Head(rows[x])] = Append(@, token)] ELSE history[x]
        BY <1>4 DEF Apply
      <4>2. history[x] \in [Requests -> Seq(Tokens)]
        BY <1>3 DEF TokenTypeOK
      <4>3. x = r => history'[x] = history[x] \/ history'[x] = [history[x] EXCEPT ![p] = Append(@, token)]
        BY <1>1, <4>1
      <4>4. [history[x] EXCEPT ![p] = Append(@, token)] = history[x]
        BY <3>1, <4>2
      <4> QED BY <4>1, <4>3, <4>4
    <3>4. history' = history
      BY <1>3, <3>2, <3>3 DEF TokenTypeOK
    <3> QED BY <1>1, <1>3, <3>1, <3>4 DEF TokenTypeOK
  <2> QED BY <2>1, <2>2
<1>8. TokenTypeOK'
  BY <1>3, <1>4, <1>7 DEF TokenTypeOK
<1>9. \A q \in Requests : history'[0][q] = history[0][q]
  BY <1>3, <1>4, <1>7
<1>10. SlotIsLast'
  BY <1>0, <1>3, <1>4, <1>9 DEF SlotIsLast
<1>11. \A x \in Ranks, q \in Requests \ restarted : IsPrefix(history'[x][q], history'[0][q])
  <2> TAKE x \in Ranks, q \in Requests \ restarted
  <2>1. IsPrefix(history[x][q], history[0][q])
    BY <1>3 DEF FollowersAgree
  <2>2. CASE history'[x][q] = history[x][q]
    BY <1>9, <2>1, <2>2, Zenon
  <2>3. CASE x = r /\ q = p /\ token # "stop" /\ history'[x][q] = Append(history[x][q], token)
    <3>1. PICK s, t \in Seq(Tokens) : s = history[x][q] /\ t = history[0][q]
      BY <1>3, <1>5
    <3>2. Len(t) = Len(s) + 1 /\ token \in Tokens /\ token = t[Len(t)] /\ Len(s) \in Nat
      BY <1>5, <1>6, <2>3, <3>1
    <3>3. IsPrefix(s, t)
      BY <2>1, <3>1, Zenon
    <3>4. \A i \in 1..Len(s) : s[i] = t[i]
      BY <3>3, PrefixPointwise
    <3>5. PICK u \in Seq(Tokens) : u = Append(s, token)
      BY <3>2, AppendProperties
    <3>6. Len(u) = Len(s) + 1 /\ (\A i \in 1..Len(s) : u[i] = s[i]) /\ u[Len(s) + 1] = token
      BY <3>2, <3>5, AppendProperties
    <3>7. Len(u) <= Len(t) /\ \A i \in 1..Len(u) : u[i] = t[i]
      BY <3>2, <3>4, <3>6
    <3>8. IsPrefix(u, t)
      BY <3>7, PrefixPointwise
    <3>9. history'[x][q] = u /\ history'[0][q] = t
      BY <1>9, <2>3, <3>1, <3>5, Zenon
    <3> QED BY <3>8, <3>9, Zenon
  <2> QED BY <1>1, <1>7, <2>2, <2>3
<1> QED BY <1>0, <1>8, <1>10, <1>11 DEF TokenInv, FollowersAgree

\* Preemption on a rank forgets what the rank generated; on rank 0 it also ends
\* what is said of the request.
LEMMA LaunchTokenInv ==
    ASSUME TokenInv, NEW r \in Ranks, Launch(r)
    PROVE  TokenInv'
<1>1. PICK V :
        /\ restarted' = IF r = 0 THEN restarted \cup V ELSE restarted
        /\ history' = [history EXCEPT ![r] = [q \in Requests |-> IF q \in V THEN <<>> ELSE @[q]]]
  BY Zenon DEF Launch
<1>2. 0 \in Ranks /\ TokenTypeOK /\ UNCHANGED <<mode, published>>
  BY GroupAssumption DEF Ranks, TokenInv, Launch
<1>3. \A x \in Ranks, q \in Requests :
         history'[x][q] = IF x = r /\ q \in V THEN <<>> ELSE history[x][q]
  BY <1>1, <1>2 DEF TokenTypeOK
<1>4. history' \in [Ranks -> [Requests -> Seq(Tokens)]]
  <2>1. <<>> \in Seq(Tokens)
    OBVIOUS
  <2>2. [q \in Requests |-> IF q \in V THEN <<>> ELSE history[r][q]] \in [Requests -> Seq(Tokens)]
    BY <1>2, <2>1 DEF TokenTypeOK
  <2> QED BY <1>1, <1>2, <2>2, Zenon DEF TokenTypeOK
<1>5. TokenTypeOK'
  BY <1>2, <1>4 DEF TokenTypeOK
<1>6. \A q \in Requests \ restarted' :
         q \in Requests \ restarted /\ history'[0][q] = history[0][q]
  BY <1>1, <1>2, <1>3
<1>7. SlotIsLast => SlotIsLast'
  BY <1>2, <1>6 DEF SlotIsLast
<1>8. FollowersAgree => FollowersAgree'
  <2> SUFFICES ASSUME FollowersAgree, mode = "threads", NEW x \in Ranks, NEW q \in Requests \ restarted'
               PROVE  IsPrefix(history'[x][q], history'[0][q])
    BY <1>2 DEF FollowersAgree
  <2>1. IsPrefix(history[x][q], history[0][q]) /\ history'[0][q] = history[0][q]
    BY <1>6 DEF FollowersAgree
  <2>2. CASE history'[x][q] = history[x][q]
    BY <2>1, <2>2, Zenon
  <2>3. CASE history'[x][q] = <<>>
    <3>1. PICK t \in Seq(Tokens) : t = history[0][q]
      BY <1>2 DEF TokenTypeOK
    <3>2. PICK e \in Seq(Tokens) : e = <<>> /\ Len(e) = 0
      <4>1. <<>> \in Seq(Tokens) /\ Len(<<>>) = 0
        OBVIOUS
      <4> QED BY <4>1, Zenon
    <3>3. Len(e) <= Len(t) /\ \A i \in 1..Len(e) : e[i] = t[i]
      BY <3>2, LenProperties
    <3>4. IsPrefix(e, t)
      BY <3>3, PrefixPointwise
    <3> QED BY <2>1, <2>3, <3>1, <3>2, <3>4, Zenon
  <2> QED BY <1>3, <2>2, <2>3
<1> QED BY <1>2, <1>5, <1>7, <1>8 DEF TokenInv

\* Every step keeps it.
LEMMA NextTokenInv == TokenInv /\ [GroupNext]_allGroupVars => TokenInv'
<1> SUFFICES ASSUME TokenInv, [GroupNext]_allGroupVars PROVE TokenInv'
  OBVIOUS
<1>1. ASSUME UNCHANGED <<mode, history, published, restarted>> PROVE TokenInv'
  BY <1>1 DEF TokenInv, TokenTypeOK, SlotIsLast, FollowersAgree
<1>2. CASE BroadcastToken
  <2>1. PICK token \in Tokens : mode = "relay" /\ Apply(Ranks, token) /\ published' = published
    BY <1>2 DEF BroadcastToken
  <2>2. history' \in [Ranks -> [Requests -> Seq(Tokens)]]
    BY <2>1, ApplyHistory DEF TokenInv
  <2>3. mode' = mode
    BY <2>1 DEF Apply
  <2> QED BY <2>1, <2>2, <2>3 DEF TokenInv, TokenTypeOK
<1>3. ASSUME NEW c \in Clients,
             Submit(c) \/ CallStep(c) \/ BroadcastFails(c) \/ StreamEnds(c) \/ HangUp(c)
      PROVE  TokenInv'
  BY <1>1, <1>3 DEF Submit, CallStep, Reserve, Full, Send, BroadcastFails, StreamEnds, HangUp,
     rankVars, kvVars
<1>4. ASSUME NEW r \in Ranks, RelayReceive(r) \/ RankStep(r)
      PROVE  TokenInv'
  BY <1>1, <1>4, LaunchTokenInv DEF RelayReceive, RankStep, Drain, Drained, rankVars, kvVars
<1>5. CASE Forward
  BY <1>1, <1>5 DEF Forward, kvVars
<1>6. ASSUME NEW r \in Ranks, StepSkipped(r) \/ WaitTimesOut(r)
      PROVE  TokenInv'
  BY <1>1, <1>6 DEF StepSkipped, WaitTimesOut, Fail, kvVars
<1>7. CASE UNCHANGED allGroupVars
  BY <1>1, <1>7 DEF allGroupVars
<1> QED BY <1>2, <1>3, <1>4, <1>5, <1>6, <1>7, PublishTokenInv, FollowTokenInv DEF GroupNext, TokenStep

\* synchronize_token (types.rs:150), for every number of ranks, requests, tokens
\* and preemptions: what a follower has of a request is what rank 0 has of it, as
\* far as the follower got, whatever timeouts, skipped steps and preemptions on
\* the follower the ranks' turns bring.  A preemption on rank 0 ends this.
THEOREM FollowersCopyRankZero == GroupSpec => []FollowersAgree
<1>1. TokenInv => FollowersAgree
  BY DEF TokenInv, FollowersAgree
<1> QED BY <1>1, InitTokenInv, NextTokenInv, PTL DEF GroupSpec
------------------------------------------------------------------------------
(* Permits and the waiting count *)

\* What a set with at most one element counts.
LEMMA AtMostOne ==
    ASSUME NEW H, NEW c, H \subseteq {c}
    PROVE  Cardinality(H) = IF c \in H THEN 1 ELSE 0
<1>1. CASE c \in H
  <2>1. H = {c}
    BY <1>1
  <2> QED BY <1>1, <2>1, FS_Singleton
<1>2. CASE c \notin H
  <2>1. H = {}
    BY <1>2
  <2> QED BY <1>2, <2>1, FS_EmptySet
<1> QED BY <1>1, <1>2

\* The part of the invariant that is about permits.
PermitInv == GroupTypeOK /\ LockInv /\ CountExact

\* Ranks 0 and 1 exist.
LEMMA TwoRanks == 0 \in Ranks /\ 1 \in Ranks /\ LocalRanks \subseteq Ranks /\ 0 \in LocalRanks /\ Ranks \subseteq Nat
BY GroupAssumption DEF Ranks, LocalRanks

\* No call is being made.
LEMMA InitPermitInv == GroupInit => PermitInv
<1> SUFFICES ASSUME GroupInit PROVE PermitInv
  OBVIOUS
<1>1. GroupTypeOK
  BY TwoRanks, GroupAssumption DEF GroupInit, GroupTypeOK
<1>2. LockInv
  BY DEF GroupInit, LockInv, Submitting
<1>3. ASSUME NEW r \in Ranks PROVE waiting_count[r] = Len(request_rx[r]) + Cardinality({c \in Clients : Holds(c, r)})
  <2>1. {c \in Clients : Holds(c, r)} = {}
    BY DEF GroupInit, Holds
  <2>2. Cardinality({c \in Clients : Holds(c, r)}) = 0
    BY <2>1, FS_EmptySet
  <2> QED BY <2>2 DEF GroupInit
<1> QED BY <1>1, <1>2, <1>3 DEF PermitInv, CountExact

\* A step of the one client that submits, or begins to, keeps the count when the
\* count moves with its permits and the channels.
LEMMA SubmitterStep ==
    ASSUME PermitInv, GroupTypeOK', LockInv', NEW c \in Clients,
           \A x \in Clients : Submitting(x) => x = c,
           \A x \in Clients : Submitting(x)' => x = c,
           \A r \in Ranks : waiting_count'[r] - Len(request_rx'[r]) - (IF Holds(c, r)' THEN 1 ELSE 0)
                             = waiting_count[r] - Len(request_rx[r]) - (IF Holds(c, r) THEN 1 ELSE 0)
    PROVE  PermitInv'
<1>1. ASSUME NEW r \in Ranks
      PROVE  waiting_count'[r] = Len(request_rx'[r]) + Cardinality({x \in Clients : Holds(x, r)'})
  <2>1. PICK H, H2 : H = {x \in Clients : Holds(x, r)} /\ H2 = {x \in Clients : Holds(x, r)'}
    OBVIOUS
  <2>2. H \subseteq {c} /\ H2 \subseteq {c}
    <3>1. \A x \in Clients : Holds(x, r) => Submitting(x)
      BY DEF Holds, Submitting
    <3>2. \A x \in Clients : Holds(x, r)' => Submitting(x)'
      BY DEF Holds, Submitting
    <3> QED BY <2>1, <3>1, <3>2
  <2>3. (c \in H <=> Holds(c, r)) /\ (c \in H2 <=> Holds(c, r)')
    BY <2>1
  <2>4. PICK w, w2, n, n2 : w = waiting_count[r] /\ w2 = waiting_count'[r] /\ n = Len(request_rx[r]) /\ n2 = Len(request_rx'[r])
    OBVIOUS
  <2>5. w \in Int /\ w2 \in Int /\ n \in Nat /\ n2 \in Nat
    BY <2>4, LenProperties DEF PermitInv, GroupTypeOK
  <2>6. w = n + Cardinality(H)
    BY <2>1, <2>4 DEF PermitInv, CountExact
  <2>7. w2 - n2 - (IF c \in H2 THEN 1 ELSE 0) = w - n - (IF c \in H THEN 1 ELSE 0)
    BY <2>3, <2>4
  <2>8. w2 = n2 + Cardinality(H2)
    <3>1. PICK k \in Int, k2 \in Int : k = (IF c \in H THEN 1 ELSE 0) /\ k2 = (IF c \in H2 THEN 1 ELSE 0)
      OBVIOUS
    <3>2. Cardinality(H) = k /\ Cardinality(H2) = k2
      BY <2>2, <3>1, AtMostOne, Zenon
    <3>3. w = n + k /\ w2 - n2 - k2 = w - n - k
      BY <2>6, <2>7, <3>1, <3>2, Zenon
    <3>4. w2 = n2 + k2
      BY <2>5, <3>1, <3>3
    <3> QED BY <3>2, <3>4, Zenon
  <2> QED BY <2>1, <2>4, <2>8
<1>2. CountExact'
  BY <1>1 DEF CountExact
<1> QED BY <1>2 DEF PermitInv

\* A step that leaves the permits alone keeps the count when the count moves
\* with the channel.
LEMMA ChannelStep ==
    ASSUME PermitInv, GroupTypeOK', LockInv',
           \A c \in Clients, r \in Ranks : Holds(c, r)' <=> Holds(c, r),
           \A r \in Ranks : waiting_count'[r] - Len(request_rx'[r]) = waiting_count[r] - Len(request_rx[r])
    PROVE  PermitInv'
<1>1. ASSUME NEW r \in Ranks
      PROVE  waiting_count'[r] = Len(request_rx'[r]) + Cardinality({x \in Clients : Holds(x, r)'})
  <2>1. {x \in Clients : Holds(x, r)'} = {x \in Clients : Holds(x, r)}
    OBVIOUS
  <2>2. PICK k : k = Cardinality({x \in Clients : Holds(x, r)})
    OBVIOUS
  <2>3. k = Cardinality({x \in Clients : Holds(x, r)'})
    BY <2>1, <2>2, Zenon
  <2>4. waiting_count[r] = Len(request_rx[r]) + k
    BY <2>2 DEF PermitInv, CountExact
  <2>5. Len(request_rx[r]) \in Nat /\ Len(request_rx'[r]) \in Nat /\ waiting_count[r] \in Int /\ waiting_count'[r] \in Int
    BY LenProperties DEF PermitInv, GroupTypeOK
  <2>6. k \in Int
    <3>1. ASSUME NEW c \in Clients, Holds(c, r) PROVE {x \in Clients : Holds(x, r)} \subseteq {c}
      BY <3>1 DEF Holds, PermitInv, LockInv, Submitting
    <3>2. IsFiniteSet({x \in Clients : Holds(x, r)})
      <4>1. CASE \E c \in Clients : Holds(c, r)
        BY <3>1, <4>1, FS_Singleton, FS_Subset
      <4>2. CASE ~ \E c \in Clients : Holds(c, r)
        <5>1. {x \in Clients : Holds(x, r)} = {}
          BY <4>2
        <5> QED BY <5>1, FS_EmptySet
      <4> QED BY <4>1, <4>2
    <3> QED BY <2>2, <3>2, FS_CardinalityType
  <2>7. waiting_count'[r] = Len(request_rx'[r]) + k
    BY <2>4, <2>5, <2>6
  <2> QED BY <2>3, <2>7
<1>2. CountExact'
  BY <1>1 DEF CountExact
<1> QED BY <1>2 DEF PermitInv

\* What a client's record is made of.
LEMMA ClientRecord ==
    ASSUME GroupTypeOK, NEW c \in Clients
    PROVE  /\ client[c].at \in {"idle", "reserve", "send", "stream"} /\ client[c].calls \in Nat
           /\ client[c].rank \in Ranks
BY DEF GroupTypeOK

\* A call of c changes nobody else's state.
LEMMA ClientStep ==
    ASSUME GroupTypeOK, NEW c \in Clients, NEW a \in {"idle", "reserve", "send", "stream"}, NEW n \in Nat,
           NEW k \in Ranks, client' = [client EXCEPT ![c] = [at |-> a, calls |-> n, rank |-> k]]
    PROVE  /\ client' \in [Clients -> [at : {"idle", "reserve", "send", "stream"}, calls : Nat, rank : Ranks]]
           /\ client'[c].at = a /\ client'[c].calls = n /\ client'[c].rank = k
           /\ \A x \in Clients : x # c => client'[x] = client[x]
BY DEF GroupTypeOK

\* The same for a step that makes no new call.
LEMMA MoveStep ==
    ASSUME GroupTypeOK, NEW c \in Clients, NEW a \in {"idle", "reserve", "send", "stream"},
           NEW k \in Ranks, Move(c, a, k)
    PROVE  /\ client' \in [Clients -> [at : {"idle", "reserve", "send", "stream"}, calls : Nat, rank : Ranks]]
           /\ client'[c].at = a /\ client'[c].calls = client[c].calls /\ client'[c].rank = k
           /\ \A x \in Clients : x # c => client'[x] = client[x]
<1>1. client[c].calls \in Nat
  BY ClientRecord
<1>2. client' = [client EXCEPT ![c] = [at |-> a, calls |-> client[c].calls, rank |-> k]]
  BY DEF Move, GroupTypeOK
<1> QED BY <1>1, <1>2, ClientStep

\* submit takes the lock.
LEMMA SubmitPermit ==
    ASSUME PermitInv, NEW c \in Clients, Submit(c)
    PROVE  PermitInv'
<1>1. GroupTypeOK /\ LockInv
  BY DEF PermitInv
<1>2. PICK n \in Nat : n = client[c].calls + 1
  <2>1. client[c].calls \in Nat
    BY <1>1, ClientRecord
  <2> QED BY <2>1
<1>3. client' = [client EXCEPT ![c] = [at |-> "reserve", calls |-> n, rank |-> 0]]
  BY <1>2 DEF Submit
<1>4. /\ client' \in [Clients -> [at : {"idle", "reserve", "send", "stream"}, calls : Nat, rank : Ranks]]
      /\ client'[c].at = "reserve" /\ client'[c].rank = 0
      /\ \A x \in Clients : x # c => client'[x] = client[x]
  BY <1>1, <1>2, <1>3, TwoRanks, ClientStep
<1>5. /\ UNCHANGED <<mode, waiting_count, request_rx, wire, order>>
      /\ lock = {} /\ lock' = {c} /\ client[c].at = "idle"
  BY DEF Submit
<1>6. GroupTypeOK'
  BY <1>1, <1>4, <1>5 DEF GroupTypeOK
<1>7. \A x \in Clients : ~Submitting(x)
  BY <1>1, <1>5 DEF LockInv
<1>8. \A x \in Clients : Submitting(x)' => x = c
  BY <1>4, <1>7 DEF Submitting
<1>9. LockInv'
  BY <1>1, <1>4, <1>5, <1>8 DEF LockInv
<1>10. \A r \in Ranks : ~Holds(c, r) /\ ~Holds(c, r)'
  BY <1>4, <1>5, TwoRanks DEF Holds
<1>11. \A r \in Ranks : waiting_count'[r] - Len(request_rx'[r]) - (IF Holds(c, r)' THEN 1 ELSE 0)
                         = waiting_count[r] - Len(request_rx[r]) - (IF Holds(c, r) THEN 1 ELSE 0)
  BY <1>5, <1>10
<1> QED BY <1>6, <1>7, <1>8, <1>9, <1>11, SubmitterStep

\* A permit is one count.
LEMMA ReservePermit ==
    ASSUME PermitInv, NEW c \in Clients, Reserve(c)
    PROVE  PermitInv'
<1>1. GroupTypeOK /\ LockInv
  BY DEF PermitInv
<1>2. PICK r \in Ranks : r = client[c].rank
  BY <1>1, ClientRecord
<1>4. /\ client[c].at = "reserve" /\ waiting_count' = [waiting_count EXCEPT ![r] = @ + 1]
      /\ UNCHANGED <<mode, lock, request_rx, wire, order>>
  BY <1>2 DEF Reserve
<1>6. PICK a \in {"reserve", "send"}, k \in Ranks :
        /\ Move(c, a, k)
        /\ \/ a = "reserve" /\ k = r + 1 /\ k \in LocalRanks
           \/ a = "send" /\ r + 1 \notin LocalRanks /\ k = IF mode = "threads" THEN 0 ELSE 1
  <2>1. CASE r + 1 \in LocalRanks
    <3>1. Move(c, "reserve", r + 1)
      BY <1>2, <2>1 DEF Reserve
    <3> QED BY <2>1, <3>1, TwoRanks
  <2>2. CASE r + 1 \notin LocalRanks
    <3>1. PICK k \in Ranks : k = IF mode = "threads" THEN 0 ELSE 1
      BY TwoRanks
    <3>2. Move(c, "send", k)
      BY <1>2, <2>2, <3>1 DEF Reserve
    <3> QED BY <2>2, <3>1, <3>2
  <2> QED BY <2>1, <2>2
<1>7. /\ client' \in [Clients -> [at : {"idle", "reserve", "send", "stream"}, calls : Nat, rank : Ranks]]
      /\ client'[c].at = a /\ client'[c].rank = k
      /\ \A x \in Clients : x # c => client'[x] = client[x]
  BY <1>1, <1>6, MoveStep
<1>8. GroupTypeOK'
  BY <1>1, <1>2, <1>4, <1>7 DEF GroupTypeOK
<1>9. (\A x \in Clients : Submitting(x) => x = c) /\ lock = {c}
  BY <1>1, <1>4 DEF LockInv, Submitting
<1>10. \A x \in Clients : Submitting(x)' => x = c
  BY <1>7, <1>9 DEF Submitting
<1>11. mode = "relay" => r = 0 /\ a = "send"
  BY <1>1, <1>2, <1>4, <1>6 DEF LockInv, LocalRanks
<1>12. LockInv'
  BY <1>4, <1>7, <1>9, <1>10, <1>11 DEF LockInv, Submitting
<1>13. ASSUME NEW x \in Ranks
       PROVE  (Holds(c, x)' <=> Holds(c, x) \/ x = r) /\ ~Holds(c, r)
  <2>1. Holds(c, x) <=> x \in LocalRanks /\ x < r
    BY <1>2, <1>4 DEF Holds
  <2>2. ~Holds(c, r)
    BY <1>2, <1>4 DEF Holds, Ranks
  <2>3. LocalRanks' = LocalRanks
    BY <1>4 DEF LocalRanks
  <2>4. CASE mode = "relay"
    <3>1. Holds(c, x)' <=> x = 0
      BY <1>4, <1>7, <1>11, <2>3, <2>4 DEF Holds, LocalRanks
    <3> QED BY <1>11, <2>1, <2>2, <2>4, <3>1 DEF LocalRanks, Ranks
  <2>5. CASE mode = "threads"
    <3>1. LocalRanks = Ranks
      BY <2>5 DEF LocalRanks
    <3>2. CASE a = "reserve"
      <4>1. Holds(c, x)' <=> x < r + 1
        BY <1>4, <1>6, <1>7, <2>3, <3>1, <3>2 DEF Holds
      <4> QED BY <2>1, <2>2, <3>1, <4>1 DEF Ranks
    <3>3. CASE a = "send"
      <4>1. Holds(c, x)' <=> x >= 0
        BY <1>4, <1>6, <1>7, <2>3, <2>5, <3>1, <3>3 DEF Holds
      <4>2. r = NumRanks - 1
        BY <1>6, <3>1, <3>3, GroupAssumption DEF Ranks
      <4> QED BY <2>1, <2>2, <3>1, <4>1, <4>2, GroupAssumption DEF Ranks
    <3> QED BY <3>2, <3>3
  <2> QED BY <1>1, <2>4, <2>5 DEF GroupTypeOK
<1>14. \A x \in Ranks : waiting_count'[x] - Len(request_rx'[x]) - (IF Holds(c, x)' THEN 1 ELSE 0)
                         = waiting_count[x] - Len(request_rx[x]) - (IF Holds(c, x) THEN 1 ELSE 0)
  <2> TAKE x \in Ranks
  <2>1. waiting_count[x] \in Int /\ Len(request_rx[x]) \in Nat
    BY <1>1, LenProperties DEF GroupTypeOK
  <2>2. waiting_count'[x] = IF x = r THEN waiting_count[x] + 1 ELSE waiting_count[x]
    BY <1>1, <1>4 DEF GroupTypeOK
  <2>3. request_rx'[x] = request_rx[x]
    BY <1>4
  <2> QED BY <1>13, <2>1, <2>2, <2>3
<1> QED BY <1>8, <1>9, <1>10, <1>12, <1>14, SubmitterStep

\* A call that gives up drops its permits and the lock.
LEMMA GiveUpPermit ==
    ASSUME PermitInv, NEW c \in Clients, Submitting(c), GiveUp(c), UNCHANGED <<mode, request_rx, order>>,
           wire' = wire
    PROVE  PermitInv'
<1>1. GroupTypeOK /\ LockInv
  BY DEF PermitInv
<1>4. /\ client' \in [Clients -> [at : {"idle", "reserve", "send", "stream"}, calls : Nat, rank : Ranks]]
      /\ client'[c].at = "idle" /\ client'[c].rank = 0
      /\ \A x \in Clients : x # c => client'[x] = client[x]
  BY <1>1, TwoRanks, MoveStep DEF GiveUp
<1>5. waiting_count' = [r \in Ranks |-> IF Holds(c, r) THEN waiting_count[r] - 1 ELSE waiting_count[r]]
  BY DEF GiveUp, DropPermits
<1>6. waiting_count' \in [Ranks -> Int]
  BY <1>1, <1>5 DEF GroupTypeOK
<1>7. GroupTypeOK'
  BY <1>1, <1>4, <1>6 DEF GroupTypeOK
<1>8. (\A x \in Clients : Submitting(x) => x = c)
  BY <1>1 DEF LockInv
<1>9. \A x \in Clients : ~Submitting(x)'
  BY <1>4, <1>8 DEF Submitting
<1>10. LockInv'
  BY <1>1, <1>4, <1>9 DEF LockInv, Submitting
<1>11. \A x \in Ranks : waiting_count'[x] - Len(request_rx'[x]) - (IF Holds(c, x)' THEN 1 ELSE 0)
                         = waiting_count[x] - Len(request_rx[x]) - (IF Holds(c, x) THEN 1 ELSE 0)
  <2> TAKE x \in Ranks
  <2>1. waiting_count[x] \in Int /\ Len(request_rx[x]) \in Nat
    BY <1>1, LenProperties DEF GroupTypeOK
  <2>2. waiting_count'[x] = IF Holds(c, x) THEN waiting_count[x] - 1 ELSE waiting_count[x]
    BY <1>5
  <2>3. ~Holds(c, x)'
    BY <1>4 DEF Holds
  <2> QED BY <2>1, <2>2, <2>3
<1> QED BY <1>7, <1>8, <1>9, <1>10, <1>11, SubmitterStep

\* One more request in the queue of one rank.
LEMMA QueueAppend ==
    ASSUME NEW f \in [Ranks -> Seq(Calls)], NEW g, NEW r \in Ranks, NEW q \in Calls,
           g = f \/ g = [f EXCEPT ![r] = Append(@, q)]
    PROVE  g \in [Ranks -> Seq(Calls)]
<1>1. f[r] \in Seq(Calls) /\ Append(f[r], q) \in Seq(Calls)
  BY AppendProperties
<1>2. CASE g = [f EXCEPT ![r] = Append(@, q)]
  BY <1>1, <1>2
<1> QED BY <1>2

\* Where a send leaves the client.
LEMMA SendMoves ==
    ASSUME GroupTypeOK, LockInv, NEW c \in Clients, Send(c), NEW r, r = client[c].rank
    PROVE  /\ r \in Ranks /\ client[c].at = "send" /\ lock = {c} /\ Current(c) \in Calls
           /\ \E a \in {"send", "stream"}, k \in Ranks :
                /\ a = "stream" <=> r = IF mode = "threads" THEN NumRanks - 1 ELSE 0
                /\ a = "send" => k = IF r + 1 \in Ranks THEN r + 1 ELSE 0
                /\ Move(c, a, k) /\ lock' = IF a = "stream" THEN {} ELSE {c}
<1>1. r \in Ranks /\ client[c].calls \in Nat
  BY ClientRecord
<1>2. client[c].at = "send" /\ lock = {c}
  BY DEF Send, LockInv, Submitting
<1>3. Current(c) \in Calls
  BY <1>1 DEF Current, Calls
<1>4. CASE r = IF mode = "threads" THEN NumRanks - 1 ELSE 0
  <2>1. Move(c, "stream", 0) /\ lock' = lock \ {c}
    BY <1>4 DEF Send
  <2> QED BY <1>1, <1>2, <1>3, <1>4, <2>1, TwoRanks
<1>5. CASE ~(r = IF mode = "threads" THEN NumRanks - 1 ELSE 0)
  <2>1. PICK k \in Ranks : k = IF r + 1 \in Ranks THEN r + 1 ELSE 0
    BY TwoRanks
  <2>2. Move(c, "send", k) /\ lock' = lock
    BY <1>5, <2>1 DEF Send
  <2> QED BY <1>1, <1>2, <1>3, <1>5, <2>1, <2>2
<1> QED BY <1>4, <1>5

\* A permit that is used becomes an entry of the channel.
LEMMA SendPermit ==
    ASSUME PermitInv, NEW c \in Clients, Send(c)
    PROVE  PermitInv'
<1>1. GroupTypeOK /\ LockInv
  BY DEF PermitInv
<1>2. PICK r : r = client[c].rank
  OBVIOUS
<1>3. r \in Ranks /\ client[c].at = "send" /\ lock = {c} /\ Current(c) \in Calls
  BY <1>1, <1>2, SendMoves
<1>4. PICK a \in {"send", "stream"}, k \in Ranks :
        /\ a = "stream" <=> r = IF mode = "threads" THEN NumRanks - 1 ELSE 0
        /\ a = "send" => k = IF r + 1 \in Ranks THEN r + 1 ELSE 0
        /\ Move(c, a, k) /\ lock' = IF a = "stream" THEN {} ELSE {c}
  BY <1>1, <1>2, SendMoves
<1>5. /\ client' \in [Clients -> [at : {"idle", "reserve", "send", "stream"}, calls : Nat, rank : Ranks]]
      /\ client'[c].at = a /\ client'[c].rank = k
      /\ \A x \in Clients : x # c => client'[x] = client[x]
  BY <1>1, <1>4, MoveStep
<1>6. PICK q \in Calls : q = Current(c)
  BY <1>3
<1>7. waiting_count' = waiting_count /\ mode' = mode
      /\ IF r \in LocalRanks
         THEN /\ request_rx' = [request_rx EXCEPT ![r] = Append(@, q)]
              /\ order' = [order EXCEPT ![r] = Append(@, q)] /\ wire' = wire
         ELSE wire' = [wire EXCEPT ![r] = Append(@, q)] /\ request_rx' = request_rx /\ order' = order
  BY <1>2, <1>6 DEF Send
<1>8. \A t \in Seq(Calls) : Append(t, q) \in Seq(Calls) /\ Len(Append(t, q)) = Len(t) + 1
  BY AppendProperties
<1>9. GroupTypeOK'
  <2>1. request_rx' \in [Ranks -> Seq(Calls)]
    BY <1>1, <1>3, <1>7, QueueAppend DEF GroupTypeOK
  <2>2. wire' \in [Ranks -> Seq(Calls)]
    BY <1>1, <1>3, <1>7, QueueAppend DEF GroupTypeOK
  <2>3. order' \in [Ranks -> Seq(Calls)]
    BY <1>1, <1>3, <1>7, QueueAppend DEF GroupTypeOK
  <2> QED BY <1>1, <1>5, <1>7, <2>1, <2>2, <2>3 DEF GroupTypeOK
<1>10. \A x \in Clients : Submitting(x) => x = c
  BY <1>1, <1>3 DEF LockInv, Submitting
<1>11. \A x \in Clients : Submitting(x)' => x = c /\ a = "send"
  BY <1>5, <1>10 DEF Submitting
<1>12. LockInv'
  BY <1>4, <1>5, <1>7, <1>10, <1>11 DEF LockInv, Submitting
<1>13. ASSUME NEW x \in Ranks
       PROVE  (Holds(c, x)' <=> Holds(c, x) /\ x # r) /\ (Holds(c, r) <=> r \in LocalRanks)
  <2>1. Holds(c, x) <=> x \in LocalRanks /\ (mode = "threads" => x >= r)
    BY <1>2, <1>3 DEF Holds
  <2>2. Holds(c, r) <=> r \in LocalRanks
    BY <1>2, <1>3 DEF Holds, Ranks
  <2>3. LocalRanks' = LocalRanks
    BY <1>7 DEF LocalRanks
  <2>4. Holds(c, x)' <=> a = "send" /\ x \in LocalRanks /\ (mode = "threads" => x >= k)
    BY <1>5, <1>7, <2>3 DEF Holds
  <2>5. CASE mode = "threads"
    <3>1. LocalRanks = Ranks
      BY <2>5 DEF LocalRanks
    <3>2. CASE a = "stream"
      <4>1. r = NumRanks - 1
        BY <1>4, <2>5, <3>2
      <4> QED BY <2>1, <2>2, <2>4, <2>5, <3>1, <3>2, <4>1, GroupAssumption DEF Ranks
    <3>3. CASE a = "send"
      <4>1. k = r + 1
        BY <1>3, <1>4, <2>5, <3>3, GroupAssumption DEF Ranks
      <4> QED BY <1>3, <2>1, <2>2, <2>4, <2>5, <3>1, <3>3, <4>1 DEF Ranks
    <3> QED BY <3>2, <3>3
  <2>6. CASE mode = "relay"
    <3>1. x \in LocalRanks <=> x = 0
      BY <2>6 DEF LocalRanks
    <3>2. a = "stream" <=> r = 0
      BY <1>4, <2>6
    <3> QED BY <2>1, <2>2, <2>4, <2>6, <3>1, <3>2
  <2> QED BY <1>1, <2>5, <2>6 DEF GroupTypeOK
<1>14. \A x \in Ranks : waiting_count'[x] - Len(request_rx'[x]) - (IF Holds(c, x)' THEN 1 ELSE 0)
                         = waiting_count[x] - Len(request_rx[x]) - (IF Holds(c, x) THEN 1 ELSE 0)
  <2> TAKE x \in Ranks
  <2>1. waiting_count[x] \in Int /\ Len(request_rx[x]) \in Nat
    BY <1>1, LenProperties DEF GroupTypeOK
  <2>2. Len(request_rx'[x]) = IF x = r /\ r \in LocalRanks THEN Len(request_rx[x]) + 1 ELSE Len(request_rx[x])
    BY <1>1, <1>7, <1>8 DEF GroupTypeOK
  <2>3. Holds(c, x)' <=> Holds(c, x) /\ x # r
    BY <1>13
  <2>4. Holds(c, r) <=> r \in LocalRanks
    BY <1>3, <1>13
  <2> QED BY <1>7, <2>1, <2>2, <2>3, <2>4
<1> QED BY <1>9, <1>10, <1>11, <1>12, <1>14, SubmitterStep

\* A stream that ends has no permit.
LEMMA StreamPermit ==
    ASSUME PermitInv, NEW c \in Clients, client[c].at = "stream", Move(c, "idle", 0),
           UNCHANGED <<mode, lock, waiting_count, request_rx, wire, order>>
    PROVE  PermitInv'
<1>1. GroupTypeOK /\ LockInv
  BY DEF PermitInv
<1>2. /\ client' \in [Clients -> [at : {"idle", "reserve", "send", "stream"}, calls : Nat, rank : Ranks]]
      /\ client'[c].at = "idle" /\ client'[c].rank = 0
      /\ \A x \in Clients : x # c => client'[x] = client[x]
  BY <1>1, TwoRanks, MoveStep
<1>3. GroupTypeOK'
  BY <1>1, <1>2 DEF GroupTypeOK
<1>4. LockInv'
  BY <1>1, <1>2 DEF LockInv, Submitting
<1>5. \A x \in Clients, r \in Ranks : Holds(x, r)' <=> Holds(x, r)
  BY <1>2 DEF Holds, LocalRanks
<1>6. \A r \in Ranks : waiting_count'[r] - Len(request_rx'[r]) = waiting_count[r] - Len(request_rx[r])
  OBVIOUS
<1> QED BY <1>3, <1>4, <1>5, <1>6, ChannelStep

\* A relayed request is counted as it is queued.
LEMMA RelayPermit ==
    ASSUME PermitInv, NEW r \in Ranks, RelayReceive(r)
    PROVE  PermitInv'
<1>1. GroupTypeOK /\ LockInv
  BY DEF PermitInv
<1>2. wire[r] \in Seq(Calls) /\ wire[r] # <<>>
  BY <1>1 DEF RelayReceive, GroupTypeOK
<1>3. PICK q \in Calls : q = Head(wire[r])
  BY <1>2, HeadTailProperties
<1>4. Tail(wire[r]) \in Seq(Calls)
  BY <1>2, HeadTailProperties
<1>5. wire' = [wire EXCEPT ![r] = Tail(@)] /\ UNCHANGED <<mode, client, lock>>
  BY DEF RelayReceive
<1>6. \/ UNCHANGED <<waiting_count, request_rx, order>>
      \/ /\ waiting_count' = [waiting_count EXCEPT ![r] = @ + 1]
         /\ request_rx' = [request_rx EXCEPT ![r] = Append(@, q)]
         /\ order' = [order EXCEPT ![r] = Append(@, q)]
  BY <1>3 DEF RelayReceive
<1>7. \A t \in Seq(Calls) : Append(t, q) \in Seq(Calls) /\ Len(Append(t, q)) = Len(t) + 1
  BY AppendProperties
<1>8. GroupTypeOK'
  <2>1. request_rx' \in [Ranks -> Seq(Calls)]
    BY <1>1, <1>6, QueueAppend DEF GroupTypeOK
  <2>2. wire' \in [Ranks -> Seq(Calls)]
    BY <1>1, <1>4, <1>5 DEF GroupTypeOK
  <2>3. order' \in [Ranks -> Seq(Calls)]
    BY <1>1, <1>6, QueueAppend DEF GroupTypeOK
  <2>4. waiting_count' \in [Ranks -> Int]
    BY <1>1, <1>6 DEF GroupTypeOK
  <2> QED BY <1>1, <1>5, <2>1, <2>2, <2>3, <2>4 DEF GroupTypeOK
<1>9. LockInv'
  BY <1>1, <1>5 DEF LockInv, Submitting
<1>10. \A x \in Clients, z \in Ranks : Holds(x, z)' <=> Holds(x, z)
  BY <1>5 DEF Holds, LocalRanks
<1>11. \A x \in Ranks : waiting_count'[x] - Len(request_rx'[x]) = waiting_count[x] - Len(request_rx[x])
  <2> TAKE x \in Ranks
  <2>1. waiting_count[x] \in Int /\ Len(request_rx[x]) \in Nat
    BY <1>1, LenProperties DEF GroupTypeOK
  <2> QED BY <1>1, <1>6, <1>7, <2>1 DEF GroupTypeOK
<1> QED BY <1>8, <1>9, <1>10, <1>11, ChannelStep

\* A request leaves the channel and the count together.
LEMMA DrainPermit ==
    ASSUME PermitInv, NEW r \in Ranks, Drain(r)
    PROVE  PermitInv'
<1>1. GroupTypeOK /\ LockInv
  BY DEF PermitInv
<1>2. request_rx[r] \in Seq(Calls) /\ request_rx[r] # <<>>
  BY <1>1 DEF Drain, GroupTypeOK
<1>3. Tail(request_rx[r]) \in Seq(Calls) /\ Len(Tail(request_rx[r])) = Len(request_rx[r]) - 1
  BY <1>2, HeadTailProperties
<1>4. UNCHANGED <<mode, client, lock, wire, order>>
  BY DEF Drain, groupVars
<1>5. /\ request_rx' = [request_rx EXCEPT ![r] = Tail(@)]
      /\ waiting_count' = [waiting_count EXCEPT ![r] = @ - 1]
  BY DEF Drain
<1>6. GroupTypeOK'
  BY <1>1, <1>3, <1>4, <1>5 DEF GroupTypeOK
<1>7. LockInv'
  BY <1>1, <1>4 DEF LockInv, Submitting
<1>8. \A x \in Clients, z \in Ranks : Holds(x, z)' <=> Holds(x, z)
  BY <1>4 DEF Holds, LocalRanks
<1>9. \A x \in Ranks : waiting_count'[x] - Len(request_rx'[x]) = waiting_count[x] - Len(request_rx[x])
  <2> TAKE x \in Ranks
  <2>1. waiting_count[x] \in Int /\ Len(request_rx[x]) \in Nat
    BY <1>1, LenProperties DEF GroupTypeOK
  <2> QED BY <1>1, <1>3, <1>5, <2>1 DEF GroupTypeOK
<1> QED BY <1>6, <1>7, <1>8, <1>9, ChannelStep

\* The variables that submission is about.
submitVars == <<mode, client, lock, waiting_count, request_rx, wire, order>>

\* What the schedulers do beyond draining leaves submission alone.
LEMMA SchedulersApart ==
    ASSUME \/ Forward \/ TokenStep
           \/ \E r \in Ranks : Drained(r) \/ Launch(r)
           \/ UNCHANGED allGroupVars
    PROVE  UNCHANGED submitVars
BY DEF Forward, TokenStep, Publish, BroadcastToken, Follow, StepSkipped, WaitTimesOut, Apply, Fail,
       Drained, Launch, groupVars, allGroupVars, submitVars

\* Every step keeps the count exact.
LEMMA NextPermitInv == PermitInv /\ [GroupNext]_allGroupVars => PermitInv'
<1> SUFFICES ASSUME PermitInv, [GroupNext]_allGroupVars PROVE PermitInv'
  OBVIOUS
<1>1. ASSUME UNCHANGED submitVars PROVE PermitInv'
  BY <1>1 DEF submitVars, PermitInv, GroupTypeOK, LockInv, CountExact, Holds, LocalRanks, Submitting
<1>2. ASSUME NEW c \in Clients, Submit(c) \/ CallStep(c) \/ BroadcastFails(c)
      PROVE  PermitInv'
  <2>1. CASE Full(c) \/ BroadcastFails(c)
    BY <2>1, GiveUpPermit DEF Full, BroadcastFails, Submitting
  <2> QED BY <1>2, <2>1, SubmitPermit, ReservePermit, SendPermit DEF CallStep
<1>3. ASSUME NEW c \in Clients, StreamEnds(c) \/ HangUp(c)
      PROVE  PermitInv'
  BY <1>3, StreamPermit DEF StreamEnds, HangUp
<1> QED BY <1>1, <1>2, <1>3, RelayPermit, DrainPermit, SchedulersApart DEF GroupNext, RankStep

\* The permits and the lock are in order in every reachable state.
LEMMA PermitInvAlways == GroupSpec => []PermitInv
BY InitPermitInv, NextPermitInv, PTL DEF GroupSpec

\* The count shared by a handle and its scheduler (types.rs:1160) is exact at
\* every moment, for every number of clients, ranks and requests: what waits in
\* the channel and the permits in the hands of submit.
THEOREM WaitingCountExact == GroupSpec => []CountExact
<1>1. PermitInv => CountExact
  BY DEF PermitInv
<1> QED BY <1>1, PermitInvAlways, PTL
------------------------------------------------------------------------------
(* The order of submissions *)

\* What was sent to a rank is a sequence of calls.
LEMMA SentTyped ==
    ASSUME GroupTypeOK, NEW r \in Ranks
    PROVE  /\ Sent(r) \in Seq(Calls) /\ Len(Sent(r)) \in Nat /\ DOMAIN Sent(r) = 1..Len(Sent(r))
           /\ \A i \in 1..Len(Sent(r)) : Sent(r)[i] \in Calls
<1>1. order[r] \in Seq(Calls) /\ wire[r] \in Seq(Calls)
  BY DEF GroupTypeOK
<1>2. Sent(r) \in Seq(Calls)
  BY <1>1, ConcatProperties DEF Sent
<1> QED BY <1>2, LenProperties

\* A step that sends nothing: what matters is the call that is being made.
LEMMA NothingSent ==
    ASSUME GroupTypeOK, OrderInv, \A r \in Ranks : Sent(r)' = Sent(r), WiresRemote',
           \A c \in Clients : client[c].calls \in Nat /\ client'[c].calls \in Nat /\ client'[c].calls >= client[c].calls,
           \A c \in Clients : Submitting(c)' =>
               \A r \in Ranks : \A i \in DOMAIN Sent(r) :
                   Sent(r)[i] = Current(c)' => ~Unsent(c, r)' /\ i = Len(Sent(r))
    PROVE  OrderInv'
<1>1. SentWasMade'
  <2> SUFFICES ASSUME NEW r \in Ranks, NEW i \in DOMAIN Sent(r)
               PROVE  Sent(r)[i][2] <= client'[Sent(r)[i][1]].calls
    BY DEF SentWasMade
  <2>1. PICK q \in Calls : q = Sent(r)[i]
    BY SentTyped
  <2>2. q[1] \in Clients /\ q[2] \in Nat
    BY <2>1 DEF Calls
  <2>3. q[2] <= client[q[1]].calls
    BY <2>1 DEF OrderInv, SentWasMade
  <2>4. q[2] <= client'[q[1]].calls
    BY <2>2, <2>3
  <2> QED BY <2>1, <2>4
<1>2. CurrentIsLast'
  BY DEF CurrentIsLast
<1>3. SentAlike'
  BY TwoRanks DEF OrderInv, SentAlike
<1> QED BY <1>1, <1>2, <1>3 DEF OrderInv

\* Nothing was sent.
LEMMA InitOrderInv == GroupInit => OrderInv
<1> SUFFICES ASSUME GroupInit PROVE OrderInv
  OBVIOUS
<1>1. ASSUME NEW r \in Ranks PROVE DOMAIN Sent(r) = {}
  <2>1. order[r] = <<>> /\ wire[r] = <<>>
    BY DEF GroupInit
  <2> QED BY <2>1 DEF Sent
<1>2. WiresRemote
  BY TwoRanks DEF GroupInit, WiresRemote
<1> QED BY <1>1, <1>2, TwoRanks DEF OrderInv, SentWasMade, CurrentIsLast, SentAlike

\* A new call was sent to nobody.
LEMMA SubmitOrder ==
    ASSUME PermitInv, OrderInv, NEW c \in Clients, Submit(c)
    PROVE  OrderInv'
<1>1. GroupTypeOK /\ LockInv
  BY DEF PermitInv
<1>2. client[c].calls \in Nat
  BY <1>1, ClientRecord
<1>3. PICK n \in Nat : n = client[c].calls + 1
  BY <1>2
<1>4. client' = [client EXCEPT ![c] = [at |-> "reserve", calls |-> n, rank |-> 0]]
  BY <1>3 DEF Submit
<1>5. /\ client'[c].at = "reserve" /\ client'[c].calls = n
      /\ \A x \in Clients : x # c => client'[x] = client[x]
  BY <1>1, <1>4, TwoRanks, ClientStep
<1>6. UNCHANGED <<mode, wire, order>> /\ lock = {}
  BY DEF Submit
<1>7. (\A r \in Ranks : Sent(r)' = Sent(r)) /\ WiresRemote'
  BY <1>6 DEF Sent, OrderInv, WiresRemote, LocalRanks
<1>8. \A x \in Clients : client[x].calls \in Nat /\ client'[x].calls \in Nat /\ client'[x].calls >= client[x].calls
  <2> TAKE x \in Clients
  <2>1. client[x].calls \in Nat
    BY <1>1, ClientRecord
  <2> QED BY <1>3, <1>5, <2>1
<1>9. \A x \in Clients : Submitting(x)' => x = c
  BY <1>1, <1>5, <1>6 DEF LockInv, Submitting
<1>10. \A r \in Ranks : \A i \in DOMAIN Sent(r) : Sent(r)[i] # Current(c)'
  <2> SUFFICES ASSUME NEW r \in Ranks, NEW i \in DOMAIN Sent(r), Sent(r)[i] = <<c, n>> PROVE FALSE
    BY <1>5 DEF Current
  <2>1. n <= client[c].calls
    BY DEF OrderInv, SentWasMade
  <2> QED BY <1>2, <1>3, <2>1
<1> QED BY <1>1, <1>7, <1>8, <1>9, <1>10, NothingSent

\* A step of a call that sends nothing, up to its first send or when it ends.
LEMMA CallOrder ==
    ASSUME PermitInv, OrderInv, NEW c \in Clients, NEW a \in {"idle", "reserve", "send", "stream"},
           NEW k \in Ranks, Move(c, a, k), UNCHANGED <<mode, wire, order>>,
           a \in {"reserve", "send"} => client[c].at = "reserve"
    PROVE  OrderInv'
<1>1. GroupTypeOK /\ LockInv
  BY DEF PermitInv
<1>2. /\ client'[c].at = a /\ client'[c].calls = client[c].calls
      /\ \A x \in Clients : x # c => client'[x] = client[x]
  BY <1>1, MoveStep
<1>3. (\A r \in Ranks : Sent(r)' = Sent(r)) /\ WiresRemote'
  BY DEF Sent, OrderInv, WiresRemote, LocalRanks
<1>4. \A x \in Clients : client[x].calls \in Nat /\ client'[x].calls \in Nat /\ client'[x].calls >= client[x].calls
  <2> TAKE x \in Clients
  <2>1. client[x].calls \in Nat
    BY <1>1, ClientRecord
  <2> QED BY <1>2, <2>1
<1>5. ASSUME NEW x \in Clients, Submitting(x)', NEW r \in Ranks, NEW i \in DOMAIN Sent(r), Sent(r)[i] = Current(x)'
      PROVE  ~Unsent(x, r)' /\ i = Len(Sent(r))
  <2>1. Current(x)' = Current(x)
    BY <1>2 DEF Current
  <2>2. CASE x = c
    <3>1. client[c].at = "reserve"
      BY <1>2, <1>5, <2>2 DEF Submitting
    <3>2. Submitting(c) /\ Unsent(c, r)
      BY <3>1 DEF Submitting, Unsent
    <3> QED BY <1>5, <2>1, <2>2, <3>2 DEF OrderInv, CurrentIsLast
  <2>3. CASE x # c
    <3>1. Submitting(x) /\ (Unsent(x, r)' <=> Unsent(x, r))
      BY <1>2, <1>5, <2>3 DEF Submitting, Unsent
    <3> QED BY <1>5, <2>1, <3>1 DEF OrderInv, CurrentIsLast
  <2> QED BY <2>2, <2>3
<1> QED BY <1>1, <1>3, <1>4, <1>5, NothingSent

\* Requests that move from the stream to the queue are sent already.
LEMMA SameClientsOrder ==
    ASSUME PermitInv, OrderInv, UNCHANGED <<mode, client>>, \A r \in Ranks : Sent(r)' = Sent(r), WiresRemote'
    PROVE  OrderInv'
<1>1. GroupTypeOK
  BY DEF PermitInv
<1>2. \A x \in Clients : client[x].calls \in Nat /\ client'[x].calls \in Nat /\ client'[x].calls >= client[x].calls
  <2> TAKE x \in Clients
  <2>1. client[x].calls \in Nat
    BY <1>1, ClientRecord
  <2> QED BY <2>1
<1>3. \A c \in Clients : Submitting(c)' =>
               \A r \in Ranks : \A i \in DOMAIN Sent(r) :
                   Sent(r)[i] = Current(c)' => ~Unsent(c, r)' /\ i = Len(Sent(r))
  BY DEF OrderInv, CurrentIsLast, Submitting, Unsent, Current
<1> QED BY <1>1, <1>2, <1>3, NothingSent

\* Sending to a queue without a stream, or to a stream, adds at the end.
LEMMA ConcatAppend ==
    ASSUME NEW S, NEW o \in Seq(S), NEW w \in Seq(S), NEW q \in S
    PROVE  /\ o \o Append(w, q) = Append(o \o w, q)
           /\ w = <<>> => Append(o, q) \o w = Append(o \o w, q)
<1>1. Append(w, q) = w \o <<q>> /\ Append(o \o w, q) = (o \o w) \o <<q>> /\ <<q>> \in Seq(S)
  <2>1. o \o w \in Seq(S)
    BY ConcatProperties
  <2> QED BY <2>1, AppendIsConcat
<1>2. o \o Append(w, q) = Append(o \o w, q)
  BY <1>1, ConcatAssociative
<1>3. ASSUME w = <<>> PROVE Append(o, q) \o w = Append(o \o w, q)
  <2>1. Append(o, q) \in Seq(S)
    BY AppendProperties
  <2> QED BY <1>3, <2>1, ConcatEmptySeq
<1> QED BY <1>2, <1>3

\* The relay thread moves the head of the stream to the end of the queue, or
\* loses it.
LEMMA StreamHead ==
    ASSUME NEW S, NEW o \in Seq(S), NEW w \in Seq(S), w # <<>>
    PROVE  /\ Append(o, Head(w)) \o Tail(w) = o \o w
           /\ o \o Tail(w) \in Seq(S) /\ Len(o \o Tail(w)) = Len(o \o w) - 1
           /\ \A i \in 1..Len(o \o Tail(w)) : (o \o Tail(w))[i] = IF i <= Len(o) THEN (o \o w)[i] ELSE (o \o w)[i + 1]
<1>1. PICK h \in S, t \in Seq(S) : h = Head(w) /\ t = Tail(w)
  BY HeadTailProperties
<1>2. Len(o) \in Nat /\ Len(w) \in Nat /\ Len(w) > 0 /\ Len(t) = Len(w) - 1 /\ \A i \in 1..Len(t) : t[i] = w[i + 1]
  BY <1>1, LenProperties, HeadTailProperties, EmptySeq
<1>3. h = w[1]
  BY <1>1, <1>2
<1>4. PICK u \in Seq(S) : u = Append(o, h)
  BY AppendProperties
<1>5. Len(u) = Len(o) + 1 /\ (\A i \in 1..Len(o) : u[i] = o[i]) /\ u[Len(o) + 1] = h
  BY <1>4, AppendProperties
<1>6. PICK v \in Seq(S) : v = o \o w
  BY ConcatProperties
<1>7. Len(v) = Len(o) + Len(w) /\ \A i \in 1..Len(o) + Len(w) : v[i] = IF i <= Len(o) THEN o[i] ELSE w[i - Len(o)]
  BY <1>6, ConcatProperties
<1>8. PICK x \in Seq(S) : x = u \o t
  BY ConcatProperties
<1>9. Len(x) = Len(u) + Len(t) /\ \A i \in 1..Len(u) + Len(t) : x[i] = IF i <= Len(u) THEN u[i] ELSE t[i - Len(u)]
  BY <1>8, ConcatProperties
<1>10. x = v
  <2>1. Len(x) = Len(v)
    BY <1>2, <1>5, <1>7, <1>9
  <2>2. ASSUME NEW i \in 1..Len(x) PROVE x[i] = v[i]
    <3>1. CASE i <= Len(o)
      BY <1>2, <1>5, <1>7, <1>9, <2>1, <3>1
    <3>2. CASE i = Len(o) + 1
      BY <1>2, <1>3, <1>5, <1>7, <1>9, <2>1, <3>2
    <3>3. CASE i > Len(o) + 1
      <4>0. Len(o) \in Nat /\ Len(t) \in Nat /\ Len(u) = Len(o) + 1 /\ Len(x) = Len(u) + Len(t)
        BY <1>2, <1>5, <1>9
      <4>1. PICK j \in 1..Len(t) : j = i - Len(u)
        <5>1. i - Len(u) \in 1..Len(t)
          BY <3>3, <4>0
        <5> QED BY <5>1
      <4>2. x[i] = t[j] /\ t[j] = w[j + 1]
        <5>1. i \in 1..Len(u) + Len(t) /\ ~(i <= Len(u))
          BY <3>3, <4>0
        <5>2. x[i] = t[i - Len(u)]
          BY <1>9, <5>1
        <5> QED BY <1>2, <4>1, <5>2
      <4>3. j + 1 = i - Len(o)
        BY <1>2, <1>5, <4>1
      <4>4. v[i] = w[i - Len(o)]
        BY <1>2, <1>7, <2>1, <3>3
      <4> QED BY <4>2, <4>3, <4>4
    <3> QED BY <1>2, <3>1, <3>2, <3>3
  <2> QED BY <2>1, <2>2, SeqEqual
<1>11. PICK y \in Seq(S) : y = o \o t
  BY ConcatProperties
<1>12. Len(y) = Len(o) + Len(t) /\ \A i \in 1..Len(o) + Len(t) : y[i] = IF i <= Len(o) THEN o[i] ELSE t[i - Len(o)]
  BY <1>11, ConcatProperties
<1>13. ASSUME NEW i \in 1..Len(y) PROVE y[i] = IF i <= Len(o) THEN v[i] ELSE v[i + 1]
  <2>1. CASE i <= Len(o)
    BY <1>2, <1>7, <1>12, <2>1
  <2>2. CASE i > Len(o)
    <3>1. PICK j \in 1..Len(t) : j = i - Len(o)
      <4>1. Len(o) \in Nat /\ Len(t) \in Nat /\ i \in 1..Len(o) + Len(t)
        BY <1>2, <1>12
      <4>2. i - Len(o) \in 1..Len(t)
        BY <2>2, <4>1
      <4> QED BY <4>2
    <3>2. y[i] = t[j] /\ t[j] = w[j + 1]
      <4>1. i \in 1..Len(o) + Len(t) /\ ~(i <= Len(o))
        BY <1>2, <1>12, <2>2
      <4>2. y[i] = t[i - Len(o)]
        BY <1>12, <4>1
      <4> QED BY <1>2, <3>1, <4>2
    <3>3. v[i + 1] = w[(i + 1) - Len(o)]
      BY <1>2, <1>7, <1>12, <2>2
    <3>4. (i + 1) - Len(o) = j + 1
      BY <1>2, <3>1
    <3> QED BY <1>2, <2>2, <3>2, <3>3, <3>4
  <2> QED BY <1>2, <2>1, <2>2
<1>14. Len(y) = Len(v) - 1
  BY <1>2, <1>7, <1>12
<1> QED BY <1>1, <1>4, <1>6, <1>8, <1>10, <1>11, <1>13, <1>14, Zenon

\* A send goes to a rank the call was not sent to, and nobody else's turn.
LEMMA SendNext ==
    ASSUME GroupTypeOK, NEW c \in Clients, NEW r \in Ranks, NEW k \in Ranks, mode' = mode,
           client[c].at = "send", client[c].rank = r, client'[c].at = "send", client'[c].rank = k,
           r # IF mode = "threads" THEN NumRanks - 1 ELSE 0,
           k = IF r + 1 \in Ranks THEN r + 1 ELSE 0
    PROVE  \A x \in Ranks : Unsent(c, x)' <=> Unsent(c, x) /\ x # r
<1> TAKE x \in Ranks
<1>1. CASE mode = "threads"
  <2>1. k = r + 1
    BY <1>1, GroupAssumption DEF Ranks
  <2> QED BY <1>1, <2>1 DEF Unsent, Ranks
<1>2. CASE mode = "relay"
  <2>1. r # 0
    BY <1>2
  <2>2. Unsent(c, x) <=> x = 0 \/ x >= r
    BY <1>2, <2>1 DEF Unsent
  <2>3. Unsent(c, x)' <=> x = 0 \/ (k # 0 /\ x >= k)
    BY <1>2 DEF Unsent
  <2> QED BY <2>1, <2>2, <2>3, GroupAssumption DEF Ranks
<1> QED BY <1>1, <1>2 DEF GroupTypeOK

\* A send puts the call after everything its rank was sent before.
LEMMA SendOrder ==
    ASSUME PermitInv, OrderInv, NEW c \in Clients, Send(c)
    PROVE  OrderInv'
<1>1. GroupTypeOK /\ LockInv
  BY DEF PermitInv
<1>2. PICK r : r = client[c].rank
  OBVIOUS
<1>3. r \in Ranks /\ client[c].at = "send" /\ lock = {c} /\ Current(c) \in Calls
  BY <1>1, <1>2, SendMoves
<1>4. PICK a \in {"send", "stream"}, k \in Ranks :
        /\ a = "stream" <=> r = IF mode = "threads" THEN NumRanks - 1 ELSE 0
        /\ a = "send" => k = IF r + 1 \in Ranks THEN r + 1 ELSE 0
        /\ Move(c, a, k) /\ lock' = IF a = "stream" THEN {} ELSE {c}
  BY <1>1, <1>2, SendMoves
<1>5. /\ client'[c].at = a /\ client'[c].rank = k /\ client'[c].calls = client[c].calls
      /\ \A x \in Clients : x # c => client'[x] = client[x]
  BY <1>1, <1>4, MoveStep
<1>6. PICK q \in Calls : q = Current(c)
  BY <1>3
<1>7. mode' = mode
      /\ IF r \in LocalRanks
         THEN order' = [order EXCEPT ![r] = Append(@, q)] /\ wire' = wire
         ELSE wire' = [wire EXCEPT ![r] = Append(@, q)] /\ order' = order
  BY <1>2, <1>6 DEF Send
<1>8. \A x \in Ranks : order[x] \in Seq(Calls) /\ wire[x] \in Seq(Calls)
  BY <1>1 DEF GroupTypeOK
<1>9. Sent(r)' = Append(Sent(r), q) /\ \A x \in Ranks : x # r => Sent(x)' = Sent(x)
  <2>1. CASE r \in LocalRanks
    <3>1. order'[r] = Append(order[r], q) /\ wire'[r] = wire[r] /\ wire[r] = <<>>
      BY <1>1, <1>3, <1>7, <2>1 DEF GroupTypeOK, OrderInv, WiresRemote
    <3>2. Append(order[r], q) \o wire[r] = Append(order[r] \o wire[r], q)
      BY <1>3, <1>8, <3>1, ConcatAppend
    <3>3. \A x \in Ranks : x # r => order'[x] = order[x] /\ wire'[x] = wire[x]
      BY <1>1, <1>7, <2>1 DEF GroupTypeOK
    <3> QED BY <3>1, <3>2, <3>3 DEF Sent
  <2>2. CASE r \notin LocalRanks
    <3>1. wire'[r] = Append(wire[r], q) /\ order'[r] = order[r]
      BY <1>1, <1>3, <1>7, <2>2 DEF GroupTypeOK
    <3>2. order[r] \o Append(wire[r], q) = Append(order[r] \o wire[r], q)
      <4>1. order[r] \in Seq(Calls) /\ wire[r] \in Seq(Calls)
        BY <1>3, <1>8
      <4>2. PICK o, w \in Seq(Calls) : o = order[r] /\ w = wire[r]
        BY <4>1
      <4>3. o \o Append(w, q) = Append(o \o w, q)
        BY ConcatAppend
      <4> QED BY <4>2, <4>3
    <3>3. \A x \in Ranks : x # r => order'[x] = order[x] /\ wire'[x] = wire[x]
      BY <1>1, <1>7, <2>2 DEF GroupTypeOK
    <3> QED BY <3>1, <3>2, <3>3 DEF Sent
  <2> QED BY <2>1, <2>2
<1>10. PICK S, S2 : S = [x \in Ranks |-> Sent(x)] /\ S2 = [x \in Ranks |-> Sent(x)']
  OBVIOUS
<1>11. /\ \A x \in Ranks : S[x] = Sent(x) /\ S2[x] = Sent(x)'
       /\ \A x \in Ranks : S[x] \in Seq(Calls) /\ Len(S[x]) \in Nat /\ DOMAIN S[x] = 1..Len(S[x])
       /\ \A x \in Ranks : x # r => S2[x] = S[x]
  BY <1>1, <1>9, <1>10, SentTyped
<1>12. /\ S2[r] \in Seq(Calls) /\ Len(S2[r]) = Len(S[r]) + 1 /\ DOMAIN S2[r] = 1..Len(S[r]) + 1
       /\ (\A i \in 1..Len(S[r]) : S2[r][i] = S[r][i]) /\ S2[r][Len(S[r]) + 1] = q
  <2>1. S2[r] = Append(S[r], q)
    BY <1>3, <1>9, <1>11
  <2> QED BY <1>3, <1>11, <2>1, AppendProperties, LenProperties
<1>13. \A x \in Ranks : \A i \in 1..Len(S[x]) : S[x][i] = q => ~Unsent(c, x) /\ i = Len(S[x])
  BY <1>3, <1>6, <1>11 DEF OrderInv, CurrentIsLast, Submitting
<1>14. Unsent(c, r) /\ \A i \in 1..Len(S[r]) : S[r][i] # q
  <2>1. Unsent(c, r)
    BY <1>1, <1>2, <1>3 DEF Unsent, GroupTypeOK, Ranks
  <2> QED BY <1>3, <1>13, <2>1
<1>15. WiresRemote'
  <2>1. LocalRanks' = LocalRanks /\ \A x \in LocalRanks : wire[x] = <<>>
    BY <1>7 DEF LocalRanks, OrderInv, WiresRemote
  <2>2. ASSUME NEW x \in LocalRanks PROVE wire'[x] = wire[x]
    <3>1. x \in Ranks
      BY TwoRanks
    <3> QED BY <1>1, <1>7, <3>1 DEF GroupTypeOK
  <2> QED BY <2>1, <2>2 DEF WiresRemote
<1>16. SentWasMade'
  <2> SUFFICES ASSUME NEW x \in Ranks, NEW i \in DOMAIN S2[x]
               PROVE  S2[x][i][2] <= client'[S2[x][i][1]].calls
    BY <1>11 DEF SentWasMade
  <2>1. \A y \in Clients : client'[y].calls = client[y].calls /\ client[y].calls \in Nat
    BY <1>1, <1>5, ClientRecord
  <2>2. ASSUME NEW j \in DOMAIN S[x] PROVE S[x][j][2] <= client'[S[x][j][1]].calls
    <3>1. S[x][j] \in Calls
      BY <1>1, <1>11, SentTyped
    <3>2. S[x][j][2] <= client[S[x][j][1]].calls
      BY <1>11 DEF OrderInv, SentWasMade
    <3> QED BY <2>1, <3>1, <3>2 DEF Calls
  <2>3. q[1] = c /\ q[2] = client[c].calls
    BY <1>6 DEF Current
  <2>4. CASE x # r
    BY <1>11, <2>2, <2>4
  <2>5. CASE x = r
    <3>1. CASE i = Len(S[r]) + 1
      <4>1. S2[x][i] = q
        BY <1>12, <2>5, <3>1
      <4> QED BY <2>1, <2>3, <4>1
    <3>2. CASE i \in 1..Len(S[r])
      <4>1. S2[x][i] = S[x][i] /\ i \in DOMAIN S[x]
        BY <1>3, <1>11, <1>12, <2>5, <3>2
      <4> QED BY <2>2, <4>1
    <3>3. Len(S[r]) \in Nat
      BY <1>3, <1>11
    <3> QED BY <1>12, <2>5, <3>1, <3>2, <3>3
  <2> QED BY <2>4, <2>5
<1>17. CurrentIsLast'
  <2> SUFFICES ASSUME NEW y \in Clients, Submitting(y)', NEW x \in Ranks, NEW i \in DOMAIN S2[x], S2[x][i] = Current(y)'
               PROVE  ~Unsent(y, x)' /\ i = Len(S2[x])
    BY <1>11 DEF CurrentIsLast
  <2>1. y = c /\ a = "send"
    BY <1>1, <1>3, <1>5 DEF LockInv, Submitting
  <2>2. Current(y)' = q
    BY <1>5, <1>6, <2>1 DEF Current
  <2>3. \A z \in Ranks : Unsent(c, z)' <=> Unsent(c, z) /\ z # r
    BY <1>1, <1>2, <1>3, <1>4, <1>5, <1>7, <2>1, SendNext
  <2>4. CASE x # r
    BY <1>11, <1>13, <2>1, <2>2, <2>3, <2>4
  <2>5. CASE x = r
    BY <1>3, <1>11, <1>12, <1>14, <2>1, <2>2, <2>3, <2>5
  <2> QED BY <2>4, <2>5
<1>18. SentAlike'
  <2> SUFFICES ASSUME NEW y \in Ranks \ {0}, NEW i \in DOMAIN S2[0], NEW j \in DOMAIN S2[0],
                      NEW m \in DOMAIN S2[y], NEW l \in DOMAIN S2[y],
                      i < j, S2[0][i] = S2[y][m], S2[0][j] = S2[y][l]
               PROVE  m < l
    <3>1. (\A x \in Ranks : S2[x] = Sent(x)') /\ 0 \in Ranks
      BY <1>11, TwoRanks
    <3> QED BY <3>1 DEF SentAlike
  <2>1. \A e, f \in DOMAIN S[0], g, h \in DOMAIN S[y] :
            e < f /\ S[0][e] = S[y][g] /\ S[0][f] = S[y][h] => g < h
    BY <1>11, TwoRanks DEF OrderInv, SentAlike
  <2>2. 0 \in Ranks
    BY TwoRanks
  <2>3. CASE r = 0
    <3>1. S2[y] = S[y] /\ DOMAIN S[y] = 1..Len(S[y]) /\ Len(S[y]) \in Nat /\ Len(S[0]) \in Nat
      BY <1>11, <2>2, <2>3
    <3>2. i \in 1..Len(S[0]) /\ S2[0][i] = S[0][i]
      <4>1. i \in 1..Len(S[0]) + 1 /\ j \in 1..Len(S[0]) + 1
        BY <1>12, <2>3
      <4>2. i \in 1..Len(S[0])
        BY <3>1, <4>1
      <4> QED BY <1>12, <2>3, <4>2
    <3>3. CASE j \in 1..Len(S[0])
      BY <1>11, <1>12, <2>1, <2>2, <2>3, <3>1, <3>2, <3>3
    <3>4. CASE j = Len(S[0]) + 1
      <4>1. l = Len(S[y])
        BY <1>12, <1>13, <2>3, <3>1, <3>4
      <4>2. S[y][m] # q
        BY <1>14, <2>3, <3>1, <3>2
      <4>3. S[y][l] = q
        BY <1>12, <2>3, <3>1, <3>4
      <4> QED BY <3>1, <4>1, <4>2, <4>3
    <3> QED BY <1>12, <2>3, <3>1, <3>3, <3>4
  <2>4. CASE r # 0 /\ y # r
    BY <1>11, <2>1, <2>2, <2>4
  <2>5. CASE r # 0 /\ y = r
    <3>1. S2[0] = S[0] /\ DOMAIN S[0] = 1..Len(S[0]) /\ Len(S[y]) \in Nat /\ Len(S[0]) \in Nat /\ DOMAIN S[y] = 1..Len(S[y])
      BY <1>11, <2>2, <2>5
    <3>2. m # Len(S[y]) + 1
      <4> SUFFICES ASSUME m = Len(S[y]) + 1 PROVE FALSE
        OBVIOUS
      <4>1. S[0][i] = q
        BY <1>12, <2>5, <3>1
      <4>2. i = Len(S[0])
        BY <1>13, <2>2, <3>1, <4>1
      <4> QED BY <3>1, <4>2
    <3>3. m \in 1..Len(S[y]) /\ S2[y][m] = S[y][m]
      <4>1. m \in 1..Len(S[y]) + 1
        BY <1>12, <2>5
      <4>2. m \in 1..Len(S[y])
        BY <3>1, <3>2, <4>1
      <4> QED BY <1>12, <2>5, <4>2
    <3>4. CASE l = Len(S[y]) + 1
      BY <3>1, <3>3, <3>4
    <3>5. CASE l \in 1..Len(S[y])
      <4>1. S2[y][l] = S[y][l]
        BY <1>12, <2>5, <3>5
      <4> QED BY <2>1, <3>1, <3>3, <3>5, <4>1
    <3> QED BY <1>12, <2>5, <3>1, <3>4, <3>5
  <2> QED BY <2>3, <2>4, <2>5
<1> QED BY <1>15, <1>16, <1>17, <1>18 DEF OrderInv

\* The relay thread queues the next request, or loses it: what is left keeps its
\* order.
LEMMA RelayOrder ==
    ASSUME PermitInv, OrderInv, NEW r \in Ranks, RelayReceive(r)
    PROVE  OrderInv'
<1>1. GroupTypeOK /\ LockInv
  BY DEF PermitInv
<1>2. UNCHANGED <<mode, client>> /\ wire' = [wire EXCEPT ![r] = Tail(@)] /\ wire[r] # <<>>
  BY DEF RelayReceive
<1>3. PICK o, w \in Seq(Calls) : o = order[r] /\ w = wire[r]
  BY <1>1 DEF GroupTypeOK
<1>4. r # 0 /\ r \notin LocalRanks /\ 0 \in Ranks
  BY <1>2, TwoRanks DEF OrderInv, WiresRemote
<1>5. wire'[r] = Tail(w) /\ \A x \in Ranks : x # r => wire'[x] = wire[x]
  BY <1>1, <1>2, <1>3 DEF GroupTypeOK
<1>6. WiresRemote'
  <2>1. LocalRanks' = LocalRanks /\ \A x \in LocalRanks : wire[x] = <<>>
    BY <1>2 DEF LocalRanks, OrderInv, WiresRemote
  <2>2. \A x \in LocalRanks : x \in Ranks /\ x # r
    BY <1>4, TwoRanks
  <2> QED BY <1>5, <2>1, <2>2 DEF WiresRemote
<1>7. CASE order' = [order EXCEPT ![r] = Append(@, Head(w))]
  <2>1. order'[r] = Append(o, Head(w)) /\ \A x \in Ranks : x # r => order'[x] = order[x]
    BY <1>1, <1>3, <1>7 DEF GroupTypeOK
  <2>2. Append(o, Head(w)) \o Tail(w) = o \o w
    <3>1. w # <<>>
      BY <1>2, <1>3
    <3> QED BY <3>1, StreamHead, Zenon
  <2>3. \A x \in Ranks : Sent(x)' = Sent(x)
    BY <1>3, <1>5, <2>1, <2>2 DEF Sent
  <2> QED BY <1>2, <1>6, <2>3, SameClientsOrder
<1>8. CASE order' = order
  <2>1. \A x \in Ranks : x # r => Sent(x)' = Sent(x)
    BY <1>5, <1>8 DEF Sent
  <2>2. Sent(r) = o \o w /\ Sent(r)' = o \o Tail(w)
    BY <1>3, <1>5, <1>8 DEF Sent
  <2>3. PICK v, y \in Seq(Calls) : v = o \o w /\ y = o \o Tail(w)
    BY <1>2, <1>3, StreamHead, ConcatProperties
  <2>4. /\ Len(v) \in Nat /\ Len(o) \in Nat /\ Len(y) = Len(v) - 1 /\ Len(o) < Len(v)
        /\ \A i \in 1..Len(y) : y[i] = IF i <= Len(o) THEN v[i] ELSE v[i + 1]
    <3>1. Len(y) = Len(v) - 1 /\ \A i \in 1..Len(y) : y[i] = IF i <= Len(o) THEN v[i] ELSE v[i + 1]
      <4>1. w # <<>>
        BY <1>2, <1>3
      <4>2. /\ Len(o \o Tail(w)) = Len(o \o w) - 1
            /\ \A i \in 1..Len(o \o Tail(w)) : (o \o Tail(w))[i] = IF i <= Len(o) THEN (o \o w)[i] ELSE (o \o w)[i + 1]
        BY <4>1, StreamHead, Zenon
      <4> QED BY <2>3, <4>2, Zenon
    <3>2. Len(v) = Len(o) + Len(w) /\ Len(o) \in Nat /\ Len(w) \in Nat /\ Len(w) # 0
      BY <1>2, <1>3, <2>3, ConcatProperties, LenProperties, EmptySeq
    <3> QED BY <3>1, <3>2
  <2>5. DOMAIN v = 1..Len(v) /\ DOMAIN y = 1..Len(y)
    BY LenProperties
  <2>6. PICK old \in [1..Len(y) -> 1..Len(v)] :
          /\ \A i \in 1..Len(y) : y[i] = v[old[i]]
          /\ \A i, j \in 1..Len(y) : old[i] < old[j] => i < j
          /\ \A i \in 1..Len(y) : old[i] = Len(v) => i = Len(y)
    <3>1. PICK f : f = [i \in 1..Len(y) |-> IF i <= Len(o) THEN i ELSE i + 1]
      OBVIOUS
    <3>2. f \in [1..Len(y) -> 1..Len(v)]
      BY <2>4, <3>1
    <3>3. \A i \in 1..Len(y) : y[i] = v[f[i]]
      BY <2>4, <3>1
    <3>4. \A i, j \in 1..Len(y) : f[i] < f[j] => i < j
      BY <2>4, <3>1
    <3>5. \A i \in 1..Len(y) : f[i] = Len(v) => i = Len(y)
      BY <2>4, <3>1
    <3> QED BY <3>2, <3>3, <3>4, <3>5
  <2>7. SentWasMade'
    <3> SUFFICES ASSUME NEW x \in Ranks, NEW i \in DOMAIN Sent(x)'
                 PROVE  Sent(x)'[i][2] <= client[Sent(x)'[i][1]].calls
      BY <1>2 DEF SentWasMade
    <3>1. CASE x # r
      BY <2>1, <3>1 DEF OrderInv, SentWasMade
    <3>2. CASE x = r
      <4>1. i \in 1..Len(y) /\ Sent(x)'[i] = v[old[i]] /\ old[i] \in DOMAIN Sent(r)
        BY <2>2, <2>3, <2>5, <2>6, <3>2
      <4>2. v[old[i]][2] <= client[v[old[i]][1]].calls
        BY <2>2, <2>3, <4>1 DEF OrderInv, SentWasMade
      <4> QED BY <4>1, <4>2
    <3> QED BY <3>1, <3>2
  <2>8. CurrentIsLast'
    <3> SUFFICES ASSUME NEW c \in Clients, Submitting(c), NEW x \in Ranks, NEW i \in DOMAIN Sent(x)',
                        Sent(x)'[i] = Current(c)
                 PROVE  ~Unsent(c, x) /\ i = Len(Sent(x)')
      BY <1>2 DEF CurrentIsLast, Submitting, Current, Unsent
    <3>1. CASE x # r
      BY <2>1, <3>1 DEF OrderInv, CurrentIsLast
    <3>2. CASE x = r
      <4>1. i \in 1..Len(y) /\ v[old[i]] = Current(c) /\ old[i] \in DOMAIN Sent(r)
        BY <2>2, <2>3, <2>5, <2>6, <3>2
      <4>2. ~Unsent(c, r) /\ old[i] = Len(v)
        BY <2>2, <2>3, <4>1 DEF OrderInv, CurrentIsLast
      <4> QED BY <2>2, <2>3, <2>6, <3>2, <4>1, <4>2
    <3> QED BY <3>1, <3>2
  <2>9. SentAlike'
    <3> SUFFICES ASSUME NEW x \in Ranks \ {0}, NEW i \in DOMAIN Sent(0), NEW j \in DOMAIN Sent(0),
                        NEW m \in DOMAIN Sent(x)', NEW l \in DOMAIN Sent(x)',
                        i < j, Sent(0)[i] = Sent(x)'[m], Sent(0)[j] = Sent(x)'[l]
                 PROVE  m < l
      <4>1. Sent(0)' = Sent(0)
        BY <1>4, <2>1
      <4> QED BY <4>1 DEF SentAlike
    <3>1. CASE x # r
      BY <2>1, <3>1 DEF OrderInv, SentAlike
    <3>2. CASE x = r
      <4>1. m \in 1..Len(y) /\ l \in 1..Len(y) /\ Sent(0)[i] = v[old[m]] /\ Sent(0)[j] = v[old[l]]
        BY <2>2, <2>3, <2>5, <2>6, <3>2
      <4>2. old[m] \in DOMAIN v /\ old[l] \in DOMAIN v
        BY <2>5, <2>6, <4>1
      <4>3. old[m] < old[l]
        BY <1>4, <2>2, <2>3, <4>1, <4>2 DEF OrderInv, SentAlike
      <4> QED BY <2>6, <4>1, <4>3
    <3> QED BY <3>1, <3>2
  <2> QED BY <1>6, <2>7, <2>8, <2>9 DEF OrderInv
<1> QED BY <1>3, <1>7, <1>8 DEF RelayReceive

\* Every step keeps the order.
LEMMA NextOrderInv == PermitInv /\ OrderInv /\ [GroupNext]_allGroupVars => OrderInv'
<1> SUFFICES ASSUME PermitInv, OrderInv, [GroupNext]_allGroupVars PROVE OrderInv'
  OBVIOUS
<1>1. ASSUME UNCHANGED <<mode, client, wire, order>> PROVE OrderInv'
  <2>1. (\A r \in Ranks : Sent(r)' = Sent(r)) /\ WiresRemote'
    BY <1>1 DEF Sent, OrderInv, WiresRemote, LocalRanks
  <2> QED BY <1>1, <2>1, SameClientsOrder
<1>2. ASSUME NEW c \in Clients, Reserve(c) PROVE OrderInv'
  <2>1. client[c].at = "reserve" /\ UNCHANGED <<mode, wire, order>>
    BY <1>2 DEF Reserve
  <2>2. \E a \in {"reserve", "send"}, k \in Ranks : Move(c, a, k)
    BY <1>2, TwoRanks DEF Reserve
  <2> QED BY <2>1, <2>2, CallOrder
<1>3. ASSUME NEW c \in Clients, Full(c) \/ BroadcastFails(c) \/ StreamEnds(c) \/ HangUp(c) PROVE OrderInv'
  <2>1. UNCHANGED <<mode, wire, order>> /\ Move(c, "idle", 0)
    BY <1>3 DEF Full, BroadcastFails, StreamEnds, HangUp, GiveUp
  <2> QED BY <2>1, TwoRanks, CallOrder
<1>4. ASSUME NEW r \in Ranks, Drain(r) PROVE OrderInv'
  BY <1>1, <1>4 DEF Drain, groupVars
<1>5. ASSUME UNCHANGED submitVars PROVE OrderInv'
  BY <1>1, <1>5 DEF submitVars
<1> QED BY <1>2, <1>3, <1>4, <1>5, SubmitOrder, SendOrder, RelayOrder, SchedulersApart
        DEF GroupNext, RankStep, CallStep

\* submission_lock (request_handle.rs:97), for every number of clients, ranks and
\* requests, with threads and with a relay that fails or loses requests: two
\* requests that reach two ranks are queued in the same order on both.
THEOREM SubmissionOrder == GroupSpec => []SameOrder
<1>1. PermitInv /\ OrderInv => SameOrder
  <2> SUFFICES ASSUME PermitInv, OrderInv, NEW r \in Ranks, NEW i \in DOMAIN order[0], NEW j \in DOMAIN order[0],
                      i < j, order[0][i] \in ToSet(order[r]), order[0][j] \in ToSet(order[r])
               PROVE  \E k, l \in DOMAIN order[r] : k < l /\ order[r][k] = order[0][i] /\ order[r][l] = order[0][j]
    BY DEF SameOrder
  <2>1. CASE r = 0
    BY <2>1
  <2>2. CASE r # 0
    <3>1. PICK k, l \in DOMAIN order[r] : order[r][k] = order[0][i] /\ order[r][l] = order[0][j]
      BY DEF ToSet
    <3>2. ASSUME NEW x \in Ranks, NEW n \in DOMAIN order[x]
          PROVE  n \in DOMAIN Sent(x) /\ Sent(x)[n] = order[x][n]
      <4>1. PICK o, w \in Seq(Calls) : o = order[x] /\ w = wire[x]
        BY DEF PermitInv, GroupTypeOK
      <4>2. PICK v \in Seq(Calls) : v = o \o w
        BY ConcatProperties
      <4>3. Len(v) = Len(o) + Len(w) /\ \A z \in 1..Len(o) + Len(w) : v[z] = IF z <= Len(o) THEN o[z] ELSE w[z - Len(o)]
        BY <4>2, ConcatProperties
      <4>4. Len(o) \in Nat /\ Len(w) \in Nat /\ n \in 1..Len(o) /\ DOMAIN v = 1..Len(v)
        BY <4>1, LenProperties
      <4>5. n \in 1..Len(v) /\ v[n] = o[n]
        BY <4>3, <4>4
      <4> QED BY <4>1, <4>2, <4>4, <4>5 DEF Sent
    <3>3. 0 \in Ranks
      BY TwoRanks
    <3>4. k < l
      BY <2>2, <3>1, <3>2, <3>3 DEF OrderInv, SentAlike
    <3> QED BY <3>1, <3>4
  <2> QED BY <2>1, <2>2
<1> QED BY <1>1, PermitInvAlways, InitOrderInv, NextOrderInv, PTL DEF GroupSpec
==============================================================================
