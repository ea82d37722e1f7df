------------------------------- MODULE MCServing -------------------------------
(***************************************************************************)
(* The engine pool and the rank group share no state: a behaviour          *)
(* exercises one of them, its part.  In part "group" there is room for     *)
(* every client, so that submissions overlap; in part "full" a handle      *)
(* takes one request at a time, so that reservations fail.                 *)
(***************************************************************************)
EXTENDS EnginePool, DistributedGroup

VARIABLE part

\* Any two of the first three fit in a budget of 4; c needs a and b gone, and
\* d is small and pinned.
MCModels == {"a", "b", "c", "d"}
MCEstimate == [m \in MCModels |-> CASE m = "a" -> 2 [] m = "b" -> 1 [] m = "c" -> 3 [] m = "d" -> 1]

Tight == INSTANCE DistributedGroup WITH MaxWaiting <- 1, MaxTokens <- 1, MaxPreempts <- 0

\* The mode is no matter to the pool.
ServingInit ==
    /\ part \in {"pool", "group", "full"}
    /\ PoolInit /\ GroupInit
    /\ part = "pool" => mode = "threads"

ServingNext ==
    /\ UNCHANGED part
    /\ \/ part = "pool" /\ PoolNext /\ UNCHANGED allGroupVars
       \/ part = "group" /\ GroupNext /\ UNCHANGED poolVars
       \/ part = "full" /\ Tight!GroupNext /\ UNCHANGED poolVars

ServingSpec == ServingInit /\ [][ServingNext]_<<poolVars, allGroupVars, part>>

Symmetry == Permutations(Leases) \cup Permutations(Words)
==============================================================================
