------------------------------ MODULE MCKvIndex ------------------------------
(***************************************************************************)
(* What finds KV blocks: the page tables decode attention reads, and the   *)
(* prefix tree.  They share no state, so a behaviour here exercises one of *)
(* them, its part.  update takes one set of shortcuts when a page holds    *)
(* one token and another when it holds several: part "metadata" has pages  *)
(* of PageSize tokens, part "tokenPages" has pages of one.                 *)
(***************************************************************************)
EXTENDS DecodeMetadata, MCRadixCache

CONSTANT MorePages   \* the pool of part "tokenPages" has these as well

VARIABLE part

OneToken == INSTANCE DecodeMetadata WITH
    Pages <- Pages \cup MorePages, PageSize <- 1, BlockSize <- 1,
    CrossSlotAttach <- FALSE, UploadMayFail <- FALSE

IndexInit ==
    /\ CacheInit
    /\ \/ part \in {"metadata", "cache"} /\ MetaInit
       \/ part = "tokenPages" /\ OneToken!MetaInit

IndexNext ==
    /\ UNCHANGED part
    /\ \/ part = "metadata" /\ MetaNext /\ UNCHANGED cacheVars
       \/ part = "tokenPages" /\ OneToken!MetaNext /\ UNCHANGED cacheVars
       \/ part = "cache" /\ CacheNext /\ UNCHANGED allVars

IndexSpec == IndexInit /\ [][IndexNext]_<<allVars, cacheVars, part>>

Symmetry == Permutations(Pages) \cup Permutations(Slots)

\* The rows of the pages do not influence which pages a slot has: states that
\* differ only in them are one state here.
View == <<poolVars, blockPages, metaVars, batch, dead, cacheVars, part>>
==============================================================================
