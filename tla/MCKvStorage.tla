----------------------------- MODULE MCKvStorage -----------------------------
(***************************************************************************)
(* Where KV blocks live: the page pool of the GPU and the arena, the block *)
(* files and the log of kv-native-sys.  They share no state, so a behaviour *)
(* here exercises one of them, its part.                                   *)
(***************************************************************************)
EXTENDS PagedKV, HostArena, DiskStore, Wal, TLC

VARIABLE part

MCFields == {<<>>, <<1>>, <<0, 2>>}

\* The choices open at the start are made for the part that depends on them.
StorageInit ==
    /\ part \in {"pool", "arena", "disk", "wal"}
    /\ Init /\ ArenaInit /\ DiskInit /\ WalInit
    /\ part /= "arena" => sizes = {2}
    /\ part /= "disk" => tier = "disk"

StorageNext ==
    /\ UNCHANGED part
    /\ \/ part = "pool" /\ Next /\ UNCHANGED <<arenaVars, diskVars, walVars>>
       \/ part = "arena" /\ ArenaNext /\ UNCHANGED <<vars, diskVars, walVars>>
       \/ part = "disk" /\ DiskNext /\ UNCHANGED <<vars, arenaVars, walVars>>
       \/ part = "wal" /\ WalNext /\ UNCHANGED <<vars, arenaVars, diskVars>>

StorageSpec ==
    StorageInit /\ [][StorageNext]_<<vars, arenaVars, diskVars, walVars, part>>

Symmetry == Permutations(Pages) \cup Permutations(Slots) \cup Permutations(Tokens)
==============================================================================
