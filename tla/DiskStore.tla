------------------------------ MODULE DiskStore ------------------------------
(***************************************************************************)
(* One block file of the disk tier: DiskStore::put_block_with_fsync        *)
(* (infer/src/kv_tier/transport/disk.rs) over write_file_atomic of         *)
(* kv-native-sys, as the coordinator uses it for the node-local tier (one  *)
(* process, no fsync) and for the shared-filesystem tier (several nodes,   *)
(* fsync, nothing written when the file exists).                           *)
(*                                                                         *)
(* The file system is external: two names, "tmp" and "kv", lead to inodes. *)
(* An open file stays the inode it was opened as.  Until a directory is    *)
(* synced a crash may leave any directory since the last sync; until a     *)
(* file is synced a crash may leave it as it was synced, as it is, or      *)
(* torn.  A write of the whole buffer is one step: it lands whole, or torn *)
(* when it fails.  Reads check the header and the length, so a torn or     *)
(* empty file is an error to them.                                         *)
(*                                                                         *)
(* D_Word is a faulty variant of the definition D that follows it.         *)
(***************************************************************************)
EXTENDS Naturals, FiniteSets

CONSTANTS
    Nodes,       \* processes that store the block
    LocalNode,   \* the one of the node-local tier
    MaxInodes,   \* bound: inodes in use at once
    MaxPuts,     \* bound: calls of put_block
    MaxFaults,   \* bound: failed writes
    MaxLosses    \* bound: crashes, kills, deletions and purges

ASSUME DiskAssumption ==
    LocalNode \in Nodes /\ MaxInodes \in Nat /\ MaxPuts \in Nat /\ MaxFaults \in Nat
    /\ MaxLosses \in Nat

VARIABLES
    tier,      \* "disk" or "shared": which backend the coordinator was given
    dir,       \* the directory: its existence and its two names, 0 if absent
    mayKeep,   \* directories since the last sync that a crash may leave
    content, synced,  \* what an inode holds, and what of it is on the medium
    pc, fd, tries, root_created,  \* per node
    stored,    \* nodes whose renamed file nobody removed since
    promised,  \* a synced put was acknowledged and not undone since
    overlap,   \* two puts of this block used the same staging file
    crashed,   \* the machine lost power
    puts, faults, losses

diskVars == <<tier, dir, mayKeep, content, synced, pc, fd, tries, root_created, stored,
              promised, overlap, crashed, puts, faults, losses>>

Inodes == 1..MaxInodes
Users == IF tier = "disk" THEN {LocalNode} ELSE Nodes
fsync_each_block == tier = "shared"

DiskInit ==
    /\ tier \in {"disk", "shared"}
    /\ dir = [root |-> FALSE, tmp |-> 0, kv |-> 0]
    /\ mayKeep = {}
    /\ content = [i \in Inodes |-> "empty"] /\ synced = content
    /\ pc = [n \in Nodes |-> "idle"] /\ fd = [n \in Nodes |-> 0]
    /\ tries = [n \in Nodes |-> 0] /\ root_created = [n \in Nodes |-> FALSE]
    /\ stored = {} /\ promised = FALSE /\ overlap = FALSE /\ crashed = FALSE
    /\ puts = 0 /\ faults = 0 /\ losses = 0

------------------------------------------------------------------------------
(* The file system *)

SetDir(d) == dir' = d /\ mayKeep' = IF d = dir THEN mayKeep ELSE mayKeep \cup {dir}

Used == {d.tmp : d \in mayKeep \cup {dir}} \cup {d.kv : d \in mayKeep \cup {dir}}
        \cup {fd[n] : n \in Nodes}
NewInode == CHOOSE i \in Inodes : i \notin Used

RemoveTmp == SetDir([dir EXCEPT !.tmp = 0])

Go(n, where) == pc' = [pc EXCEPT ![n] = where]
Done(n) == Go(n, "idle") /\ fd' = [fd EXCEPT ![n] = 0]
------------------------------------------------------------------------------
(* put_block_with_fsync *)

\* The coordinator stores a block: for the shared tier only if it is not there.
\* ensure_root_created looks at the directory once per process.
put_block(n) ==
    /\ pc[n] = "idle" /\ puts < MaxPuts
    /\ fsync_each_block => dir.kv = 0
    /\ SetDir([dir EXCEPT !.root = @ \/ ~root_created[n]])
    /\ root_created' = [root_created EXCEPT ![n] = TRUE]
    /\ Go(n, "open")
    /\ tries' = [tries EXCEPT ![n] = 0]
    /\ puts' = puts + 1
    /\ UNCHANGED <<tier, content, synced, fd, stored, promised, overlap, crashed, faults, losses>>

\* open(create, truncate) of "<path>.tmp"
open_tmp_InPlace(n) ==
    /\ pc[n] = "open" /\ dir.root
    /\ \E i \in {IF dir.kv /= 0 THEN dir.kv ELSE NewInode} :
          /\ fd' = [fd EXCEPT ![n] = i]
          /\ SetDir([dir EXCEPT !.kv = i, !.tmp = i])
          /\ content' = [content EXCEPT ![i] = "empty"]
          /\ synced' = IF dir.kv = i THEN synced ELSE [synced EXCEPT ![i] = "empty"]
    /\ Go(n, "write")
    /\ UNCHANGED <<tier, tries, root_created, stored, promised, overlap, crashed, puts, faults, losses>>
open_tmp(n) ==
    /\ pc[n] = "open" /\ dir.root
    /\ dir.tmp = 0 => Inodes \ Used /= {}
    /\ \E i \in {IF dir.tmp /= 0 THEN dir.tmp ELSE NewInode} :
          /\ fd' = [fd EXCEPT ![n] = i]
          /\ SetDir([dir EXCEPT !.tmp = i])
          /\ content' = [content EXCEPT ![i] = "empty"]
          /\ synced' = IF dir.tmp = i THEN synced ELSE [synced EXCEPT ![i] = "empty"]
    /\ overlap' = (overlap \/ \E m \in Nodes \ {n} : pc[m] \in {"write", "sync", "rename"})
    /\ promised' = (promised /\ ~overlap')
    /\ Go(n, "write")
    /\ UNCHANGED <<tier, tries, root_created, stored, crashed, puts, faults, losses>>

write_all_NoSync(n) ==
    /\ pc[n] = "write"
    /\ content' = [content EXCEPT ![fd[n]] = "whole"]
    /\ Go(n, "rename")
    /\ UNCHANGED <<tier, dir, mayKeep, synced, fd, tries, root_created, stored, promised,
                   overlap, crashed, puts, faults, losses>>
write_all(n) ==
    /\ pc[n] = "write"
    /\ content' = [content EXCEPT ![fd[n]] = "whole"]
    /\ Go(n, IF fsync_each_block THEN "sync" ELSE "rename")
    /\ UNCHANGED <<tier, dir, mayKeep, synced, fd, tries, root_created, stored, promised,
                   overlap, crashed, puts, faults, losses>>

\* An error other than NotFound: the staging file is removed by its name.
write_fails(n) ==
    /\ pc[n] = "write" /\ faults < MaxFaults
    /\ content' = [content EXCEPT ![fd[n]] = "torn"]
    /\ RemoveTmp
    /\ Done(n)
    /\ faults' = faults + 1
    /\ UNCHANGED <<tier, synced, tries, root_created, stored, promised, overlap, crashed, puts, losses>>

sync_data(n) ==
    /\ pc[n] = "sync"
    /\ synced' = [synced EXCEPT ![fd[n]] = content[fd[n]]]
    /\ Go(n, "rename")
    /\ UNCHANGED <<tier, dir, mayKeep, content, fd, tries, root_created, stored, promised,
                   overlap, crashed, puts, faults, losses>>

rename(n) ==
    /\ pc[n] = "rename" /\ dir.tmp /= 0
    /\ SetDir([dir EXCEPT !.kv = dir.tmp, !.tmp = 0])
    /\ stored' = stored \cup {n}
    /\ IF fsync_each_block THEN Go(n, "sync dir") /\ UNCHANGED fd ELSE Done(n)
    /\ UNCHANGED <<tier, content, synced, tries, root_created, promised, overlap, crashed,
                   puts, faults, losses>>

\* The parent directory is synced and the put acknowledged.
sync_dir(n) ==
    /\ pc[n] = "sync dir" /\ dir.root
    /\ mayKeep' = {}
    /\ promised' = (promised \/ (n \in stored /\ ~overlap))
    /\ Done(n)
    /\ UNCHANGED <<tier, dir, content, synced, tries, root_created, stored, overlap, crashed,
                   puts, faults, losses>>

\* NotFound, because the root or the staging file was removed: the root is
\* created again and the write retried once.
not_found(n) ==
    /\ \/ pc[n] = "open" /\ ~dir.root
       \/ pc[n] = "rename" /\ dir.tmp = 0
       \/ pc[n] = "sync dir" /\ ~dir.root
    /\ IF tries[n] = 0
       THEN /\ SetDir([dir EXCEPT !.root = TRUE, !.tmp = 0])
            /\ root_created' = [root_created EXCEPT ![n] = TRUE]
            /\ tries' = [tries EXCEPT ![n] = 1]
            /\ Go(n, "open") /\ fd' = [fd EXCEPT ![n] = 0]
       ELSE RemoveTmp /\ Done(n) /\ UNCHANGED <<tries, root_created>>
    /\ UNCHANGED <<tier, content, synced, stored, promised, overlap, crashed, puts, faults, losses>>
------------------------------------------------------------------------------
(* What else happens to the file *)

Lose == losses < MaxLosses /\ losses' = losses + 1

delete_block ==
    /\ Lose /\ dir.kv /= 0
    /\ SetDir([dir EXCEPT !.kv = 0])
    /\ promised' = FALSE /\ stored' = {}
    /\ UNCHANGED <<tier, content, synced, pc, fd, tries, root_created, overlap, crashed, puts, faults>>

\* "operator purge, tmp cleanup, remount"
PurgeRoot ==
    /\ Lose /\ dir.root
    /\ SetDir([root |-> FALSE, tmp |-> 0, kv |-> 0])
    /\ promised' = FALSE /\ stored' = {}
    /\ UNCHANGED <<tier, content, synced, pc, fd, tries, root_created, overlap, crashed, puts, faults>>

Kill(n) ==
    /\ Lose /\ pc[n] /= "idle"
    /\ Done(n)
    /\ root_created' = [root_created EXCEPT ![n] = FALSE]
    /\ UNCHANGED <<tier, dir, mayKeep, content, synced, tries, stored, promised, overlap,
                   crashed, puts, faults>>

\* Power is lost.  Only the inodes the surviving directory names matter.
Crash ==
    /\ Lose
    /\ \E d \in mayKeep \cup {dir} :
          /\ dir' = d
          /\ \E kept \in [{d.tmp, d.kv} \ {0} -> {"synced", "written", "torn"}] :
                /\ content' = [i \in Inodes |->
                      IF i \notin DOMAIN kept \/ content[i] = synced[i] THEN synced[i]
                      ELSE CASE kept[i] = "synced" -> synced[i]
                             [] kept[i] = "written" -> content[i]
                             [] kept[i] = "torn" -> "torn"]
                /\ synced' = content'
    /\ mayKeep' = {}
    /\ pc' = [n \in Nodes |-> "idle"] /\ fd' = [n \in Nodes |-> 0]
    /\ root_created' = [n \in Nodes |-> FALSE]
    /\ stored' = {}
    /\ crashed' = TRUE
    /\ UNCHANGED <<tier, tries, promised, overlap, puts, faults>>

DiskNext ==
    \/ \E n \in Users :
          \/ put_block(n) \/ open_tmp(n) \/ write_all(n) \/ write_fails(n) \/ sync_data(n)
          \/ rename(n) \/ sync_dir(n) \/ not_found(n) \/ Kill(n)
    \/ delete_block \/ PurgeRoot \/ Crash

DiskSpec == DiskInit /\ [][DiskNext]_diskVars
------------------------------------------------------------------------------
(* Properties *)

\* disk.rs:501: "write-to-temp + rename so readers never observe a partially
\* written canonical block": through retries, purges, kills and failed writes the
\* canonical name leads to a whole file, and with fsync after a crash too.  Two
\* puts that share the staging file are excepted.
CanonicalNeverPartial ==
    ~overlap /\ (crashed => fsync_each_block) /\ dir.kv /= 0
        => content[dir.kv] = "whole"

\* A put acknowledged with fsync survives every crash until the block is deleted
\* or purged, unless two puts shared the staging file.
AckedBlockSurvives == promised => dir.kv /= 0 /\ content[dir.kv] = "whole"
==============================================================================
