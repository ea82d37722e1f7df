--------------------------------- MODULE Wal ---------------------------------
(***************************************************************************)
(* The write-ahead log of kv-native-sys: wal_append writes the magic into  *)
(* an empty file, then header, key and value in three writes, and syncs;   *)
(* wal_replay decodes the file from its first byte.                        *)
(*                                                                         *)
(* A log is a sequence of units in place of bytes: the magic is two, a     *)
(* header is the length of the key and the length of the value.  A crash   *)
(* keeps what was synced and any number of units after it.  A synced file  *)
(* keeps its name.  There is one writer.  D_Word is a faulty variant of    *)
(* the definition D that follows it.                                       *)
(***************************************************************************)
EXTENDS Naturals, Sequences, SequencesExt

CONSTANTS
    Fields,      \* keys and values
    MaxAppends,  \* bound: calls of wal_append
    MaxCrashes   \* bound: crashes

ASSUME WalAssumption == Fields \subseteq Seq(Nat) /\ MaxAppends \in Nat /\ MaxCrashes \in Nat

VARIABLES
    wal,       \* units in the file
    durable,   \* how many of them are on the medium
    todo,      \* writes left to the call in progress, the sync last
    start,     \* where that call began to write
    record,    \* what it appends
    recorded,  \* records acknowledged, or found whole after a crash
    cut,       \* the log ends in a part of the magic or of a record
    buried,    \* a record was appended behind such a part
    appends, crashes

walVars == <<wal, durable, todo, start, record, recorded, cut, buried, appends, crashes>>

WAL_MAGIC == <<7, 7>>
Records == [key : Fields, value : Fields]

header(r) == <<Len(r.key), Len(r.value)>>
Sync == <<>>  \* the last entry of todo

Magic(at) == IF at = 0 THEN WAL_MAGIC ELSE <<>>

WalInit ==
    /\ wal = <<>> /\ durable = 0 /\ todo = <<>> /\ start = 0
    /\ record = [key |-> <<>>, value |-> <<>>] /\ recorded = <<>>
    /\ cut = FALSE /\ buried = FALSE /\ appends = 0 /\ crashes = 0

wal_append(r) ==
    /\ todo = <<>> /\ appends < MaxAppends
    /\ todo' = <<Magic(Len(wal)), header(r), r.key, r.value, Sync>>
    /\ start' = Len(wal)
    /\ record' = r
    /\ buried' = (buried \/ cut)
    /\ appends' = appends + 1
    /\ UNCHANGED <<wal, durable, recorded, cut, crashes>>

wal_write_all ==
    /\ Len(todo) > 1
    /\ wal' = wal \o Head(todo)
    /\ todo' = Tail(todo)
    /\ UNCHANGED <<durable, start, record, recorded, cut, buried, appends, crashes>>

wal_sync_data_Skip ==
    /\ todo = <<Sync>>
    /\ todo' = <<>>
    /\ recorded' = Append(recorded, record)
    /\ UNCHANGED <<wal, durable, start, record, cut, buried, appends, crashes>>
wal_sync_data ==
    /\ todo = <<Sync>>
    /\ todo' = <<>>
    /\ durable' = Len(wal)
    /\ recorded' = Append(recorded, record)
    /\ UNCHANGED <<wal, start, record, cut, buried, appends, crashes>>

\* decode_wal_records: the records, or an error.  A record begins at c and the
\* rest of the file is decoded by rest.
NextAt(bytes, c) == c + 2 + bytes[c] + bytes[c + 1]
RecordOf(bytes, c) == [key   |-> SubSeq(bytes, c + 2, c + 1 + bytes[c]),
                       value |-> SubSeq(bytes, c + 2 + bytes[c], NextAt(bytes, c) - 1)]
Corrupt == [ok |-> FALSE, records |-> <<>>]
NoRecords == [ok |-> TRUE, records |-> <<>>]

DecodedFrom(bytes, rest, c) ==
    IF c = Len(bytes) + 1 THEN NoRecords
    ELSE IF c = Len(bytes) \/ NextAt(bytes, c) > Len(bytes) + 1 THEN Corrupt
    ELSE LET tail == rest[NextAt(bytes, c)]
         IN  [ok |-> tail.ok, records |-> <<RecordOf(bytes, c)>> \o tail.records]

Decoded(bytes) ==
    LET from[c \in 1..Len(bytes) + 1] == DecodedFrom(bytes, from, c)
    IN  IF bytes = <<>> THEN NoRecords
        ELSE IF ~IsPrefix(WAL_MAGIC, bytes) THEN Corrupt
        ELSE from[Len(WAL_MAGIC) + 1]

wal_replay == Decoded(wal)

WalCrash ==
    /\ crashes < MaxCrashes
    /\ LET body == start + Len(Magic(start))
           full == body + Len(header(record) \o record.key \o record.value)
       IN  \E n \in durable..Len(wal) :
              /\ wal' = SubSeq(wal, 1, n)
              /\ durable' = n
              /\ recorded' = IF todo /= <<>> /\ n = full THEN Append(recorded, record)
                             ELSE recorded
              /\ cut' = (cut \/ (todo /= <<>> /\ n \notin {start, body, full}))
    /\ todo' = <<>>
    /\ crashes' = crashes + 1
    /\ UNCHANGED <<start, record, buried, appends>>

WalNext == (\E r \in Records : wal_append(r)) \/ wal_write_all \/ wal_sync_data \/ WalCrash

WalSpec == WalInit /\ [][WalNext]_walVars
------------------------------------------------------------------------------
(* Properties *)

\* Wherever a crash cuts the log, wal_replay returns exactly the records that were
\* acknowledged or are whole on the medium, or reports an error exactly when the
\* last one was cut.  It ends with the first append behind a cut record, which
\* wal_append does not notice.
ReplayFaithful ==
    todo = <<>> /\ ~buried =>
        IF cut THEN ~wal_replay.ok
        ELSE wal_replay = [ok |-> TRUE, records |-> recorded]
==============================================================================
