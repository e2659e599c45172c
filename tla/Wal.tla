-------------------------------- MODULE Wal --------------------------------
(***************************************************************************)
(* The write-ahead log of crates/iron-wal: one file of checksummed frames, *)
(* processes that open, lock, scan and repair it, and the single writer    *)
(* that appends and synchronizes.                                          *)
(*                                                                         *)
(* The file system is split into what a running program reads (exists,     *)
(* file, tail) and what a power loss is sure to leave (entry, synced,      *)
(* stable).  The file is a sequence of frame-sized pieces followed by an   *)
(* incomplete piece, so offsets are counted in frames.  A piece is a       *)
(* valid frame when its LSN is its position; checksums make every other    *)
(* content recognisable, so anything else on disk is Junk.  LSN 0 stands   *)
(* for None.                                                               *)
(***************************************************************************)
EXTENDS Integers, Sequences

CONSTANTS
    Procs,               \* processes that may open the WAL
    None,                \* no process
    Records,             \* record inputs
    PayloadLen,          \* payload length of each record
    Configs,             \* WAL configurations a process may open with
    MaxLsn,              \* the largest LSN (u64::MAX in the code)
    MaxUnsynced,         \* the largest unsynced_records (u32::MAX in the code)
    FsyncPersistsEntry,  \* does syncing a file persist the entries on its path?
    DirectoryPersisted   \* is the WAL directory on the platter before it is opened?

SyncPolicies == {"Always", "Batch", "Manual"}
TailPolicies == {"Reject", "Truncate"}
ConfigType == [sync_policy : SyncPolicies, max_unsynced : Nat,
               tail_repair : TailPolicies, max_record_bytes : Nat]

ASSUME ProcsAssumption == None \notin Procs
ASSUME PayloadAssumption == PayloadLen \in [Records -> Nat]
ASSUME ConfigsAssumption == Configs \subseteq ConfigType
ASSUME LimitsAssumption == MaxLsn \in Nat /\ MaxUnsynced \in Nat \ {0}
ASSUME EntryAssumption == {FsyncPersistsEntry, DirectoryPersisted} \subseteq BOOLEAN

VARIABLES
    \* The file as programs see it.
    exists,            \* the path resolves to a file
    file,              \* the frame-sized pieces of the file
    tail,              \* the incomplete piece after them
    \* What a power loss leaves for certain.
    entry,             \* the entries that lead to the file are on the platter
    synced,            \* how many pieces of the file are on the platter
    stable,            \* the file has no write or truncation pending
    \* FileWal::open.
    pc,                \* where each process is in open
    created,           \* open's local `created`
    owner,             \* the process holding the advisory lock
    \* The fields of the open FileWal.
    config, last_lsn, durable_through, valid_length, unsynced_records, poisoned,
    \* History.
    confirmed          \* the frames the writer has reported durable after a sync

diskVars == <<exists, file, tail, entry, synced, stable>>
openVars == <<pc, created, owner>>
fieldVars == <<last_lsn, durable_through, valid_length, unsynced_records, poisoned>>
vars == <<diskVars, openVars, config, fieldVars, confirmed>>

---------------------------------------------------------------------------
(* Frames and torn tails.                                                  *)

(* A frame costs two units of header and one per payload byte, which is    *)
(* enough to tell a header that is cut from a payload that is cut.         *)
HeaderLen == 2
FrameLen(r) == HeaderLen + PayloadLen[r]

Junk == [lsn |-> 0]
FrameType == [lsn : Nat \ {0}, rec : Records]
Frame(lsn, r) == [lsn |-> lsn, rec |-> r]

NoTail == [units |-> 0, len |-> 0]
Torn(r, units) == [units |-> units, len |-> PayloadLen[r]]
TailsOf(r) == {Torn(r, u) : u \in 1 .. FrameLen(r) - 1}
EveryTail == {NoTail} \cup UNION {TailsOf(r) : r \in Records}

---------------------------------------------------------------------------
(* scan: strict, from byte zero, with at most one repair at the end.       *)

ValidAt(i) == file[i].lsn = i
AllValid == \A i \in 1 .. Len(file) : ValidAt(i)

(* Every error of scan that leaves the file alone: a checksum, magic or    *)
(* LSN mismatch, a record above the configured limit (in a whole frame or  *)
(* in a header whose payload is cut), and a torn tail under Reject.        *)
ScanRefuses(c) ==
    \/ ~AllValid
    \/ \E i \in 1 .. Len(file) : PayloadLen[file[i].rec] > c.max_record_bytes
    \/ tail.units >= HeaderLen /\ tail.len > c.max_record_bytes
    \/ tail # NoTail /\ c.tail_repair = "Reject"

(* A completed sync_data or sync_all: every byte written so far is on the  *)
(* platter.                                                                *)
SyncFile ==
    /\ synced' = Len(file')
    /\ stable' = TRUE
    /\ entry' = (entry \/ FsyncPersistsEntry)

---------------------------------------------------------------------------
(* Opening.                                                                *)

Closed(c) == /\ last_lsn' = 0 /\ durable_through' = 0 /\ valid_length' = 0
             /\ unsynced_records' = 0 /\ poisoned' = FALSE /\ config' = c

NoConfig == [sync_policy |-> "Always", max_unsynced |-> 0,
             tail_repair |-> "Reject", max_record_bytes |-> 0]

Init ==
    /\ exists = FALSE /\ file = << >> /\ tail = NoTail
    /\ entry = FALSE /\ synced = 0 /\ stable = TRUE
    /\ pc = [p \in Procs |-> "idle"] /\ created = [p \in Procs |-> FALSE]
    /\ owner = None
    /\ config = NoConfig
    /\ last_lsn = 0 /\ durable_through = 0 /\ valid_length = 0
    /\ unsynced_records = 0 /\ poisoned = FALSE
    /\ confirmed = << >>

(* create_dir_all, which makes a missing directory and leaves its entry in *)
(* the parent unsynced; then created = !path.exists().                     *)
CheckPath(p) ==
    /\ pc[p] = "idle"
    /\ pc' = [pc EXCEPT ![p] = "checked"]
    /\ created' = [created EXCEPT ![p] = ~exists]
    /\ UNCHANGED <<diskVars, owner, config, fieldVars, confirmed>>

(* OpenOptions::create(true).truncate(false): an existing file is kept.    *)
OpenFile(p) ==
    /\ pc[p] = "checked"
    /\ pc' = [pc EXCEPT ![p] = "opened"]
    /\ exists' = TRUE
    /\ UNCHANGED <<file, tail, entry, synced, stable, created, owner, config,
                   fieldVars, confirmed>>

TryLock(p) ==
    /\ pc[p] = "opened"
    /\ owner = None
    /\ pc' = [pc EXCEPT ![p] = "locked"]
    /\ owner' = p
    /\ UNCHANGED <<diskVars, created, config, fieldVars, confirmed>>

(* if created: sync_all on the file ...                                    *)
SyncNewFile(p) ==
    /\ pc[p] = "locked" /\ created[p]
    /\ pc' = [pc EXCEPT ![p] = "file_synced"]
    /\ UNCHANGED <<exists, file, tail, created, owner, config, fieldVars, confirmed>>
    /\ SyncFile

(* ... then sync_directory: the file's entry is safe, but the parent, and  *)
(* with it the entry of a directory that create_dir_all made, is not       *)
(* synced.                                                                 *)
SyncDirectory(p) ==
    /\ pc[p] = "file_synced"
    /\ pc' = [pc EXCEPT ![p] = "locked"]
    /\ created' = [created EXCEPT ![p] = FALSE]
    /\ entry' = (entry \/ DirectoryPersisted)
    /\ UNCHANGED <<exists, file, tail, synced, stable, owner, config, fieldVars, confirmed>>

(* The fields open and replay take from the scan's report.                 *)
TakeReport ==
    /\ last_lsn' = Len(file) /\ durable_through' = Len(file)
    /\ valid_length' = Len(file) /\ unsynced_records' = 0

(* A scan that meets no incomplete tail: nothing is written or synced.     *)
ScanClean(p, c) ==
    /\ pc[p] = "locked" /\ ~created[p]
    /\ ~ScanRefuses(c) /\ tail = NoTail
    /\ pc' = [pc EXCEPT ![p] = "open"]
    /\ config' = c /\ poisoned' = FALSE /\ TakeReport
    /\ UNCHANGED <<diskVars, created, owner, confirmed>>

(* Faulty: the repair cuts the last valid frame as well.                   *)
ScanRepairsShort(p, c) ==
    /\ pc[p] = "locked" /\ ~created[p]
    /\ ~ScanRefuses(c) /\ tail # NoTail
    /\ pc' = [pc EXCEPT ![p] = "open"]
    /\ file' = SubSeq(file, 1, Len(file) - 1) /\ tail' = NoTail /\ SyncFile
    /\ confirmed' = file'
    /\ config' = c /\ poisoned' = FALSE
    /\ last_lsn' = Len(file') /\ durable_through' = Len(file')
    /\ valid_length' = Len(file') /\ unsynced_records' = 0
    /\ UNCHANGED <<exists, created, owner>>

(* A torn tail under Truncate: set_len to the last valid frame, sync_data. *)
ScanRepairs(p, c) ==
    /\ pc[p] = "locked" /\ ~created[p]
    /\ ~ScanRefuses(c) /\ tail # NoTail
    /\ pc' = [pc EXCEPT ![p] = "open"]
    /\ file' = file /\ tail' = NoTail /\ SyncFile
    /\ confirmed' = file
    /\ config' = c /\ poisoned' = FALSE /\ TakeReport
    /\ UNCHANGED <<exists, created, owner>>

(* The truncation is done but its sync_data fails: open returns the error. *)
RepairSyncFails(p, c) ==
    /\ pc[p] = "locked" /\ ~created[p]
    /\ ~ScanRefuses(c) /\ tail # NoTail
    /\ tail' = NoTail /\ stable' = FALSE
    /\ pc' = [pc EXCEPT ![p] = "idle"] /\ owner' = None
    /\ UNCHANGED <<exists, file, entry, synced, created, config, fieldVars, confirmed>>

(* open returns an error from any of its steps (AlreadyOpen and a refused  *)
(* scan among them), the FileWal is dropped, or the process crashes: the   *)
(* handle and the lock are gone and the file stays as it is.               *)
Exit(p) ==
    /\ pc[p] # "idle"
    /\ pc' = [pc EXCEPT ![p] = "idle"]
    /\ created' = [created EXCEPT ![p] = FALSE]
    /\ IF owner = p THEN owner' = None /\ Closed(NoConfig)
                    ELSE UNCHANGED <<owner, config, fieldVars>>
    /\ UNCHANGED <<diskVars, confirmed>>

---------------------------------------------------------------------------
(* The writer.                                                             *)

Open(p) == pc[p] = "open"
Writable == owner # None /\ Open(owner) /\ ~poisoned

(* The checks append makes before it touches the file.                     *)
MayAppend(r) ==
    /\ Writable
    /\ PayloadLen[r] <= config.max_record_bytes
    /\ last_lsn < MaxLsn

(* Faulty: the batch is synchronized one record late.                      *)
MustSyncLate ==
    \/ config.sync_policy = "Always"
    \/ config.sync_policy = "Batch" /\ unsynced_records >= config.max_unsynced

MustSync ==
    \/ config.sync_policy = "Always"
    \/ config.sync_policy = "Batch" /\ unsynced_records + 1 >= config.max_unsynced

(* seek to valid_length and write_all: whatever followed that position is  *)
(* replaced.                                                               *)
WriteFrame(r) ==
    /\ file' = Append(SubSeq(file, 1, valid_length), Frame(last_lsn + 1, r))
    /\ tail' = NoTail
    /\ valid_length' = valid_length + 1
    /\ last_lsn' = last_lsn + 1
    /\ UNCHANGED <<exists, openVars, config>>

(* sync_current's success.                                                 *)
Confirm ==
    /\ SyncFile
    /\ durable_through' = last_lsn'
    /\ unsynced_records' = 0
    /\ confirmed' = SubSeq(file', 1, last_lsn')

AppendSynced(r) ==
    /\ MayAppend(r) /\ unsynced_records < MaxUnsynced /\ MustSync
    /\ WriteFrame(r) /\ Confirm
    /\ UNCHANGED poisoned

AppendUnsynced(r) ==
    /\ MayAppend(r) /\ unsynced_records < MaxUnsynced /\ ~MustSync
    /\ WriteFrame(r)
    /\ stable' = FALSE
    /\ unsynced_records' = unsynced_records + 1
    /\ UNCHANGED <<entry, synced, durable_through, poisoned, confirmed>>

(* Faulty: the frontier moves although sync_data failed.                   *)
AppendSyncFailsConfirms(r) ==
    /\ MayAppend(r) /\ unsynced_records < MaxUnsynced /\ MustSync
    /\ WriteFrame(r)
    /\ stable' = FALSE
    /\ unsynced_records' = unsynced_records + 1
    /\ poisoned' = TRUE
    /\ durable_through' = last_lsn' /\ confirmed' = file'
    /\ UNCHANGED <<entry, synced>>

(* The frame is written and sync_data fails: the frontier stays.           *)
AppendSyncFails(r) ==
    /\ MayAppend(r) /\ unsynced_records < MaxUnsynced /\ MustSync
    /\ WriteFrame(r)
    /\ stable' = FALSE
    /\ unsynced_records' = unsynced_records + 1
    /\ poisoned' = TRUE
    /\ UNCHANGED <<entry, synced, durable_through, confirmed>>

(* unsynced_records overflows after the frame is written.                  *)
AppendOverflows(r) ==
    /\ MayAppend(r) /\ unsynced_records = MaxUnsynced
    /\ WriteFrame(r)
    /\ stable' = FALSE
    /\ poisoned' = TRUE
    /\ UNCHANGED <<entry, synced, durable_through, unsynced_records, confirmed>>

(* Faulty: a failed write leaves the writer usable.                        *)
AppendWriteFailsQuietly(r, t) ==
    /\ MayAppend(r)
    /\ file' = SubSeq(file, 1, valid_length)
    /\ tail' = t
    /\ stable' = (stable /\ t = NoTail)
    /\ UNCHANGED <<exists, entry, synced, openVars, config, last_lsn, poisoned,
                   durable_through, valid_length, unsynced_records, confirmed>>

(* write_all fails after some units of the frame.                          *)
AppendWriteFails(r, t) ==
    /\ MayAppend(r)
    /\ file' = SubSeq(file, 1, valid_length)
    /\ tail' = t
    /\ stable' = (stable /\ t = NoTail)
    /\ poisoned' = TRUE
    /\ UNCHANGED <<exists, entry, synced, openVars, config, last_lsn,
                   durable_through, valid_length, unsynced_records, confirmed>>

Flush ==
    /\ Writable
    /\ UNCHANGED <<exists, file, tail, openVars, config, last_lsn, valid_length, poisoned>>
    /\ Confirm

(* replay: a barrier, then the scan's report replaces the fields.          *)
Replay ==
    /\ Writable
    /\ ~ScanRefuses(config) /\ tail = NoTail
    /\ UNCHANGED <<exists, file, tail, openVars, config, poisoned>>
    /\ SyncFile
    /\ confirmed' = file
    /\ TakeReport

(* sync_data fails in flush or replay.                                     *)
FlushFails ==
    /\ Writable
    /\ poisoned' = TRUE
    /\ UNCHANGED <<diskVars, openVars, config, last_lsn, durable_through,
                   valid_length, unsynced_records, confirmed>>

---------------------------------------------------------------------------
(* Power loss: every process stops.  With writes pending, some pieces past *)
(* the synced ones remain, any of them possibly Junk (pages reach the      *)
(* platter in any order), and the last may be torn.  A file whose entry    *)
(* was never persisted may be gone.                                        *)

Stopped ==
    /\ pc' = [p \in Procs |-> "idle"] /\ created' = [p \in Procs |-> FALSE]
    /\ owner' = None
    /\ Closed(NoConfig)

Settled ==
    /\ stable' = TRUE /\ synced' = Len(file') /\ entry' = exists'

PowerLossClean ==
    /\ exists /\ stable
    /\ UNCHANGED <<exists, file, tail>>
    /\ Settled /\ Stopped
    /\ UNCHANGED confirmed

PowerLossDirty ==
    /\ exists /\ ~stable
    /\ \E k \in synced .. Len(file) :
          \E lost \in SUBSET (synced + 1 .. k) :
             file' = [i \in 1 .. k |-> IF i \in lost THEN Junk ELSE file[i]]
    /\ tail' \in EveryTail
    /\ UNCHANGED exists
    /\ Settled /\ Stopped
    /\ UNCHANGED confirmed

PowerLossUnlinks ==
    /\ exists /\ ~entry
    /\ exists' = FALSE /\ file' = << >> /\ tail' = NoTail
    /\ Settled /\ Stopped
    /\ UNCHANGED confirmed

PowerLoss == PowerLossClean \/ PowerLossDirty \/ PowerLossUnlinks

OpenStep(p) ==
    \/ CheckPath(p) \/ OpenFile(p) \/ TryLock(p)
    \/ SyncNewFile(p) \/ SyncDirectory(p)
    \/ \E c \in Configs : ScanClean(p, c) \/ ScanRepairs(p, c) \/ RepairSyncFails(p, c)
    \/ Exit(p)

AppendStep(r) ==
    \/ AppendSynced(r) \/ AppendUnsynced(r) \/ AppendSyncFails(r) \/ AppendOverflows(r)
    \/ \E t \in {NoTail} \cup TailsOf(r) : AppendWriteFails(r, t)

Next ==
    \/ \E p \in Procs : OpenStep(p)
    \/ \E r \in Records : AppendStep(r)
    \/ Flush \/ Replay \/ FlushFails
    \/ PowerLoss

Spec == Init /\ [][Next]_vars

---------------------------------------------------------------------------
TypeOK ==
    /\ exists \in BOOLEAN /\ entry \in BOOLEAN /\ stable \in BOOLEAN
    /\ file \in Seq(FrameType \cup {Junk})
    /\ tail \in [units : Nat, len : Nat]
    /\ synced \in 0 .. Len(file)
    /\ pc \in [Procs -> {"idle", "checked", "opened", "locked", "file_synced", "open"}]
    /\ created \in [Procs -> BOOLEAN]
    /\ owner \in Procs \cup {None}
    /\ config \in ConfigType
    /\ last_lsn \in Nat /\ durable_through \in Nat /\ valid_length \in Nat
    /\ unsynced_records \in 0 .. MaxUnsynced
    /\ poisoned \in BOOLEAN
    /\ confirmed \in Seq(FrameType)

---------------------------------------------------------------------------
(* Safety.                                                                 *)

(* The advisory lock admits one process past it: whatever the order in     *)
(* which processes check, create and lock the path, at most one scans,     *)
(* repairs or writes, and it is the recorded owner.                        *)
LockOwner ==
    \A p \in Procs : pc[p] \in {"locked", "file_synced", "open"} <=> owner = p

(* The writer's cached position matches the file it will write to: every   *)
(* piece is the frame of its position, and while the writer is not         *)
(* poisoned there is no torn piece and the next frame goes exactly after   *)
(* the last one.  A failed write, a refused repair or another process'     *)
(* open must not leave a writer that would overwrite or skip a record.     *)
WriterCoherent ==
    owner # None /\ Open(owner) =>
        /\ exists
        /\ AllValid
        /\ last_lsn = Len(file)
        /\ valid_length = Len(file)
        /\ ~poisoned => tail = NoTail

(* The records past the reported frontier are exactly the ones the writer  *)
(* still counts as unsynced, the count never passes its width, and between *)
(* calls the policy's bound on them holds: none under Always, fewer than   *)
(* the batch size under Batch.                                             *)
UnsyncedAccounting ==
    Writable =>
        /\ durable_through + unsynced_records = last_lsn
        /\ unsynced_records <= MaxUnsynced
        /\ config.sync_policy = "Always" => unsynced_records = 0
        /\ config.sync_policy = "Batch" =>
               unsynced_records = 0 \/ unsynced_records < config.max_unsynced

(* A record reported durable after a sync is the record at its LSN, is on  *)
(* the platter and stays reachable from the directory through every crash, *)
(* failed write, torn tail, repair and reopening that follow.              *)
ConfirmedOnPlatter ==
    /\ Len(confirmed) <= synced
    /\ \A i \in 1 .. Len(confirmed) : confirmed[i] = file[i] /\ confirmed[i].lsn = i
    /\ confirmed # << >> => exists /\ entry

(* No step reassigns the LSN of a record reported durable after a sync to  *)
(* another record, or takes the report back.                               *)
ConfirmedNeverReassigned ==
    [][/\ Len(confirmed') >= Len(confirmed)
       /\ \A i \in 1 .. Len(confirmed) : confirmed'[i] = confirmed[i]]_vars

(* Tail repair removes only the incomplete piece and corruption is left in *)
(* place: no step of a program removes or changes a frame-sized piece of   *)
(* the file, valid or not; only a power loss does.                         *)
ProgramsKeepFrames ==
    [][\/ PowerLoss
       \/ /\ Len(file') >= Len(file)
          /\ \A i \in 1 .. Len(file) : file'[i] = file[i]]_vars

(* The frontier reported by append, flush and durable_through covers only  *)
(* records that are on the platter ("the latest LSN confirmed through      *)
(* sync_data", writer.rs:161).  The code does not have this property:      *)
(* open takes the scanned LSN as the frontier without a sync.              *)
FrontierHonest ==
    Writable => durable_through <= synced

---------------------------------------------------------------------------
(* The WAL implements the log it promises: what a strict reader accepts is *)
(* the log, what was confirmed is its durable prefix.                      *)

ReadableLen ==
    CHOOSE k \in 0 .. Len(file) :
        /\ \A i \in 1 .. k : ValidAt(i)
        /\ k < Len(file) => ~ValidAt(k + 1)

Readable == [i \in 1 .. ReadableLen |-> file[i].rec]

Promise == INSTANCE DurableLog WITH log <- Readable, durable <- Len(confirmed)

ImplementsDurableLog == Promise!Spec

===========================================================================
