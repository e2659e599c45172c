----------------------------- MODULE WalProofs -----------------------------
(***************************************************************************)
(* Proofs about Wal: for any number of processes, records, configurations  *)
(* and LSNs, the writer stays coherent with its file, and on a file system *)
(* whose fsync persists the directory entry a confirmed record is never    *)
(* lost or reassigned, and the WAL implements DurableLog.                  *)
(***************************************************************************)
EXTENDS Wal, SequenceTheorems, WellFoundedInduction, TLAPS

(* No write or truncation is pending: all pieces are on the platter.       *)
PlatterCoherent == stable => synced = Len(file)

(* A process past OpenFile finds the file until a power loss stops it.     *)
FileReachable ==
    \A p \in Procs : pc[p] \in {"opened", "locked", "file_synced", "open"} => exists

(* The inductive invariant of the writer and of open.                      *)
WriterInv ==
    /\ TypeOK
    /\ LockOwner
    /\ PlatterCoherent
    /\ FileReachable
    /\ WriterCoherent

Frames == FrameType \cup {Junk}

---------------------------------------------------------------------------
(* Facts about sequences of frames.                                        *)

(* Appending after the whole of a sequence keeps it and adds one element.  *)
LEMMA AppendWhole ==
    ASSUME NEW S, NEW s \in Seq(S), NEW e \in S
    PROVE  LET t == Append(SubSeq(s, 1, Len(s)), e)
           IN  /\ t \in Seq(S)
               /\ Len(t) = Len(s) + 1
               /\ \A i \in 1 .. Len(s) : t[i] = s[i]
               /\ t[Len(s) + 1] = e
<1>1. SubSeq(s, 1, Len(s)) = s
  BY SubSeqFull
<1>2. QED
  BY <1>1

(* The frame written for an appended record is a valid frame type.         *)
LEMMA FrameTyped ==
    ASSUME NEW r \in Records, NEW n \in Nat
    PROVE  Frame(n + 1, r) \in FrameType
BY DEF Frame, FrameType

(* Every tail the model writes is a pair of naturals.                      *)
LEMMA TailsTyped ==
    /\ NoTail \in [units : Nat, len : Nat]
    /\ \A r \in Records : TailsOf(r) \subseteq [units : Nat, len : Nat]
    /\ EveryTail \subseteq [units : Nat, len : Nat]
<1>1. NoTail \in [units : Nat, len : Nat]
  BY DEF NoTail
<1>2. \A r \in Records : TailsOf(r) \subseteq [units : Nat, len : Nat]
  BY PayloadAssumption DEF TailsOf, Torn, FrameLen, HeaderLen
<1>3. QED
  BY <1>1, <1>2 DEF EveryTail

(* A sequence of valid pieces is a sequence of frames.                     *)
LEMMA ValidFrames ==
    ASSUME NEW s \in Seq(Frames), NEW n \in 0 .. Len(s),
           \A i \in 1 .. n : s[i].lsn = i
    PROVE  /\ SubSeq(s, 1, n) \in Seq(FrameType)
           /\ Len(SubSeq(s, 1, n)) = n
           /\ \A i \in 1 .. n : SubSeq(s, 1, n)[i] = s[i]
<1>1. \A i \in 1 .. n : s[i] \in FrameType
  BY DEF Frames, FrameType, Junk
<1>2. QED
  BY <1>1, SubSeqProperties

---------------------------------------------------------------------------
(* What the pieces of the actions do to the file.                          *)

(* write_all at the end of the file adds the frame of the next LSN.        *)
LEMMA WriteFrameAppends ==
    ASSUME WriterInv, NEW r \in Records, MayAppend(r), WriteFrame(r)
    PROVE  /\ owner \in Procs /\ pc[owner] = "open" /\ exists /\ exists'
           /\ file' \in Seq(Frames)
           /\ Len(file') = Len(file) + 1
           /\ \A i \in 1 .. Len(file) : file'[i] = file[i]
           /\ AllValid'
           /\ last_lsn' = Len(file') /\ valid_length' = Len(file')
           /\ last_lsn' \in Nat /\ last_lsn = Len(file)
<1>1. /\ owner \in Procs /\ pc[owner] = "open" /\ exists /\ AllValid
      /\ last_lsn = Len(file) /\ valid_length = Len(file)
      /\ file \in Seq(Frames) /\ Len(file) \in Nat
  BY DEF WriterInv, TypeOK, WriterCoherent, MayAppend, Writable, Open, Frames
<1>2. Frame(last_lsn + 1, r) \in Frames
  BY <1>1, FrameTyped DEF Frames
<1>3. /\ file' \in Seq(Frames)
      /\ Len(file') = Len(file) + 1
      /\ \A i \in 1 .. Len(file) : file'[i] = file[i]
      /\ file'[Len(file) + 1] = Frame(Len(file) + 1, r)
  BY <1>1, <1>2, AppendWhole DEF WriteFrame
<1>4. AllValid'
  BY <1>1, <1>3 DEF AllValid, ValidAt, Frame
<1>5. QED
  BY <1>1, <1>3, <1>4 DEF WriteFrame

(* A process that leaves open's path frees the lock only if it held it.    *)
LEMMA ExitKeeps ==
    ASSUME WriterInv, NEW p \in Procs, Exit(p)
    PROVE  WriterInv'
<1>1. TypeOK'
  <2>1. NoConfig \in ConfigType
    BY DEF NoConfig, ConfigType, SyncPolicies, TailPolicies
  <2>2. CASE owner = p
    <3>1. /\ pc' \in [Procs -> {"idle", "checked", "opened", "locked", "file_synced", "open"}]
          /\ created' \in [Procs -> BOOLEAN]
      BY DEF WriterInv, TypeOK, Exit
    <3>2. /\ last_lsn' = 0 /\ durable_through' = 0 /\ valid_length' = 0
          /\ unsynced_records' = 0 /\ poisoned' = FALSE /\ config' = NoConfig
          /\ owner' = None /\ UNCHANGED <<diskVars, confirmed>>
      BY <2>2 DEF Exit, Closed
    <3>3. unsynced_records' \in 0 .. MaxUnsynced
      BY <3>2, LimitsAssumption
    <3>4. QED
      BY <2>1, <3>1, <3>2, <3>3 DEF WriterInv, TypeOK, diskVars
  <2>3. CASE owner # p
    BY <2>3 DEF WriterInv, TypeOK, Exit, diskVars, fieldVars
  <2>4. QED
    BY <2>2, <2>3
<1>2. LockOwner'
  BY ProcsAssumption DEF WriterInv, TypeOK, LockOwner, Exit
<1>3. PlatterCoherent' /\ FileReachable'
  BY DEF WriterInv, TypeOK, PlatterCoherent, FileReachable, Exit, diskVars
<1>4. WriterCoherent'
  <2>1. CASE owner = p
    BY <2>1, ProcsAssumption DEF WriterInv, TypeOK, WriterCoherent, Exit
  <2>2. CASE owner # p
    BY <2>2 DEF WriterInv, TypeOK, WriterCoherent, AllValid, ValidAt, Open,
                Exit, diskVars, fieldVars
  <2>3. QED
    BY <2>1, <2>2
<1>5. QED
  BY <1>1, <1>2, <1>3, <1>4 DEF WriterInv

(* Power loss stops every process; what is left is a file of pieces.       *)
LEMMA PowerLossKeeps ==
    ASSUME WriterInv, PowerLoss
    PROVE  WriterInv'
<1> USE DEF WriterInv
<1>1. /\ Stopped /\ Settled
      /\ file' \in Seq(Frames) /\ tail' \in [units : Nat, len : Nat]
      /\ exists' \in BOOLEAN
  <2>1. CASE PowerLossClean
    BY <2>1 DEF PowerLossClean, TypeOK, Frames
  <2>2. CASE PowerLossDirty
    <3>1. PICK k \in synced .. Len(file) : \E lost \in SUBSET (synced + 1 .. k) :
             file' = [i \in 1 .. k |-> IF i \in lost THEN Junk ELSE file[i]]
      BY <2>2 DEF PowerLossDirty
    <3>2. k \in Nat /\ \A i \in 1 .. k : file[i] \in Frames
      BY <3>1 DEF TypeOK, Frames
    <3>3. file' \in Seq(Frames)
      BY <3>1, <3>2 DEF Frames
    <3>4. QED
      BY <2>2, <3>3, TailsTyped DEF PowerLossDirty, TypeOK
  <2>3. CASE PowerLossUnlinks
    <3>1. << >> \in Seq(Frames)
      BY EmptySeq
    <3>2. QED
      BY <2>3, <3>1, TailsTyped DEF PowerLossUnlinks
  <2>4. QED
    BY <2>1, <2>2, <2>3 DEF PowerLoss
<1>2. confirmed' = confirmed
  BY DEF PowerLoss, PowerLossClean, PowerLossDirty, PowerLossUnlinks
<1>3. TypeOK'
  <2>1. NoConfig \in ConfigType
    BY DEF NoConfig, ConfigType, SyncPolicies, TailPolicies
  <2>2. unsynced_records' \in 0 .. MaxUnsynced
    BY <1>1, LimitsAssumption DEF Stopped, Closed
  <2>3. synced' \in 0 .. Len(file') /\ stable' \in BOOLEAN /\ entry' \in BOOLEAN
    BY <1>1 DEF Settled
  <2>4. /\ pc' \in [Procs -> {"idle", "checked", "opened", "locked", "file_synced", "open"}]
        /\ created' \in [Procs -> BOOLEAN] /\ owner' \in Procs \cup {None}
    BY <1>1 DEF Stopped
  <2>5. /\ last_lsn' \in Nat /\ durable_through' \in Nat /\ valid_length' \in Nat
        /\ poisoned' \in BOOLEAN /\ config' = NoConfig
    BY <1>1 DEF Stopped, Closed
  <2>6. QED
    BY <1>1, <1>2, <2>1, <2>2, <2>3, <2>4, <2>5 DEF TypeOK, Frames
<1>4. PlatterCoherent'
  BY <1>1 DEF Settled, PlatterCoherent
<1>5. LockOwner' /\ FileReachable' /\ WriterCoherent'
  BY <1>1, ProcsAssumption DEF Stopped, LockOwner, FileReachable, WriterCoherent
<1>6. QED
  BY <1>3, <1>4, <1>5

(* The steps of open that take a process to the lock and sync a new file.  *)
LEMMA OpenPathKeeps ==
    ASSUME WriterInv, NEW p \in Procs,
           CheckPath(p) \/ OpenFile(p) \/ TryLock(p) \/ SyncNewFile(p) \/ SyncDirectory(p)
    PROVE  WriterInv'
<1> USE DEF WriterInv
<1>1. CASE CheckPath(p)
  <2>1. TypeOK'
    BY <1>1 DEF TypeOK, CheckPath, diskVars, fieldVars
  <2>2. LockOwner' /\ PlatterCoherent' /\ FileReachable'
    BY <1>1, ProcsAssumption
    DEF TypeOK, LockOwner, PlatterCoherent, FileReachable, CheckPath, diskVars
  <2>3. WriterCoherent'
    BY <1>1 DEF TypeOK, WriterCoherent, AllValid, ValidAt, Open, CheckPath, diskVars, fieldVars
  <2>4. QED
    BY <2>1, <2>2, <2>3
<1>2. CASE OpenFile(p)
  <2>1. TypeOK'
    BY <1>2 DEF TypeOK, OpenFile, fieldVars
  <2>2. LockOwner' /\ PlatterCoherent' /\ FileReachable'
    BY <1>2, ProcsAssumption
    DEF TypeOK, LockOwner, PlatterCoherent, FileReachable, OpenFile
  <2>3. WriterCoherent'
    BY <1>2 DEF TypeOK, WriterCoherent, AllValid, ValidAt, Open, OpenFile, fieldVars
  <2>4. QED
    BY <2>1, <2>2, <2>3
<1>3. CASE TryLock(p)
  <2>1. TypeOK'
    BY <1>3 DEF TypeOK, TryLock, diskVars, fieldVars
  <2>2. LockOwner' /\ PlatterCoherent' /\ FileReachable'
    BY <1>3, ProcsAssumption
    DEF TypeOK, LockOwner, PlatterCoherent, FileReachable, TryLock, diskVars
  <2>3. WriterCoherent'
    BY <1>3 DEF TypeOK, WriterCoherent, Open, TryLock
  <2>4. QED
    BY <2>1, <2>2, <2>3
<1>4. CASE SyncNewFile(p)
  <2>1. TypeOK'
    BY <1>4, EntryAssumption DEF TypeOK, SyncNewFile, SyncFile, fieldVars
  <2>2. LockOwner' /\ PlatterCoherent' /\ FileReachable'
    BY <1>4, ProcsAssumption
    DEF TypeOK, LockOwner, PlatterCoherent, FileReachable, SyncNewFile, SyncFile
  <2>3. WriterCoherent'
    BY <1>4 DEF TypeOK, WriterCoherent, AllValid, ValidAt, Open, SyncNewFile, fieldVars
  <2>4. QED
    BY <2>1, <2>2, <2>3
<1>5. CASE SyncDirectory(p)
  <2>1. TypeOK'
    BY <1>5 DEF TypeOK, SyncDirectory, fieldVars
  <2>2. LockOwner' /\ PlatterCoherent' /\ FileReachable'
    BY <1>5, ProcsAssumption
    DEF TypeOK, LockOwner, PlatterCoherent, FileReachable, SyncDirectory
  <2>3. WriterCoherent'
    BY <1>5 DEF TypeOK, WriterCoherent, AllValid, ValidAt, Open, SyncDirectory, fieldVars
  <2>4. QED
    BY <2>1, <2>2, <2>3
<1>6. QED
  BY <1>1, <1>2, <1>3, <1>4, <1>5

(* What a scan accepts is a gapless sequence of frames, and the fields the *)
(* writer takes from the report describe it.                               *)
LEMMA ScanKeeps ==
    ASSUME WriterInv, NEW p \in Procs, NEW c \in Configs,
           ScanClean(p, c) \/ ScanRepairs(p, c) \/ RepairSyncFails(p, c)
    PROVE  WriterInv'
<1> USE DEF WriterInv
<1>1. pc[p] = "locked" /\ owner = p /\ exists /\ AllValid /\ c \in ConfigType
  BY ConfigsAssumption
  DEF ScanClean, ScanRepairs, RepairSyncFails, ScanRefuses, LockOwner, FileReachable
<1>2. file \in Seq(Frames) /\ Len(file) \in Nat
  BY DEF TypeOK, Frames
<1>3. CASE ScanClean(p, c)
  <2>1. TypeOK'
    <3>1. unsynced_records' \in 0 .. MaxUnsynced
      BY <1>3, LimitsAssumption DEF ScanClean, TakeReport
    <3>2. QED
      BY <1>1, <1>2, <1>3, <3>1 DEF TypeOK, ScanClean, TakeReport, diskVars
  <2>2. LockOwner' /\ PlatterCoherent' /\ FileReachable'
    BY <1>1, <1>3, ProcsAssumption
    DEF TypeOK, LockOwner, PlatterCoherent, FileReachable, ScanClean, diskVars
  <2>3. WriterCoherent'
    BY <1>1, <1>3 DEF WriterCoherent, AllValid, ValidAt, ScanClean, TakeReport, diskVars
  <2>4. QED
    BY <2>1, <2>2, <2>3
<1>4. CASE ScanRepairs(p, c)
  <2>1. file \in Seq(FrameType)
    <3>1. SubSeq(file, 1, Len(file)) \in Seq(FrameType)
      BY <1>1, <1>2, ValidFrames DEF AllValid, ValidAt
    <3>2. QED
      BY <1>2, <3>1, SubSeqFull
  <2>2. TypeOK'
    <3>1. unsynced_records' \in 0 .. MaxUnsynced
      BY <1>4, LimitsAssumption DEF ScanRepairs, TakeReport
    <3>2. synced' \in 0 .. Len(file') /\ stable' \in BOOLEAN /\ entry' \in BOOLEAN
      BY <1>2, <1>4, EntryAssumption DEF TypeOK, ScanRepairs, SyncFile
    <3>3. QED
      BY <1>1, <1>2, <1>4, <2>1, <3>1, <3>2, TailsTyped
      DEF TypeOK, ScanRepairs, TakeReport
  <2>3. LockOwner' /\ PlatterCoherent' /\ FileReachable'
    BY <1>1, <1>4, ProcsAssumption
    DEF TypeOK, LockOwner, PlatterCoherent, FileReachable, ScanRepairs, SyncFile
  <2>4. WriterCoherent'
    BY <1>1, <1>4 DEF WriterCoherent, AllValid, ValidAt, ScanRepairs, TakeReport
  <2>5. QED
    BY <2>2, <2>3, <2>4
<1>5. CASE RepairSyncFails(p, c)
  <2>1. TypeOK'
    BY <1>5, TailsTyped DEF TypeOK, RepairSyncFails, fieldVars
  <2>2. LockOwner' /\ PlatterCoherent' /\ FileReachable' /\ WriterCoherent'
    BY <1>1, <1>5, ProcsAssumption
    DEF TypeOK, LockOwner, PlatterCoherent, FileReachable, WriterCoherent, RepairSyncFails
  <2>3. QED
    BY <2>1, <2>2
<1>6. QED
  BY <1>3, <1>4, <1>5

(* Appends, flushes and replays leave a coherent or a poisoned writer.     *)
LEMMA WriterStepKeeps ==
    ASSUME WriterInv,
           (\E r \in Records : AppendStep(r)) \/ Flush \/ Replay \/ FlushFails
    PROVE  WriterInv'
<1> USE DEF WriterInv
<1>1. ASSUME NEW r \in Records, MayAppend(r), WriteFrame(r),
             synced' \in 0 .. Len(file'), stable' \in BOOLEAN, entry' \in BOOLEAN,
             stable' => synced' = Len(file'),
             durable_through' \in Nat, unsynced_records' \in 0 .. MaxUnsynced,
             poisoned' \in BOOLEAN, confirmed' \in Seq(FrameType)
      PROVE  WriterInv'
  <2>1. TypeOK'
    BY <1>1, WriteFrameAppends, TailsTyped DEF TypeOK, WriteFrame, Frames, openVars
  <2>2. LockOwner' /\ PlatterCoherent' /\ FileReachable'
    BY <1>1 DEF LockOwner, PlatterCoherent, FileReachable, WriteFrame, openVars
  <2>3. WriterCoherent'
    BY <1>1, WriteFrameAppends DEF WriterCoherent, WriteFrame
  <2>4. QED
    BY <2>1, <2>2, <2>3
<1>2. ASSUME NEW r \in Records, MayAppend(r), WriteFrame(r)
      PROVE  /\ Len(file') \in Nat /\ last_lsn' \in Nat
             /\ synced \in 0 .. Len(file')
             /\ SubSeq(file', 1, last_lsn') \in Seq(FrameType)
  <2>1. /\ file' \in Seq(Frames) /\ last_lsn' = Len(file') /\ last_lsn' \in Nat
        /\ Len(file') = Len(file) + 1 /\ AllValid'
    BY <1>2, WriteFrameAppends
  <2>2. \A i \in 1 .. last_lsn' : file'[i].lsn = i
    BY <2>1 DEF AllValid, ValidAt
  <2>3. SubSeq(file', 1, last_lsn') \in Seq(FrameType)
    BY <2>1, <2>2, ValidFrames
  <2>4. synced \in 0 .. Len(file')
    <3>1. synced \in 0 .. Len(file) /\ Len(file) \in Nat
      BY DEF TypeOK
    <3>2. QED
      BY <2>1, <3>1
  <2>5. QED
    BY <2>1, <2>3, <2>4
<1>3. ASSUME NEW r \in Records, AppendSynced(r)
      PROVE  WriterInv'
  <2>1. MayAppend(r) /\ WriteFrame(r)
    BY <1>3 DEF AppendSynced
  <2>2. QED
    BY <1>1, <1>2, <1>3, <2>1, LimitsAssumption, EntryAssumption
    DEF AppendSynced, Confirm, SyncFile, TypeOK
<1>4. ASSUME NEW r \in Records, AppendUnsynced(r)
      PROVE  WriterInv'
  <2>1. MayAppend(r) /\ WriteFrame(r)
    BY <1>4 DEF AppendUnsynced
  <2>2. unsynced_records' \in 0 .. MaxUnsynced
    BY <1>4, LimitsAssumption DEF AppendUnsynced, TypeOK
  <2>3. stable' = FALSE /\ UNCHANGED <<entry, synced, durable_through, confirmed>>
        /\ poisoned' \in BOOLEAN
    BY <1>4 DEF AppendUnsynced, TypeOK
  <2>4. QED
    BY <1>1, <1>2, <2>1, <2>2, <2>3 DEF TypeOK
<1>5. ASSUME NEW r \in Records, AppendSyncFails(r)
      PROVE  WriterInv'
  <2>1. MayAppend(r) /\ WriteFrame(r)
    BY <1>5 DEF AppendSyncFails
  <2>2. unsynced_records' \in 0 .. MaxUnsynced
    BY <1>5, LimitsAssumption DEF AppendSyncFails, TypeOK
  <2>3. stable' = FALSE /\ UNCHANGED <<entry, synced, durable_through, confirmed>>
        /\ poisoned' \in BOOLEAN
    BY <1>5 DEF AppendSyncFails, TypeOK
  <2>4. QED
    BY <1>1, <1>2, <2>1, <2>2, <2>3 DEF TypeOK
<1>6. ASSUME NEW r \in Records, AppendOverflows(r)
      PROVE  WriterInv'
  <2>1. MayAppend(r) /\ WriteFrame(r)
    BY <1>6 DEF AppendOverflows
  <2>2. QED
    BY <1>1, <1>2, <1>6, <2>1, LimitsAssumption DEF AppendOverflows, TypeOK
<1>7. ASSUME NEW r \in Records, NEW t \in {NoTail} \cup TailsOf(r), AppendWriteFails(r, t)
      PROVE  WriterInv'
  <2>1. /\ owner \in Procs /\ pc[owner] = "open" /\ exists /\ AllValid
        /\ last_lsn = Len(file) /\ valid_length = Len(file) /\ file \in Seq(Frames)
    BY <1>7 DEF TypeOK, WriterCoherent, AppendWriteFails, MayAppend, Writable, Open, Frames
  <2>2. file' = file
    BY <1>7, <2>1, SubSeqFull DEF AppendWriteFails
  <2>3. TypeOK'
    BY <1>7, <2>2, TailsTyped DEF TypeOK, AppendWriteFails, openVars
  <2>4. LockOwner' /\ PlatterCoherent' /\ FileReachable'
    BY <1>7, <2>2
    DEF TypeOK, LockOwner, PlatterCoherent, FileReachable, AppendWriteFails, openVars
  <2>5. WriterCoherent'
    BY <1>7, <2>1, <2>2 DEF WriterCoherent, AllValid, ValidAt, AppendWriteFails, openVars
  <2>6. QED
    BY <2>3, <2>4, <2>5
<1>8. ASSUME Writable
      PROVE  /\ exists /\ AllValid /\ tail = NoTail
             /\ last_lsn = Len(file) /\ valid_length = Len(file)
             /\ SubSeq(file, 1, last_lsn) = file /\ file \in Seq(FrameType)
             /\ Len(file) \in Nat
  <2>1. /\ exists /\ AllValid /\ tail = NoTail /\ last_lsn = Len(file)
        /\ valid_length = Len(file) /\ file \in Seq(Frames) /\ Len(file) \in Nat
    BY <1>8 DEF TypeOK, Writable, WriterCoherent, Frames
  <2>2. SubSeq(file, 1, Len(file)) = file
    BY <2>1, SubSeqFull
  <2>3. SubSeq(file, 1, Len(file)) \in Seq(FrameType)
    BY <2>1, ValidFrames DEF AllValid, ValidAt
  <2>4. QED
    BY <2>1, <2>2, <2>3
<1>9. CASE Flush \/ Replay
  <2>1. Writable
    BY <1>9 DEF Flush, Replay
  <2>2. /\ UNCHANGED <<exists, file, tail, openVars, config, poisoned, last_lsn, valid_length>>
        /\ synced' = Len(file) /\ stable' = TRUE
        /\ entry' = (entry \/ FsyncPersistsEntry)
        /\ durable_through' = Len(file) /\ unsynced_records' = 0
        /\ confirmed' = file
    BY <1>8, <1>9, <2>1 DEF Flush, Replay, Confirm, SyncFile, TakeReport
  <2>3. unsynced_records' \in 0 .. MaxUnsynced /\ synced' \in 0 .. Len(file')
    BY <1>8, <2>1, <2>2, LimitsAssumption
  <2>4. TypeOK'
    BY <1>8, <2>1, <2>2, <2>3, EntryAssumption DEF TypeOK, openVars
  <2>5. LockOwner' /\ PlatterCoherent' /\ FileReachable'
    BY <2>2 DEF LockOwner, PlatterCoherent, FileReachable, openVars
  <2>6. WriterCoherent'
    BY <2>2 DEF WriterCoherent, AllValid, ValidAt, Open, openVars
  <2>7. QED
    BY <2>4, <2>5, <2>6
<1>10. CASE FlushFails
  BY <1>10 DEF FlushFails, TypeOK, LockOwner, PlatterCoherent, FileReachable,
               WriterCoherent, AllValid, ValidAt, Open, diskVars, openVars
<1>11. QED
  BY <1>3, <1>4, <1>5, <1>6, <1>7, <1>9, <1>10 DEF AppendStep

(* Nothing is open, and the missing file is empty.                         *)
LEMMA InitWriterInv == Init => WriterInv
<1> SUFFICES ASSUME Init PROVE WriterInv
  OBVIOUS
<1>1. NoConfig \in ConfigType
  BY DEF NoConfig, ConfigType, SyncPolicies, TailPolicies
<1>2. TypeOK
  <2>1. << >> \in Seq(Frames) /\ << >> \in Seq(FrameType) /\ Len(<< >>) = 0
    BY EmptySeq
  <2>2. 0 \in 0 .. MaxUnsynced
    BY LimitsAssumption
  <2>3. /\ file \in Seq(Frames) /\ confirmed \in Seq(FrameType) /\ synced \in 0 .. Len(file)
        /\ unsynced_records \in 0 .. MaxUnsynced
    BY <2>1, <2>2 DEF Init
  <2>4. /\ pc \in [Procs -> {"idle", "checked", "opened", "locked", "file_synced", "open"}]
        /\ created \in [Procs -> BOOLEAN]
        /\ exists \in BOOLEAN /\ entry \in BOOLEAN /\ stable \in BOOLEAN
        /\ poisoned \in BOOLEAN
    BY DEF Init
  <2>5. QED
    BY <1>1, <2>3, <2>4, TailsTyped DEF Init, TypeOK, Frames
<1>3. LockOwner /\ PlatterCoherent /\ FileReachable /\ WriterCoherent
  BY ProcsAssumption, EmptySeq
  DEF Init, LockOwner, PlatterCoherent, FileReachable, WriterCoherent
<1>4. QED
  BY <1>2, <1>3 DEF WriterInv

(* A stuttering step changes nothing the invariant reads.                  *)
LEMMA StutterWriterInv == WriterInv /\ UNCHANGED vars => WriterInv'
BY DEF WriterInv, vars, diskVars, openVars, fieldVars, TypeOK, LockOwner,
       PlatterCoherent, FileReachable, WriterCoherent, AllValid, ValidAt, Open

(* Every step of the specification keeps the invariant.                    *)
LEMMA WriterInvStep == WriterInv /\ [Next]_vars => WriterInv'
<1> SUFFICES ASSUME WriterInv, [Next]_vars PROVE WriterInv'
  OBVIOUS
<1>1. ASSUME NEW p \in Procs, OpenStep(p) PROVE WriterInv'
  BY <1>1, OpenPathKeeps, ScanKeeps, ExitKeeps DEF OpenStep
<1>2. CASE PowerLoss
  BY <1>2, PowerLossKeeps
<1>3. CASE (\E r \in Records : AppendStep(r)) \/ Flush \/ Replay \/ FlushFails
  BY <1>3, WriterStepKeeps
<1>4. CASE UNCHANGED vars
  BY <1>4, StutterWriterInv
<1>5. QED
  BY <1>1, <1>2, <1>3, <1>4 DEF Next

(* For every number of processes and every configuration the writer's      *)
(* fields are well typed, one process holds the lock, and an open writer's *)
(* position and LSN are those of a gapless file with no torn piece.        *)
THEOREM WriterIsCoherent == Spec => [](TypeOK /\ LockOwner /\ WriterCoherent)
<1>1. WriterInv => TypeOK /\ LockOwner /\ WriterCoherent
  BY DEF WriterInv
<1>2. QED
  BY <1>1, InitWriterInv, WriterInvStep, PTL DEF Spec

(* The accounting of unsynced records survives every step: it is renewed   *)
(* by a scan or a sync, moved by one record by an append, and meaningless  *)
(* without a usable writer.                                                *)
LEMMA AccountingKept ==
    ASSUME WriterInv, UnsyncedAccounting, [Next]_vars
    PROVE  UnsyncedAccounting'
<1>1. last_lsn \in Nat /\ durable_through \in Nat /\ unsynced_records \in 0 .. MaxUnsynced
  BY DEF WriterInv, TypeOK
<1>2. unsynced_records' \in 0 .. MaxUnsynced
  BY WriterInvStep DEF WriterInv, TypeOK
<1>3. CASE ~Writable'
  BY <1>3 DEF UnsyncedAccounting
<1>4. ASSUME last_lsn' \in Nat, durable_through' = last_lsn', unsynced_records' = 0
      PROVE  UnsyncedAccounting'
  <2>1. unsynced_records' <= MaxUnsynced
    BY <1>2, <1>4, LimitsAssumption
  <2>2. ASSUME NEW x \in Nat, NEW y \in Nat, NEW z \in Nat, x <= y, y <= x, z <= 0
        PROVE  x + z = y
    BY <2>2
  <2>3. durable_through' + unsynced_records' = last_lsn'
    <3>1. /\ durable_through' \in Nat /\ last_lsn' \in Nat /\ unsynced_records' \in Nat
          /\ durable_through' <= last_lsn' /\ last_lsn' <= durable_through'
          /\ unsynced_records' <= 0
      BY <1>4
    <3>2. QED
      BY <2>2, <3>1
  <2>4. QED
    BY <1>4, <2>1, <2>3 DEF UnsyncedAccounting
<1>5. CASE UNCHANGED <<fieldVars, config>> /\ (Writable' => Writable)
  BY <1>5 DEF UnsyncedAccounting, fieldVars
<1>6. ASSUME NEW r \in Records, AppendStep(r)
      PROVE  UnsyncedAccounting'
  <2>1. CASE AppendSynced(r)
    BY <1>1, <1>4, <2>1 DEF AppendSynced, WriteFrame, Confirm
  <2>2. CASE AppendUnsynced(r)
    <3>1. /\ last_lsn' = last_lsn + 1 /\ unsynced_records' = unsynced_records + 1
          /\ UNCHANGED <<durable_through, config>> /\ Writable /\ ~MustSync
      BY <2>2 DEF AppendUnsynced, WriteFrame, MayAppend
    <3>2. durable_through' + unsynced_records' = last_lsn'
      BY <1>1, <3>1 DEF UnsyncedAccounting
    <3>3. QED
      BY <1>2, <3>1, <3>2, LimitsAssumption, <1>1, WriterInvStep
      DEF UnsyncedAccounting, MustSync, WriterInv, TypeOK, ConfigType
  <2>3. CASE AppendSyncFails(r) \/ AppendOverflows(r)
             \/ \E t \in {NoTail} \cup TailsOf(r) : AppendWriteFails(r, t)
    BY <1>3, <2>3 DEF AppendSyncFails, AppendOverflows, AppendWriteFails, Writable
  <2>4. QED
    BY <1>6, <2>1, <2>2, <2>3 DEF AppendStep
<1>7. ASSUME NEW p \in Procs, OpenStep(p)
      PROVE  UnsyncedAccounting'
  <2>1. CASE CheckPath(p) \/ OpenFile(p) \/ TryLock(p) \/ SyncNewFile(p) \/ SyncDirectory(p)
    <3>1. UNCHANGED <<fieldVars, config>>
      BY <2>1 DEF CheckPath, OpenFile, TryLock, SyncNewFile, SyncDirectory
    <3>2. Writable' => Writable
      BY <2>1 DEF WriterInv, TypeOK, CheckPath, OpenFile, TryLock, SyncNewFile, SyncDirectory,
                  Writable, Open, fieldVars
    <3>3. QED
      BY <1>5, <3>1, <3>2
  <2>2. ASSUME NEW c \in Configs, ScanClean(p, c) \/ ScanRepairs(p, c)
        PROVE  UnsyncedAccounting'
    BY <1>4, <2>2 DEF ScanClean, ScanRepairs, TakeReport, WriterInv, TypeOK
  <2>3. ASSUME NEW c \in Configs, RepairSyncFails(p, c)
        PROVE  UnsyncedAccounting'
    BY <1>3, <2>3 DEF RepairSyncFails, Writable
  <2>4. CASE Exit(p)
    <3>1. CASE owner = p
      BY <1>3, <2>4, <3>1 DEF Exit, Writable
    <3>2. CASE owner # p
      BY <1>5, <2>4, <3>2 DEF Exit, Writable, Open, WriterInv, TypeOK, fieldVars
    <3>3. QED
      BY <3>1, <3>2
  <2>5. QED
    BY <1>7, <2>1, <2>2, <2>3, <2>4 DEF OpenStep
<1>8. CASE Flush
  BY <1>1, <1>4, <1>8 DEF Flush, Confirm
<1>9. CASE Replay
  BY <1>4, <1>9 DEF Replay, TakeReport, WriterInv, TypeOK
<1>10. CASE FlushFails
  BY <1>3, <1>10 DEF FlushFails, Writable
<1>11. CASE PowerLoss
  <2>1. owner' = None
    BY <1>11 DEF PowerLoss, PowerLossClean, PowerLossDirty, PowerLossUnlinks, Stopped
  <2>2. QED
    BY <1>3, <2>1 DEF Writable
<1>12. CASE UNCHANGED vars
  BY <1>5, <1>12 DEF vars, openVars, Writable, Open, fieldVars
<1>13. QED
  BY <1>6, <1>7, <1>8, <1>9, <1>10, <1>11, <1>12 DEF Next

(* Between the calls of a usable writer the records past the reported      *)
(* frontier are exactly those counted as unsynced, and the sync policy's   *)
(* bound on them holds, for every policy, process and failure.             *)
THEOREM UnsyncedAreCounted == Spec => []UnsyncedAccounting
<1>1. Init => UnsyncedAccounting
  BY DEF Init, UnsyncedAccounting, Writable
<1>2. WriterInv /\ UnsyncedAccounting /\ [Next]_vars => UnsyncedAccounting'
  BY AccountingKept
<1>3. QED
  BY <1>1, <1>2, InitWriterInv, WriterInvStep, PTL DEF Spec

---------------------------------------------------------------------------
(* Confirmed records.                                                      *)

(* What a step does to the records already confirmed.                      *)
KeepsConfirmed ==
    /\ Len(confirmed') >= Len(confirmed)
    /\ \A i \in 1 .. Len(confirmed) : confirmed'[i] = confirmed[i]

(* A step that confirms nothing new must leave the confirmed part of the   *)
(* platter and the directory entry alone.                                  *)
LEMMA Undisturbed ==
    ASSUME TypeOK, ConfirmedOnPlatter, confirmed' = confirmed,
           synced' \in Int, Len(confirmed) <= synced',
           \A i \in 1 .. Len(confirmed) : file'[i] = file[i],
           confirmed # << >> => exists' /\ entry'
    PROVE  ConfirmedOnPlatter' /\ KeepsConfirmed
<1>1. Len(confirmed) \in Nat
  BY DEF TypeOK
<1>2. QED
  BY <1>1 DEF ConfirmedOnPlatter, KeepsConfirmed

(* A completed sync of a file of valid frames that extends the old one     *)
(* confirms every record, provided it also persists the entry.             *)
LEMMA SyncConfirms ==
    ASSUME FsyncPersistsEntry, TypeOK, ConfirmedOnPlatter,
           exists', entry' = (entry \/ FsyncPersistsEntry),
           file' \in Seq(Frames), AllValid', synced' = Len(file'),
           Len(file) <= Len(file'),
           \A i \in 1 .. Len(file) : file'[i] = file[i],
           confirmed' = file'
    PROVE  ConfirmedOnPlatter' /\ KeepsConfirmed
<1>1. /\ Len(confirmed) \in Nat /\ Len(file) \in Nat /\ Len(file') \in Nat
      /\ synced <= Len(file) /\ synced \in Int
  BY DEF TypeOK
<1>2. ConfirmedOnPlatter'
  <2>1. Len(confirmed') <= synced'
    BY <1>1
  <2>2. \A i \in 1 .. Len(confirmed') : confirmed'[i] = file'[i] /\ confirmed'[i].lsn = i
    BY DEF AllValid, ValidAt
  <2>3. exists' /\ entry'
    OBVIOUS
  <2>4. QED
    BY <2>1, <2>2, <2>3 DEF ConfirmedOnPlatter
<1>3. KeepsConfirmed
  BY <1>1 DEF ConfirmedOnPlatter, KeepsConfirmed
<1>4. QED
  BY <1>2, <1>3

(* Opening confirms nothing: its scan drops only what was never confirmed. *)
LEMMA OpenStepConfirmed ==
    ASSUME FsyncPersistsEntry, WriterInv, ConfirmedOnPlatter,
           NEW p \in Procs, OpenStep(p)
    PROVE  ConfirmedOnPlatter' /\ KeepsConfirmed
<1>1. TypeOK /\ synced \in Int /\ Len(file) \in Int /\ synced <= Len(file)
      /\ Len(confirmed) \in Nat /\ Len(confirmed) <= synced
  BY DEF WriterInv, TypeOK, ConfirmedOnPlatter
<1>2. CASE CheckPath(p) \/ OpenFile(p) \/ TryLock(p) \/ SyncDirectory(p) \/ Exit(p)
  <2>1. /\ file' = file /\ synced' = synced /\ confirmed' = confirmed
        /\ (exists => exists') /\ (entry => entry')
    <3>1. CASE SyncDirectory(p)
      BY <3>1, Zenon DEF SyncDirectory
    <3>2. CASE CheckPath(p) \/ OpenFile(p) \/ TryLock(p) \/ Exit(p)
      BY <3>2 DEF CheckPath, OpenFile, TryLock, Exit, diskVars
    <3>3. QED
      BY <1>2, <3>1, <3>2
  <2>2. QED
    BY <1>1, <2>1, Undisturbed DEF ConfirmedOnPlatter
<1>3. CASE SyncNewFile(p)
  <2>1. /\ file' = file /\ synced' = Len(file) /\ confirmed' = confirmed
        /\ exists' = exists /\ (entry => entry')
    BY <1>3 DEF SyncNewFile, SyncFile
  <2>2. QED
    BY <1>1, <2>1, Undisturbed DEF ConfirmedOnPlatter
<1>4. ASSUME NEW c \in Configs, ScanClean(p, c) \/ RepairSyncFails(p, c)
      PROVE  ConfirmedOnPlatter' /\ KeepsConfirmed
  BY <1>1, <1>4, Undisturbed DEF ConfirmedOnPlatter, ScanClean, RepairSyncFails, diskVars
<1>5. ASSUME NEW c \in Configs, ScanRepairs(p, c)
      PROVE  ConfirmedOnPlatter' /\ KeepsConfirmed
  <2>1. /\ exists' /\ file' = file /\ AllValid /\ synced' = Len(file')
        /\ entry' = (entry \/ FsyncPersistsEntry) /\ confirmed' = file'
    BY <1>5 DEF WriterInv, FileReachable, ScanRepairs, ScanRefuses, SyncFile
  <2>2. file' \in Seq(Frames) /\ AllValid'
    BY <2>1 DEF WriterInv, TypeOK, Frames, AllValid, ValidAt
  <2>3. QED
    BY <1>1, <2>1, <2>2, SyncConfirms
<1>6. QED
  BY <1>2, <1>3, <1>4, <1>5 DEF OpenStep

(* An append confirms a frame only after the sync that made it durable.    *)
LEMMA AppendStepConfirmed ==
    ASSUME FsyncPersistsEntry, WriterInv, ConfirmedOnPlatter,
           NEW r \in Records, AppendStep(r)
    PROVE  ConfirmedOnPlatter' /\ KeepsConfirmed
<1>1. TypeOK /\ synced \in Int /\ Len(file) \in Int /\ synced <= Len(file)
      /\ Len(confirmed) \in Nat /\ Len(confirmed) <= synced
  BY DEF WriterInv, TypeOK, ConfirmedOnPlatter
<1>2. CASE AppendSynced(r)
  <2>1. MayAppend(r) /\ WriteFrame(r)
    BY <1>2 DEF AppendSynced
  <2>2. /\ exists' /\ file' \in Seq(Frames) /\ AllValid' /\ last_lsn' = Len(file')
        /\ Len(file) <= Len(file') /\ \A i \in 1 .. Len(file) : file'[i] = file[i]
    BY <1>1, <2>1, WriteFrameAppends
  <2>3. SubSeq(file', 1, Len(file')) = file'
    BY <2>2, SubSeqFull
  <2>4. /\ synced' = Len(file') /\ entry' = (entry \/ FsyncPersistsEntry)
        /\ confirmed' = file'
    BY <1>2, <2>2, <2>3 DEF AppendSynced, Confirm, SyncFile
  <2>5. QED
    BY <1>1, <2>2, <2>4, SyncConfirms
<1>3. CASE AppendUnsynced(r) \/ AppendSyncFails(r) \/ AppendOverflows(r)
  <2>1. /\ MayAppend(r) /\ WriteFrame(r)
        /\ UNCHANGED <<entry, synced, confirmed>>
    BY <1>3 DEF AppendUnsynced, AppendSyncFails, AppendOverflows
  <2>2. exists' = exists /\ \A i \in 1 .. Len(file) : file'[i] = file[i]
    BY <2>1, WriteFrameAppends DEF WriteFrame
  <2>3. QED
    BY <1>1, <2>1, <2>2, Undisturbed DEF ConfirmedOnPlatter
<1>4. ASSUME NEW t \in {NoTail} \cup TailsOf(r), AppendWriteFails(r, t)
      PROVE  ConfirmedOnPlatter' /\ KeepsConfirmed
  <2>1. file \in Seq(Frames) /\ valid_length = Len(file)
    BY <1>4
    DEF WriterInv, TypeOK, WriterCoherent, AppendWriteFails, MayAppend, Writable, Open, Frames
  <2>2. file' = file
    BY <1>4, <2>1, SubSeqFull DEF AppendWriteFails
  <2>3. QED
    BY <1>1, <1>4, <2>2, Undisturbed DEF ConfirmedOnPlatter, AppendWriteFails
<1>5. QED
  BY <1>2, <1>3, <1>4 DEF AppendStep

(* A flush confirms what its sync just made durable.                       *)
LEMMA FlushConfirmed ==
    ASSUME FsyncPersistsEntry, WriterInv, ConfirmedOnPlatter, Flush \/ Replay
    PROVE  ConfirmedOnPlatter' /\ KeepsConfirmed
<1>1. /\ TypeOK /\ file \in Seq(Frames) /\ Len(file) \in Int
      /\ exists /\ AllValid /\ last_lsn = Len(file)
  BY DEF WriterInv, TypeOK, WriterCoherent, Flush, Replay, Writable, Frames
<1>2. SubSeq(file, 1, Len(file)) = file
  BY <1>1, SubSeqFull
<1>3. /\ file' = file /\ exists' = exists /\ synced' = Len(file')
      /\ entry' = (entry \/ FsyncPersistsEntry) /\ confirmed' = file'
  BY <1>1, <1>2 DEF Flush, Replay, Confirm, SyncFile
<1>4. AllValid'
  BY <1>1, <1>3 DEF AllValid, ValidAt
<1>5. QED
  BY <1>1, <1>3, <1>4, SyncConfirms

(* A power loss keeps the synced part, and with it all that was confirmed. *)
LEMMA PowerLossConfirmed ==
    ASSUME WriterInv, ConfirmedOnPlatter, PowerLoss
    PROVE  ConfirmedOnPlatter' /\ KeepsConfirmed
<1>1. TypeOK /\ synced \in Int /\ Len(file) \in Int /\ synced <= Len(file)
      /\ Len(confirmed) \in Nat /\ Len(confirmed) <= synced
  BY DEF WriterInv, TypeOK, ConfirmedOnPlatter
<1>2. CASE PowerLossClean
  BY <1>1, <1>2, Undisturbed
  DEF WriterInv, PlatterCoherent, ConfirmedOnPlatter, PowerLossClean, Settled
<1>3. CASE PowerLossDirty
  <2>1. PICK k \in synced .. Len(file) : \E lost \in SUBSET (synced + 1 .. k) :
           file' = [i \in 1 .. k |-> IF i \in lost THEN Junk ELSE file[i]]
    BY <1>3 DEF PowerLossDirty
  <2>2. k \in Nat /\ synced <= k /\ Len(file') = k
    BY <1>1, <2>1
  <2>3. \A i \in 1 .. Len(confirmed) : file'[i] = file[i]
    BY <1>1, <2>1, <2>2
  <2>4. QED
    BY <1>1, <1>3, <2>2, <2>3, Undisturbed DEF ConfirmedOnPlatter, PowerLossDirty, Settled
<1>4. CASE PowerLossUnlinks
  <2>1. confirmed = << >>
    BY <1>4 DEF ConfirmedOnPlatter, PowerLossUnlinks
  <2>2. Len(confirmed) = 0 /\ synced' = 0
    BY <1>4, <2>1, EmptySeq DEF PowerLossUnlinks, Settled
  <2>3. QED
    BY <1>1, <1>4, <2>1, <2>2, Undisturbed DEF PowerLossUnlinks
<1>5. QED
  BY <1>2, <1>3, <1>4 DEF PowerLoss

(* Every step keeps confirmed records on the platter and in their place.   *)
LEMMA ConfirmedStep ==
    ASSUME FsyncPersistsEntry, WriterInv, ConfirmedOnPlatter, [Next]_vars
    PROVE  ConfirmedOnPlatter' /\ KeepsConfirmed
<1>1. ASSUME FlushFails \/ UNCHANGED vars
      PROVE  ConfirmedOnPlatter' /\ KeepsConfirmed
  <2>1. TypeOK /\ UNCHANGED <<diskVars, confirmed>>
    BY <1>1 DEF WriterInv, FlushFails, vars
  <2>2. QED
    BY <2>1, Undisturbed DEF ConfirmedOnPlatter, TypeOK, diskVars
<1>2. QED
  BY <1>1, OpenStepConfirmed, AppendStepConfirmed, FlushConfirmed, PowerLossConfirmed DEF Next

(* On a file system whose fsync persists the directory entry, a record     *)
(* reported durable after a sync is on the platter at its LSN from then    *)
(* on, whatever crashes, failures, repairs and reopenings follow.          *)
THEOREM ConfirmedSurvives ==
    ASSUME FsyncPersistsEntry PROVE Spec => []ConfirmedOnPlatter
<1>1. Init => WriterInv /\ ConfirmedOnPlatter
  <2>1. Len(<< >>) = 0
    BY EmptySeq
  <2>2. QED
    BY <2>1, InitWriterInv DEF Init, ConfirmedOnPlatter
<1>2. WriterInv /\ ConfirmedOnPlatter /\ [Next]_vars => ConfirmedOnPlatter'
  BY ConfirmedStep
<1>3. WriterInv /\ [Next]_vars => WriterInv'
  BY WriterInvStep
<1>4. QED
  BY <1>1, <1>2, <1>3, PTL DEF Spec

(* ... and its LSN is never given to another record.                       *)
THEOREM ConfirmedIsForever ==
    ASSUME FsyncPersistsEntry PROVE Spec => ConfirmedNeverReassigned
<1>1. WriterInv /\ ConfirmedOnPlatter /\ [Next]_vars =>
         [/\ Len(confirmed') >= Len(confirmed)
          /\ \A i \in 1 .. Len(confirmed) : confirmed'[i] = confirmed[i]]_vars
  BY ConfirmedStep DEF KeepsConfirmed
<1>2. Init => WriterInv
  BY InitWriterInv
<1>3. WriterInv /\ [Next]_vars => WriterInv'
  BY WriterInvStep
<1>4. QED
  BY <1>1, <1>2, <1>3, ConfirmedSurvives, PTL DEF Spec, ConfirmedNeverReassigned

---------------------------------------------------------------------------
(* What a strict reader accepts.                                           *)

(* A reader of s stops after its first k pieces.                           *)
Reads(s, k) ==
    /\ k \in 0 .. Len(s)
    /\ \A i \in 1 .. k : s[i].lsn = i
    /\ k < Len(s) => s[k + 1].lsn # k + 1

RecordsOf(s, k) == [i \in 1 .. k |-> s[i].rec]

(* A set of naturals that is not empty has a least member.                 *)
LEMMA LeastMember ==
    ASSUME NEW T, T \subseteq Nat, T # {}
    PROVE  \E x \in T : \A y \in T : x <= y
<1> DEFINE Less == {pair \in Nat \X Nat : pair[1] < pair[2]}
<1>1. IsWellFoundedOn(Less, Nat)
  <2>1. OpToRel(<, Nat) = Less
    BY DEF OpToRel
  <2>2. QED
    BY <2>1, NatLessThanWellFounded
<1>2. PICK x \in T : \A y \in T : ~(<<y, x>> \in Less)
  <2> HIDE DEF Less
  <2>1. QED
    BY <1>1, WFMin
<1>3. ASSUME NEW y \in T, ~(x <= y) PROVE FALSE
  <2>1. <<y, x>> \in Nat \X Nat /\ <<y, x>>[1] < <<y, x>>[2]
    BY <1>3
  <2>2. QED
    BY <1>2, <2>1
<1>4. QED
  BY <1>3

(* Every file is read up to some piece (scan).                             *)
LEMMA ReadsSomewhere ==
    ASSUME NEW s \in Seq(Frames)
    PROVE  \E k \in 0 .. Len(s) : Reads(s, k)
<1> DEFINE T == {i \in 1 .. Len(s) : s[i].lsn # i}
<1>0. Len(s) \in Nat
  OBVIOUS
<1>1. CASE T = {}
  BY <1>0, <1>1 DEF Reads
<1>2. CASE T # {}
  <2>1. PICK x \in T : \A y \in T : x <= y
    <3>1. T \subseteq Nat
      BY <1>0
    <3> HIDE DEF T
    <3>2. QED
      BY <1>2, <3>1, LeastMember
  <2>2. Reads(s, x - 1)
    BY <1>0, <2>1 DEF Reads
  <2>3. QED
    BY <1>0, <2>1, <2>2
<1>3. QED
  BY <1>1, <1>2

(* ... and up to one only.                                                 *)
LEMMA ReadsOnce ==
    ASSUME NEW s \in Seq(Frames), NEW j, NEW k, Reads(s, j), Reads(s, k)
    PROVE  j = k
BY DEF Reads

(* The records a reader returns.                                           *)
LEMMA RecordsTyped ==
    ASSUME NEW s \in Seq(Frames), NEW k, Reads(s, k)
    PROVE  /\ RecordsOf(s, k) \in Seq(Records)
           /\ Len(RecordsOf(s, k)) = k
           /\ \A i \in 1 .. k : RecordsOf(s, k)[i] = s[i].rec
<1>1. k \in Nat /\ k <= Len(s) /\ Len(s) \in Nat
  BY DEF Reads
<1>2. \A i \in 1 .. k : s[i].rec \in Records
  <2> SUFFICES ASSUME NEW i \in 1 .. k PROVE s[i].rec \in Records
    OBVIOUS
  <2>1. s[i] \in Frames /\ s[i].lsn = i /\ i # 0
    BY <1>1 DEF Reads
  <2>2. QED
    BY <2>1 DEF Frames, FrameType, Junk
<1>3. QED
  BY <1>1, <1>2 DEF RecordsOf

(* The log a state stands for is what its file's reader returns ...        *)
LEMMA ReadableNow ==
    ASSUME file \in Seq(Frames)
    PROVE  Reads(file, ReadableLen) /\ Readable = RecordsOf(file, ReadableLen)
<1>1. ReadableLen = CHOOSE k \in 0 .. Len(file) : Reads(file, k)
  BY DEF ReadableLen, Reads, ValidAt
<1>2. Reads(file, ReadableLen)
  BY <1>1, ReadsSomewhere
<1>3. QED
  BY <1>2 DEF Readable, RecordsOf

(* ... also in the state after a step.                                     *)
LEMMA ReadableThen ==
    ASSUME file' \in Seq(Frames)
    PROVE  Reads(file', ReadableLen') /\ Readable' = RecordsOf(file', ReadableLen')
<1>1. ReadableLen' = CHOOSE k \in 0 .. Len(file') : Reads(file', k)
  BY DEF ReadableLen, Reads, ValidAt
<1>2. Reads(file', ReadableLen')
  BY <1>1, ReadsSomewhere
<1>3. QED
  BY <1>2 DEF Readable, RecordsOf

---------------------------------------------------------------------------
(* The refinement: which step of DurableLog each kind of step is.          *)

(* A file that is valid throughout is read to its end.                     *)
LEMMA WholeRead ==
    ASSUME NEW s \in Seq(Frames), \A i \in 1 .. Len(s) : s[i].lsn = i
    PROVE  Reads(s, Len(s))
BY DEF Reads

(* A step that leaves the file and the history alone is a stutter.         *)
LEMMA Unread ==
    ASSUME file' = file, confirmed' = confirmed
    PROVE  UNCHANGED <<Readable, Len(confirmed)>>
BY DEF Readable, ReadableLen, ValidAt

(* A sync that confirms the whole of a valid file is a barrier.            *)
LEMMA SyncIsBarrier ==
    ASSUME file \in Seq(Frames), AllValid, file' = file, confirmed' = file
    PROVE  Promise!Barrier
<1>1. ReadableLen = Len(file)
  BY ReadableNow, WholeRead, ReadsOnce DEF AllValid, ValidAt
<1>2. Len(Readable) = Len(file)
  BY <1>1, ReadableNow, RecordsTyped
<1>3. UNCHANGED Readable
  BY DEF Readable, ReadableLen, ValidAt
<1>4. QED
  BY <1>2, <1>3 DEF Promise!Barrier

(* A frame written behind a valid file is an append, with or without a     *)
(* barrier.                                                                *)
LEMMA WriteIsAppend ==
    ASSUME WriterInv, NEW r \in Records, MayAppend(r), WriteFrame(r),
           confirmed' = confirmed \/ confirmed' = file'
    PROVE  Promise!Append1(r)
<1>1. /\ file \in Seq(Frames) /\ file' \in Seq(Frames)
      /\ AllValid /\ AllValid' /\ Len(file) \in Nat /\ Len(file') = Len(file) + 1
      /\ \A i \in 1 .. Len(file) : file'[i] = file[i]
  BY WriteFrameAppends
  DEF WriterInv, TypeOK, WriterCoherent, MayAppend, Writable, Open, Frames
<1>2. file'[Len(file) + 1].rec = r
  <2>1. valid_length = Len(file) /\ last_lsn = Len(file)
    BY DEF WriterInv, WriterCoherent, MayAppend, Writable, Open
  <2>2. Frame(last_lsn + 1, r) \in Frames
    BY <1>1, <2>1, FrameTyped DEF Frames
  <2>3. file'[Len(file) + 1] = Frame(last_lsn + 1, r)
    BY <1>1, <2>1, <2>2, AppendWhole DEF WriteFrame
  <2>4. QED
    BY <2>3 DEF Frame
<1>3. ReadableLen = Len(file) /\ ReadableLen' = Len(file')
  BY <1>1, ReadableNow, ReadableThen, WholeRead, ReadsOnce DEF AllValid, ValidAt
<1>4. /\ Readable \in Seq(Records) /\ Len(Readable) = Len(file)
      /\ \A i \in 1 .. Len(file) : Readable[i] = file[i].rec
  BY <1>1, <1>3, ReadableNow, RecordsTyped
<1>5. /\ Readable' \in Seq(Records) /\ Len(Readable') = Len(file')
      /\ \A i \in 1 .. Len(file') : Readable'[i] = file'[i].rec
  BY <1>1, <1>3, ReadableThen, RecordsTyped
<1>6. Readable' = Append(Readable, r)
  <2>1. /\ Append(Readable, r) \in Seq(Records)
        /\ Len(Append(Readable, r)) = Len(file) + 1
        /\ \A i \in 1 .. Len(file) : Append(Readable, r)[i] = Readable[i]
        /\ Append(Readable, r)[Len(file) + 1] = r
    BY <1>1, <1>4
  <2>2. \A i \in 1 .. Len(Readable') : Readable'[i] = Append(Readable, r)[i]
    BY <1>1, <1>2, <1>4, <1>5, <2>1
  <2>3. QED
    BY <1>1, <1>5, <2>1, <2>2, SeqEqual
<1>7. Len(confirmed') \in {Len(confirmed), Len(Readable')}
  BY <1>5
<1>8. QED
  BY <1>6, <1>7 DEF Promise!Append1

(* A file of which pieces at the end are gone and pieces behind the        *)
(* confirmed ones are damaged is a log that lost some of its end.          *)
LEMMA DamageIsLoss ==
    ASSUME file \in Seq(Frames), file' \in Seq(Frames),
           confirmed \in Seq(FrameType), confirmed' = confirmed,
           Len(file') <= Len(file), Len(confirmed) <= Len(file'),
           \A i \in 1 .. Len(file') : file'[i] \in {file[i], Junk},
           \A i \in 1 .. Len(confirmed) : file'[i].lsn = i
    PROVE  Promise!Lose
<1> DEFINE k == ReadableLen
           n == ReadableLen'
<1>1. Reads(file, k) /\ Readable = RecordsOf(file, k)
  BY ReadableNow
<1>2. Reads(file', n) /\ Readable' = RecordsOf(file', n)
  BY ReadableThen
<1> HIDE DEF k, n
<1>3. /\ k \in Nat /\ n \in Nat /\ k <= Len(file) /\ n <= Len(file')
      /\ Len(file) \in Nat /\ Len(file') \in Nat /\ Len(confirmed) \in Nat
  BY <1>1, <1>2 DEF Reads
<1>4. Len(confirmed) <= n
  <2> SUFFICES ASSUME n < Len(confirmed) PROVE FALSE
    BY <1>3
  <2>1. n + 1 \in 1 .. Len(confirmed) /\ n < Len(file')
    BY <1>3
  <2>2. QED
    BY <1>2, <2>1 DEF Reads
<1>5. \A i \in 1 .. n : file'[i] = file[i]
  <2> SUFFICES ASSUME NEW i \in 1 .. n PROVE file'[i] = file[i]
    OBVIOUS
  <2>1. i \in 1 .. Len(file') /\ file'[i].lsn = i /\ i # 0
    BY <1>2, <1>3 DEF Reads
  <2>2. QED
    BY <2>1 DEF Junk
<1>6. n <= k
  <2> SUFFICES ASSUME k < n PROVE FALSE
    BY <1>3
  <2>1. k + 1 \in 1 .. n /\ k < Len(file)
    BY <1>3
  <2>2. file[k + 1].lsn = k + 1
    BY <1>2, <1>5, <2>1 DEF Reads
  <2>3. QED
    BY <1>1, <2>1, <2>2 DEF Reads
<1>7. /\ Readable \in Seq(Records) /\ Len(Readable) = k
      /\ \A i \in 1 .. k : Readable[i] = file[i].rec
  BY <1>1, RecordsTyped
<1>8. /\ Readable' \in Seq(Records) /\ Len(Readable') = n
      /\ \A i \in 1 .. n : Readable'[i] = file'[i].rec
  BY <1>2, RecordsTyped
<1>9. Readable' = SubSeq(Readable, 1, n)
  <2>1. \A i \in 1 .. n : Readable[i] \in Records
    BY <1>3, <1>6, <1>7
  <2>2. /\ SubSeq(Readable, 1, n) \in Seq(Records)
        /\ Len(SubSeq(Readable, 1, n)) = n
        /\ \A i \in 1 .. n : SubSeq(Readable, 1, n)[i] = Readable[i]
    BY <1>3, <2>1, SubSeqProperties
  <2>3. \A i \in 1 .. n : Readable'[i] = SubSeq(Readable, 1, n)[i]
    BY <1>3, <1>5, <1>6, <1>7, <1>8, <2>2
  <2>4. QED
    BY <1>8, <2>2, <2>3, SeqEqual
<1>10. n \in Len(confirmed) .. Len(Readable)
  BY <1>3, <1>4, <1>6, <1>7
<1>11. QED
  BY <1>9, <1>10 DEF Promise!Lose

(* A power loss costs the log no more than what was not durable.           *)
LEMMA PowerLossIsLoss ==
    ASSUME WriterInv, ConfirmedOnPlatter, PowerLoss, WriterInv'
    PROVE  Promise!Next \/ UNCHANGED <<Readable, Len(confirmed)>>
<1>1. /\ file \in Seq(Frames) /\ file' \in Seq(Frames) /\ confirmed \in Seq(FrameType)
      /\ synced \in Nat /\ synced <= Len(file) /\ Len(file) \in Nat
      /\ Len(confirmed) \in Nat /\ Len(confirmed) <= synced
  BY DEF WriterInv, TypeOK, Frames, ConfirmedOnPlatter
<1>2. CASE PowerLossClean
  BY <1>2, Unread DEF PowerLossClean
<1>3. CASE PowerLossDirty
  <2>1. confirmed' = confirmed
    BY <1>3 DEF PowerLossDirty
  <2>2. PICK k \in synced .. Len(file) : \E lost \in SUBSET (synced + 1 .. k) :
           file' = [i \in 1 .. k |-> IF i \in lost THEN Junk ELSE file[i]]
    BY <1>3 DEF PowerLossDirty
  <2>3. k \in Nat /\ synced <= k /\ k <= Len(file) /\ Len(file') = k
    BY <1>1, <2>2
  <2>4. \A i \in 1 .. Len(file') : file'[i] \in {file[i], Junk}
    BY <2>2, <2>3
  <2>5. \A i \in 1 .. Len(confirmed) : file'[i] = file[i]
    BY <1>1, <2>2, <2>3
  <2>6. \A i \in 1 .. Len(confirmed) : file'[i].lsn = i
    BY <2>5 DEF ConfirmedOnPlatter
  <2>7. QED
    BY <1>1, <2>1, <2>3, <2>4, <2>6, DamageIsLoss DEF Promise!Next
<1>4. CASE PowerLossUnlinks
  <2>1. confirmed = << >> /\ confirmed' = confirmed /\ file' = << >>
    BY <1>4 DEF ConfirmedOnPlatter, PowerLossUnlinks
  <2>2. Len(confirmed) = 0 /\ Len(file') = 0
    BY <2>1, EmptySeq
  <2>3. QED
    BY <1>1, <2>1, <2>2, DamageIsLoss DEF Promise!Next
<1>5. QED
  BY <1>2, <1>3, <1>4 DEF PowerLoss

(* A program's step is an append, a barrier or a stutter.                  *)
LEMMA ProgramStepImplements ==
    ASSUME WriterInv,
           \/ \E p \in Procs : OpenStep(p)
           \/ \E r \in Records : AppendStep(r)
           \/ Flush \/ Replay \/ FlushFails \/ UNCHANGED vars
    PROVE  Promise!Next \/ UNCHANGED <<Readable, Len(confirmed)>>
<1>1. file \in Seq(Frames) /\ Len(file) \in Nat
  BY DEF WriterInv, TypeOK, Frames
<1>2. ASSUME NEW p \in Procs, NEW c \in Configs, ScanRepairs(p, c)
      PROVE  Promise!Next
  BY <1>1, <1>2, SyncIsBarrier DEF ScanRepairs, ScanRefuses, Promise!Next
<1>3. ASSUME NEW p \in Procs, OpenStep(p),
             \A c \in Configs : ~ScanRepairs(p, c)
      PROVE  UNCHANGED <<Readable, Len(confirmed)>>
  <2>1. file' = file /\ confirmed' = confirmed
    BY <1>3 DEF OpenStep, CheckPath, OpenFile, TryLock, SyncNewFile, SyncDirectory,
                ScanClean, RepairSyncFails, Exit, diskVars
  <2>2. QED
    BY <2>1, Unread
<1>4. ASSUME NEW r \in Records, AppendSynced(r)
      PROVE  Promise!Next
  <2>1. MayAppend(r) /\ WriteFrame(r) /\ Confirm
    BY <1>4 DEF AppendSynced
  <2>2. file' \in Seq(Frames) /\ last_lsn' = Len(file')
    BY <2>1, WriteFrameAppends
  <2>3. confirmed' = file'
    BY <2>1, <2>2, SubSeqFull DEF Confirm
  <2>4. QED
    BY <2>1, <2>3, WriteIsAppend DEF Promise!Next
<1>5. ASSUME NEW r \in Records, AppendUnsynced(r) \/ AppendSyncFails(r) \/ AppendOverflows(r)
      PROVE  Promise!Next
  BY <1>5, WriteIsAppend DEF AppendUnsynced, AppendSyncFails, AppendOverflows, Promise!Next
<1>6. ASSUME NEW r \in Records, NEW t \in {NoTail} \cup TailsOf(r), AppendWriteFails(r, t)
      PROVE  UNCHANGED <<Readable, Len(confirmed)>>
  <2>1. valid_length = Len(file)
    BY <1>6 DEF WriterInv, WriterCoherent, AppendWriteFails, MayAppend, Writable, Open
  <2>2. file' = file /\ confirmed' = confirmed
    BY <1>1, <1>6, <2>1, SubSeqFull DEF AppendWriteFails
  <2>3. QED
    BY <2>2, Unread
<1>7. CASE Flush \/ Replay
  <2>1. AllValid /\ last_lsn = Len(file)
    BY <1>7 DEF WriterInv, WriterCoherent, Flush, Replay, Writable
  <2>2. file' = file /\ confirmed' = file
    BY <1>1, <1>7, <2>1, SubSeqFull DEF Flush, Replay, Confirm
  <2>3. QED
    BY <1>1, <2>1, <2>2, SyncIsBarrier DEF Promise!Next
<1>8. CASE FlushFails \/ UNCHANGED vars
  BY <1>8, Unread DEF FlushFails, vars, diskVars
<1>9. QED
  BY <1>2, <1>3, <1>4, <1>5, <1>6, <1>7, <1>8 DEF AppendStep

(* The WAL implements the log it promises: what a reader accepts grows     *)
(* only at its end, a barrier covers all of it, and whatever fails or      *)
(* stops, what a barrier covered stays (WriteAheadLog, FileWal).           *)
THEOREM ImplementsPromise ==
    ASSUME FsyncPersistsEntry PROVE Spec => ImplementsDurableLog
<1>1. Init => Promise!Init
  <2> SUFFICES ASSUME Init PROVE Promise!Init
    OBVIOUS
  <2>1. file = << >> /\ confirmed = << >> /\ file \in Seq(Frames) /\ Len(file) = 0
    BY EmptySeq DEF Init
  <2>2. ReadableLen = 0 /\ Readable = RecordsOf(file, 0)
    BY <2>1, ReadableNow DEF Reads
  <2>3. Readable = << >> /\ Len(confirmed) = 0
    BY <2>1, <2>2, EmptySeq DEF RecordsOf
  <2>4. QED
    BY <2>3 DEF Promise!Init
<1>2. WriterInv /\ WriterInv' /\ ConfirmedOnPlatter /\ [Next]_vars =>
         [Promise!Next]_(Promise!dlVars)
  BY PowerLossIsLoss, ProgramStepImplements DEF Next, Promise!dlVars
<1>3. Init => WriterInv
  BY InitWriterInv
<1>4. WriterInv /\ [Next]_vars => WriterInv'
  BY WriterInvStep
<1>5. QED
  BY <1>1, <1>2, <1>3, <1>4, ConfirmedSurvives, PTL
  DEF Spec, ImplementsDurableLog, Promise!Spec

(* No program's step removes or changes a frame-sized piece of the file.   *)
THEOREM FramesStay == Spec => ProgramsKeepFrames
<1> DEFINE Kept == /\ Len(file') >= Len(file)
                   /\ \A i \in 1 .. Len(file) : file'[i] = file[i]
<1>1. ASSUME WriterInv, [Next]_vars, ~PowerLoss PROVE Kept
  <2>1. file \in Seq(Frames) /\ Len(file) \in Nat
    BY <1>1 DEF WriterInv, TypeOK, Frames
  <2>2. ASSUME file' = file PROVE Kept
    BY <2>1, <2>2
  <2>3. ASSUME NEW p \in Procs, OpenStep(p) PROVE Kept
    <3>1. file' = file
      BY <2>3 DEF OpenStep, CheckPath, OpenFile, TryLock, SyncNewFile, SyncDirectory,
                  ScanClean, ScanRepairs, RepairSyncFails, Exit, diskVars
    <3>2. QED
      BY <2>2, <3>1
  <2>4. ASSUME NEW r \in Records, MayAppend(r), WriteFrame(r) PROVE Kept
    BY <1>1, <2>1, <2>4, WriteFrameAppends
  <2>5. ASSUME NEW r \in Records, NEW t \in {NoTail} \cup TailsOf(r), AppendWriteFails(r, t)
        PROVE  Kept
    <3>1. valid_length = Len(file)
      BY <1>1, <2>5 DEF WriterInv, WriterCoherent, AppendWriteFails, MayAppend, Writable, Open
    <3>2. file' = file
      BY <2>1, <2>5, <3>1, SubSeqFull DEF AppendWriteFails
    <3>3. QED
      BY <2>2, <3>2
  <2>6. CASE Flush \/ Replay \/ FlushFails \/ UNCHANGED vars
    BY <2>2, <2>6 DEF Flush, Replay, FlushFails, vars, diskVars
  <2> HIDE DEF Kept
  <2>7. ASSUME NEW r \in Records, AppendStep(r) PROVE Kept
    BY <2>4, <2>5, <2>7
    DEF AppendStep, AppendSynced, AppendUnsynced, AppendSyncFails, AppendOverflows
  <2>8. QED
    BY <1>1, <2>3, <2>6, <2>7 DEF Next
<1>2. WriterInv /\ [Next]_vars =>
         [\/ PowerLoss
          \/ /\ Len(file') >= Len(file)
             /\ \A i \in 1 .. Len(file) : file'[i] = file[i]]_vars
  BY <1>1
<1>3. Init => WriterInv
  BY InitWriterInv
<1>4. WriterInv /\ [Next]_vars => WriterInv'
  BY WriterInvStep
<1>5. QED
  BY <1>2, <1>3, <1>4, PTL DEF Spec, ProgramsKeepFrames

===========================================================================
