\* Two processes, two records, three configurations, three LSNs.
CONSTANTS
    None = None
    empty = empty
    big = big
    Procs = {p1, p2}
    Records <- MCRecords
    PayloadLen <- MCPayloadLen
    Configs <- MCConfigs
    MaxLsn = 3
    MaxUnsynced = 2
    FsyncPersistsEntry = TRUE
    DirectoryPersisted = FALSE
SPECIFICATION Spec
INVARIANTS
    WriterCoherent
    UnsyncedAccounting
    ConfirmedOnPlatter
PROPERTIES
    ConfirmedNeverReassigned
    ProgramsKeepFrames
    ImplementsDurableLog
