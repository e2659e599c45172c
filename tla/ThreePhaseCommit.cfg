\* Three participants; anything may be lost, timers fire at any moment.
CONSTANTS
    Participants = {a, b, c}
SPECIFICATION FairSpec
CHECK_DEADLOCK FALSE
INVARIANTS
    Agreement
PROPERTIES
    ImplementsAtomicCommit
    CommitsUnlessAbortedOrLost
    OnlyPreCommitBlocks
