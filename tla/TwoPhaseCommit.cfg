\* Three participants; anything may be lost, the coordinator may restart.
CONSTANTS
    Participants = {a, b, c}
SPECIFICATION FairSpec
CHECK_DEADLOCK FALSE
INVARIANTS
    Agreement
PROPERTIES
    ImplementsAtomicCommit
    Termination
