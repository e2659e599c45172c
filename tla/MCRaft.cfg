\* Two of three nodes take turns as leader; logs of two entries that diverge.
CONSTANTS
    Nodes = {a, b, c}
    None = None
    Commands = {x}
    ElectionTimeout = 2
    Ticking = {a, b}
    MaxTerm = 2
    MaxLog = 2
    MaxMessages = 17
SYMMETRY MCSymmetry
SPECIFICATION Spec
INVARIANTS
    ElectionSafety
    CommitsHaveAcks
    LogMatching
PROPERTIES
    LeaderAppendOnly
CONSTRAINT MCFewMessages
