\* Two of three nodes lead in turn over three terms; one entry each.
CONSTANTS
    Nodes = {a, b, c}
    None = None
    Commands = {x}
    ElectionTimeout = 1
    Ticking = {a, b}
    MaxTerm = 3
    MaxLog = 1
    MaxMessages = 23
SYMMETRY MCSymmetry
SPECIFICATION Spec
INVARIANT CommittedLogsAgree
CONSTRAINT MCFewMessages
