\* Three sends, two rules, a clock and a sequence counter that run out.
CONSTANTS
    n1 = n1
    n2 = n2
    Nodes = {n1, n2}
    Unset = Unset
    Script <- MCScript
    Cuts <- MCCuts
    MaxRules = 2
    MaxAttempts = 3
    MaxCopies = 2
    MaxTick = 2
    MaxSequence = 3
SPECIFICATION Spec
INVARIANTS
    TypeOK
    DeliveredInOrder
    UnfaultedInOrder
    CopiesAccounted
    OneShotRules
CHECK_DEADLOCK FALSE
