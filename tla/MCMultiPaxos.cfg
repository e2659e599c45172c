\* Two careful proposers over two rounds each; one of them may crash and start over.
CONSTANTS
    Nodes = {1, 2, 3}
    None = None
    Slots = {1}
    Commands = {x, y}
    Proposers = {1, 2}
    Careful = TRUE
    Crashing = {1}
    MaxRound = 2
    MaxAlone = 18
    MaxRestarting = 15
    MaxContended = 14
SYMMETRY MCSymmetry
SPECIFICATION Spec
INVARIANTS
    ProposalsHavePromises
    DecisionsHaveVotes
    BallotsDecideOnce
PROPERTIES
    PromisesAreKept
CONSTRAINT MCFewMessages
