\* Two proposers, one round each, both careful.
CONSTANTS
    Nodes = {1, 2, 3}
    None = None
    Slots = {1}
    Commands = {x, y}
    Proposers = {1, 2}
    Careful = TRUE
    Crashing = {}
    MaxRound = 1
    MaxAlone = 100
    MaxRestarting = 100
    MaxContended = 100
SPECIFICATION Spec
INVARIANT DecisionsAgree
