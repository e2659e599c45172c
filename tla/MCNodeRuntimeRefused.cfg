\* One record exceeds max_record_bytes; three LSNs, four events between recoveries.
CONSTANTS
    prepare = prepare
    decide = decide
    bulk = bulk
    query = query
    tick = tick
    Events <- MCEvents
    Recorded <- MCRecorded
    ActionsOf <- MCActionsOf
    TooLarge = {bulk}
    MaxLsn = 3
    MaxApplied = 4
SPECIFICATION Spec
INVARIANTS
    RevealedStateIsLogged
