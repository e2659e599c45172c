SPECIFICATION Spec
CONSTANTS
    LowerAlnum = {1, 2}
    Dash = 3
    Marks <- MCMarks
    MaxText = 2
    OpaqueBytes = 1
    MaxU16 = 2
    MaxAttempt = 1
    MinRecord = 2
    MaxRecord = 5
    MaxMessage = 5
    MaxTimeout = 2
    MinTotal = 2
    MaxTotal = 4
    MaxU32 = 9
    FrameOverhead = 1
    Keys <- MCKeys
    Fingerprints <- MCFingerprints
    Outcomes <- MCOutcomes
    Size <- MCSize
    InFlight = InFlight
    MaxSequence = 3
    Requests <- MCRequests
    Files <- MCFiles
    ResponseId <- MCResponseId
    MaxCompletions = 3
    Wires <- MCWires
    Envelopes <- MCEnvelopes
    Memberships <- MCMemberships
INVARIANTS
    OrderMatchesEntries
    WithinBounds
    AnsweredIsRetained
    ReservationsAreOwned
    RetainedOutcomesFit
    WireRoundTrip
    FingerprintsSeparate
    MembersJudgedRight
PROPERTIES
    ReservationsAreKept
    OldestLeavesFirst
    PromiseKept
