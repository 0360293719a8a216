SPECIFICATION MCSpec
CONSTANTS
    Request <- MCRequest
    ResultsSize = 9
    BufferSize = 4
    MaxCalls = 3
    SplitRequest <- MCSplitRequest
    Char <- MCChar
    FrameSize = 8
    MaxFrames = 4
INVARIANTS
    PiecesSpellTheBuffer
    WaitingCallsHoldAFrame
PROPERTIES
    ReplacesEveryMatch
    ReturnsUnlessFullOrStuck
CHECK_DEADLOCK FALSE
