SPECIFICATION Spec
CONSTANTS
    Width = 30
    PageShift = 4
    PacBits <- MCPacBits
    Instructions <- MCInstructions
    Calls <- MCCalls
    NotWritten = NotWritten
INVARIANTS
    DecodesWhatTheProcessorDoes
    FollowsTheBranch
    ExtendsTheSign
    JumpLands
CHECK_DEADLOCK FALSE
