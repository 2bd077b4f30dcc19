SPECIFICATION Spec
CONSTANTS
    Limit = 32
    HeaderSize = 2
    EntrySize = 2
    PtrAuth = TRUE
    Names <- MCNames
    NoName = NoName
    Contents <- MCContents
    Calls <- MCCalls
INVARIANTS
    TypeOK
    ReadsStayInside
    FoundIsRight
    FindsWhatIsThere
CHECK_DEADLOCK FALSE
