SPECIFICATION FairSpec
CONSTANTS
    Limit = 64
    HeaderSize = 3
    UUIDOffset = 2
    ImageInfoSize = 2
    InfoSize = 2
    Entry32Size = 1
    Entry64Size = 2
    NListSize = 2
    PtrAuth = TRUE
    Executable <- MCExecutable
    Threads <- MCThreads
    Fds = {1, 2}
    Addresses = {1, 2, 3, 4}
    None = None
    Contents <- MCContents
    PathMax = 100
    Worlds <- MCWorlds
INVARIANTS
    TypeOK
    ViewsStayMapped
    NothingLeaks
    FirstChoice
    ReadsAreBounded
    ResolvesRightly
    FindsWhatIsThere
PROPERTIES
    LocatesOnce
    CallsReturn
CHECK_DEADLOCK FALSE
