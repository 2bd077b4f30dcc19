SPECIFICATION FairSpec
CONSTANTS
    Globals = {"r1", "r2"}
    Locals = {}
    Images <- DistinctImages
    Addresses <- MCAddresses
    Null = Null
    None = None
    Dyld = Dyld
    Unsigned = Unsigned
    Foreign = Foreign
    PtrAuth = TRUE
    Replacee <- DistinctReplacee
    Replacement <- DistinctReplacement
    Accepts <- DistinctAccepts
    Target <- NoTarget
    DefinedIn <- MCDefinedIn
    Layout <- DistinctLayout
    WellFormed <- DistinctWellFormed
    Initial <- DistinctInitial
    Unloadable = {}
INVARIANTS
    TypeOK
    Redirected
    KeepsCallingOriginal
    SignaturesFit
    NoEntryLost
PROPERTIES
    Rebinds
    CallsReturn
    LoaderReleased
