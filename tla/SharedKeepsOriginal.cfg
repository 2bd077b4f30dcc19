SPECIFICATION Spec
CONSTANTS
    Globals = {"r1", "r2"}
    Locals = {"l1"}
    Images <- SharedImages
    Addresses <- MCAddresses
    Null = Null
    None = None
    Dyld = Dyld
    Unsigned = Unsigned
    Foreign = Foreign
    PtrAuth = FALSE
    Replacee <- SharedReplacee
    Replacement <- SharedReplacement
    Accepts <- SharedAccepts
    Target <- SharedTarget
    DefinedIn <- MCDefinedIn
    Layout <- SharedLayout
    WellFormed <- SharedImages
    Initial <- SharedInitial
    Unloadable = {}
INVARIANT KeepsCallingOriginal
