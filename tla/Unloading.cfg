SPECIFICATION Spec
CONSTANTS
    Globals = {"r1", "r2"}
    Locals = {"l1"}
    Images <- UnloadImages
    Addresses <- MCAddresses
    Null = Null
    None = None
    Dyld = Dyld
    Unsigned = Unsigned
    Foreign = Foreign
    PtrAuth = FALSE
    Replacee <- UnloadReplacee
    Replacement <- UnloadReplacement
    Accepts <- UnloadAccepts
    Target <- UnloadTarget
    DefinedIn <- MCDefinedIn
    Layout <- UnloadLayout
    WellFormed <- UnloadImages
    Initial <- UnloadInitial
    Unloadable = {"plugin"}
INVARIANT KeepsCallingOriginal
PROPERTY RewritesOnlyReplacee
