SPECIFICATION Spec
CONSTANTS
    Threads = {"t1", "t2"}
    PageSize = 4
    SlotSize = 2
    Limit = 16
    Mapped = {4, 8, 12}
    Refusable = {4, 8, 12}
    Gated = {4, 12}
    Values <- MCValues
    InitialValue = "old"
    InitialProt <- MCProt
    Stores <- ApartStores
    Protects <- ApartProtects
    None = None
INVARIANTS
    TypeOK
    FaultsOnlyWhenRefused
    Balanced
PROPERTY Truthful
