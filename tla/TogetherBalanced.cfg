SPECIFICATION Spec
CONSTANTS
    Threads = {"t1", "t2"}
    PageSize = 4
    SlotSize = 2
    Limit = 16
    Mapped = {4, 8, 12}
    Refusable = {}
    Gated = {}
    Values <- MCValues
    InitialValue = "old"
    InitialProt <- MCProt
    Stores <- TogetherStores
    Protects <- NoProtects
    None = None
INVARIANT Balanced
