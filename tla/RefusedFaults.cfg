SPECIFICATION Spec
CONSTANTS
    Threads = {"t1"}
    PageSize = 4
    SlotSize = 2
    Limit = 16
    Mapped = {4, 8, 12}
    Refusable = {4}
    Gated = {}
    Values <- MCValues
    InitialValue = "old"
    InitialProt <- MCProt
    Stores <- RefusedStores
    Protects <- NoProtects
    None = None
INVARIANT NoFault
