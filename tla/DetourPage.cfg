SPECIFICATION Spec
CONSTANTS
    Calls = {"c1", "c2", "d1"}
    Runners = {"t1", "t2"}
    Functions = {5, 7}
    PageWords = 5
    JumpWords = 2
    Pages = {5, 10, 15}
    InitialProt <- MCProt
    Refusable = {5}
    Arguments <- MCArguments
    KeptAway = "page"
    Original = Original
INVARIANTS
    TypeOK
    RunsLatest
    NoFetchFault
    NoStoreFault
    ProtectionRestored
CHECK_DEADLOCK FALSE
