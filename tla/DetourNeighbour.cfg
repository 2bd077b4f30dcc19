SPECIFICATION Spec
CONSTANTS
    Calls = {"c1", "d1"}
    Runners = {"t1"}
    Functions = {5, 7}
    PageWords = 5
    JumpWords = 2
    Pages = {5, 10, 15}
    InitialProt <- MCProt
    Refusable = {}
    Arguments <- MCArguments
    KeptAway = "range"
    Original = Original
INVARIANT NoFetchFault
CHECK_DEADLOCK FALSE
