SPECIFICATION Spec
CONSTANTS
    HeaderSize = 2
    CommandSize = 2
    SegmentSize = 4
    Alignment = 2
    Modulus = 16
    Half = 8
    Headers <- MCHeaders
    Tables <- MCTables
INVARIANTS
    TypeOK
    ReadsStayMapped
    AllOrNothing
    SlideIsExact
CHECK_DEADLOCK FALSE
