SPECIFICATION StoresSpec
CONSTANTS
    Slots = 3
    Payloads = {1, 2}
    Nodes = {1, 2, 3, 4}
    Null = Null
    WordMax = 7
    NsPerMs = 2
    Sleepers = {1, 2, 3, 4, 5, 6, 7}
    Timeouts = {1, 4}
    MaxSeq = 7
    MaxNow = 2
    SizeMax = 63
    Page = 4
    MinSize = 6
    DefaultSize = 12
INVARIANTS
    ListExact
PROPERTIES
    RingIsFifo
    ListIsFifo
    HeapIsSchedule
CHECK_DEADLOCK FALSE
