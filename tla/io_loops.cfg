SPECIFICATION IoSpec
CONSTANTS
    w1 = w1  w2 = w2
    t1 = t1  t2 = t2
    n1 = n1  n2 = n2
    f1 = f1  f2 = f2
    Workers = {w1, w2}
    Free = Free
    Outside = Outside
    Tasks = {t1, t2}
    NoTask = NoTask
    Chans = {}
    Capacity <- NoCapacity
    Values = {}
    NoValue = NoValue
    Boot <- BootTwo
    Handled = {}
    SelectCalls = {}
    Api = {"open", "peer", "shutdown"}
    Fds = {n1, n2}
    Files = {f1, f2}
    NoFile = NoFile
    Backend = "epoll"
    MaxGeneration = 2
    Directions = {"r", "w"}
    PeerEvents <- AllEvents
    FdApi <- Loops
SYMMETRY Symmetry
INVARIANTS
    WaitersExact
    TriesDoNotBlock
