SPECIFICATION FairIoSpec
CONSTANTS
    w1 = w1  w2 = w2
    t1 = t1  t2 = t2
    n1 = n1  n2 = n2
    f1 = f1  f2 = f2
    Workers = {w1, w2}
    Free = Free
    Outside = Outside
    Tasks = {t1, t2}
    NoTask = NoTask
    Chans = {}
    Capacity <- NoCapacity
    Values = {}
    NoValue = NoValue
    Boot <- BootTwo
    Handled = {}
    SelectCalls = {}
    Api = {"open", "peer", "shutdown", "yield", "sleep"}
    Fds = {n1}
    Files = {f1}
    NoFile = NoFile
    Backend = "poll"
    MaxGeneration = 2
    Directions = {"r"}
    PeerEvents <- AnyEvents
    FdApi <- OneWaits
PROPERTIES
    ReadyRuns
    SleepEnds
    ReadyWaitEnds
    StopReturns
