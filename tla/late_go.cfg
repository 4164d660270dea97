SPECIFICATION Spec
CONSTANTS
    w1 = w1  w2 = w2  w3 = w3
    t1 = t1  t2 = t2  t3 = t3
    c0 = c0  c1 = c1
    v1 = v1  v2 = v2
    Workers = {w1}
    Free = Free
    Outside = Outside
    Tasks = {t1, t2}
    NoTask = NoTask
    Chans = {}
    Capacity <- Capacities
    Values = {v1}
    NoValue = NoValue
    Boot <- BootOne
    Handled = {}
    SelectCalls = {}
    Api = {"go", "outside"}
PROPERTIES
    OkMeansDone
