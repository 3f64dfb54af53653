SPECIFICATION FairSpec
CONSTANTS
    s1 = s1  s2 = s2  s3 = s3  f1 = f1
    d1 = d1  d2 = d2  a1 = a1  a2 = a2
    Signals = {s1, s2}
    Refused = {s1}
    Forbidden = {s2}
    Windows = TRUE
    SIGFPE = s2
    Foreign = {f1}
    DFL = DFL
    Ours = Ours
    Deliveries = {d1, d2}
    Addrs = {a1, a2}
    Null = Null
    MaxId = 1
INVARIANTS
    PreviousHandlerCalled
    StaysHooked
PROPERTY
    CallReturns
