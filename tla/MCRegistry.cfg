SPECIFICATION Spec
CONSTANTS
    s1 = s1  s2 = s2  s3 = s3  f1 = f1
    d1 = d1  d2 = d2  a1 = a1  a2 = a2
    Signals = {s1, s2}
    Refused = {}
    Forbidden = {}
    Windows = FALSE
    SIGFPE = s3
    Foreign = {f1}
    DFL = DFL
    Ours = Ours
    Deliveries = {d1, d2}
    Addrs = {a1, a2}
    Null = Null
    MaxId = 3
SYMMETRY Symmetry
INVARIANTS
    IInv
    GoneNeverRuns
    PreviousHandlerCalled
PROPERTY
    ImplementsDispatch
