SPECIFICATION FairSpec
CONSTANTS
    h1 = h1  h2 = h2
    Handlers = {h1, h2}
    Signals = {17, 29}
    SIGCHLD = 17
    SIGIO = 29
    Processes <- TwoProcesses
    SLOTS = 2
    PipeSize = 2
    Mixes <- AnyAndAChild
    None = None
INVARIANTS
    TypeOK
    NothingLeftBehind
    Attributed
PROPERTIES
    SendsThrough
    SystemYieldsSignal
