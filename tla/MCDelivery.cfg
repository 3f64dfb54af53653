SPECIFICATION FairSpec
CONSTANTS
    h1 = h1  h2 = h2  h3 = h3
    MAX_SIGNUM = 3
    Handlers = {h1, h2, h3}
    PIPE = 2
    Fronts = {"thread", "stream", "mio"}
INVARIANTS
    NoLostWakeup
    IInv
PROPERTIES
    EventuallyReported
    CloseInterrupts
