SPECIFICATION Spec
CONSTANTS
    d1 = d1  d2 = d2  main = main  sock = sock  pipe = pipe
    int = int  tstp = tstp  winch = winch  kill = kill  stop = stop  rt = rt
    Term = {int, kill}
    Stop = {tstp, stop}
    Ignore = {winch}
    Kill = kill
    StopItself = stop
    Unknown = {rt}
    Fds = {sock, pipe}
    Sockets = {sock}
    PIPE = 1
    Offers <- Offered
    Main = main
    Deliveries = {d1, d2}
    MaxId = 2
SYMMETRY Symmetry
CHECK_DEADLOCK FALSE
INVARIANTS
    IInv
    NeverBlocks
PROPERTIES
    FirstSpares
    SecondEnds
    AbortIsLastResort
    ByteThere
