SPECIFICATION FairSpec
CONSTANTS
    t1 = t1  t2 = t2  d1 = d1  d2 = d2
    s1 = s1  s2 = s2  s3 = s3  kill = kill  huge = huge  odd = odd
    Signals = {s1, s3}
    OutOfRange = {}
    Forbidden = {}
    Refused = {}
    SIGPIPE = s3
    Threads = {t1, t2}
    Main = t1
    Deliveries = {d1}
    MaxId = 2
    None = None
CHECK_DEADLOCK FALSE
PROPERTY
    DropUnregisters
