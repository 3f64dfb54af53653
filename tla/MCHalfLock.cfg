SPECIFICATION FairSpec
CONSTANTS
    r1 = r1  r2 = r2  r3 = r3
    w1 = w1 
    a1 = a1  a2 = a2
    Readers <- ThreeReaders
    Writers <- OneWriter
    Addrs <- TwoAddrs
    NoAddr = NoAddr
    NoWriter = NoWriter
    W = 4
INVARIANTS
    IInv
    NoUseAfterFree
    GuardsBounded
PROPERTIES
    ImplementsCell
    PreviousGenerationDrains
    StoreEnds
\* The process may abort.
CHECK_DEADLOCK FALSE
