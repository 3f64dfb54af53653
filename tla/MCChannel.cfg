SPECIFICATION Spec
CONSTANTS
    h1 = h1  h2 = h2  h3 = h3  t1 = t1  t2 = t2  v1 = v1  v2 = v2
    Senders = {h1, h2}
    Receivers = {t1, t2}
    Values = {v1, v2}
    None = None
    SLOTS = 3
    BITS = 2
SYMMETRY Symmetry
INVARIANTS
    IInv
    SlotsConserved
    NoPanic
    DropsOnlyIfPending
PROPERTY
    ImplementsFifo
