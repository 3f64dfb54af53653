SPECIFICATION Spec
CONSTANTS
    h1 = h1  h2 = h2  h3 = h3
    MAX_SIGNUM = 2
    Handlers = {h1}
    PIPE = 1
    Fronts = {"stream"}
INVARIANT
    StreamEnds
