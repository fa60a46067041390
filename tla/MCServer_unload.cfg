SPECIFICATION Spec
CONSTANTS
    c1 = c1
    c2 = c2
    w1 = w1
    w2 = w2
    Threads <- Two
    Owner <- TwoOwner
    NoThread = NoThread
    Models = {0, 1, 2, 3}
    Backends = 2
INVARIANTS
    UnloadWithNoConnections
CHECK_DEADLOCK FALSE
