SPECIFICATION ValidatorSpec
CONSTANTS
    P = P  Q = Q  X = X
    Payloads = {P, Q, X}
    ValidPayloads = {P, Q}
    Bodies <- SmallBodies
    MaxPayloads = 2
    Threads = 2
    MaxChecks = 4
INVARIANTS
    CheckExact
    FullOfAbandoned
PROPERTY CheckEnds
CHECK_DEADLOCK FALSE
