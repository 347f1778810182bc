CONSTANTS
    R = R
    A1 = A1
    A2 = A2
    A3 = A3
    A4 = A4
    C2 = C2
    C3 = C3
    D4 = D4
    P = P
    Q = Q
    Blocks <- ChainBlocks
    Bootstrap = R
    Prev <- ChainPrev
    Ancestors <- ChainAncestors
    Height <- ChainHeight
    Payloads <- ChainPayloads
    PayloadIds = {P, Q}
    MaxReorgBlocks = 1
    PreserveBlocksBehindFinal = 1
SPECIFICATION FinalizationSpec
INVARIANT NoMissedDuplicate
