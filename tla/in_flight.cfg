SPECIFICATION PoolSpec
CONSTANTS
    Y = Y  Z = Z  A = A  B = B
    MaxVbkHeight = 3
    Vtbs = {Y, Z}
    Atvs = {A, B}
    Containing <- PayloadBlock
    Published <- PublishedBlock
    FirstBtc <- BroughtBtc
    LastBtc <- BroughtBtc
    Fee <- AtvFee
    OldBlocksWindow = 0
    MaxReorgBlocks = 2
    VbkSettlementInterval = 2
    AltSettlementInterval = 2
    MaxVbkBlocksInAltBlock = 3
    MaxVTBsInAltBlock = 1
    MaxATVsInAltBlock = 2
    Size <- PayloadSize
    MaxPopDataSize = 16
    ForeignPops <- OthersPops
    MaxAltHeight = 2
INVARIANT InFlightRetried
