CONSTANTS
    R = R
    V1 = V1
    V2 = V2
    V3 = V3
    W1 = W1
    B0 = B0
    C1 = C1
    C2 = C2
    Y = Y
    Z = Z
    W = W
    X = X
    VbkBlocks <- VbkTree
    VbkRoot = R
    VbkPrev <- VbkTreePrev
    VbkAncestors <- VbkTreeAncestors
    VbkHeight <- VbkTreeHeight
    VbkBase = {R, V1, V2, W1}
    VbkKeystoneInterval = 2
    MaxReorgBlocks = 5
    BtcBlocks <- BtcChain
    BtcRoot = B0
    BtcPrev <- BtcChainPrev
    Vtbs <- VtbSet
    Containing <- DependentContaining
    Endorsed <- DependentEndorsed
    BtcContext <- VtbContext
    SettlementInterval = 2
    MaxVtbs = 3
    MaxCommands = 2
SPECIFICATION VbkSpec
INVARIANT ChainsApply
