CONSTANTS
    R = R
    A1 = A1
    A2 = A2
    A3 = A3
    B1 = B1
    P1 = P1
    Root = R
    NoPopData = NoPopData
    Blocks <- Hook
    Prev <- HookPrev
    Ancestors <- AncestorsOf
    Height <- HeightOf
    KeystoneInterval = 2
    PayloadIds <- Ids1
    PopDatas <- OnePayload
    IdsOf <- IdsOfBody
    ExternalReasons = {"BLOCK"}
SPECIFICATION Spec
INVARIANTS
    TypeOK
    FailedChildExact
    TipsExact
    LevelsDescend
    HeaderAbortsOnFailedOnly
    ActiveChainValid
    AppliedNeverFailedPop
    ConnectedExact
    PayloadsIndexExact
    NoDuplicateOnValidChain
