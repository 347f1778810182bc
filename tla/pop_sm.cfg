CONSTANTS
    R = R
    A1 = A1
    A2 = A2
    B1 = B1
    V0 = V0
    V1 = V1
    V2 = V2
    Root = R
    VbkRoot = V0
    NoPopData = NoPopData
    Blocks <- Hook
    Prev <- HookPrev
    Ancestors <- AncestorsOf
    Height <- HeightOf
    KeystoneInterval = 1
    PayloadIds <- AllIds
    PopDatas <- BodySet
    IdsOf <- IdsOfBody
    ExternalReasons = {"BLOCK"}
    VbkBlocks <- Vbk
    VbkPrev <- VbkPrevOf
    Commands <- CommandsOfBody
    EndorsementSettlementInterval = 1
SPECIFICATION SMSpec
INVARIANTS
    ProtectingStateExact
    VbkTreeClosed
    AppliedExact
    RollbackSucceeds
    CanBeAppliedAlone
PROPERTIES
    OperationEnds
    ImplementsAltBlockTree
