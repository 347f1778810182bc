CONSTANTS
    R = R
    A1 = A1
    A2 = A2
    A3 = A3
    B1 = B1
    P1 = P1
    Root = R
    NoPopData = NoPopData
    NotStored = NotStored
    Blocks <- Row
    Prev <- RowPrev
    Ancestors <- AncestorsOf
    Height <- HeightOf
    KeystoneInterval = 2
    MaxUnsaved = 4
    MaxMarked = 0
    LeavesOnly = TRUE
    PayloadIds <- Ids1
    PopDatas <- NoPayload
    IdsOf <- IdsOfBody
    ExternalReasons = {"BLOCK"}
SPECIFICATION StorageSpec
INVARIANT ApplyNeverAborts
