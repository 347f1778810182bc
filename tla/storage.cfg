CONSTANTS
    R = R
    A1 = A1
    A2 = A2
    A3 = A3
    B1 = B1
    P1 = P1
    Root = R
    NoPopData = NoPopData
    NotStored = NotStored
    Blocks <- Fork
    Prev <- ForkPrev
    Ancestors <- AncestorsOf
    Height <- HeightOf
    KeystoneInterval = 2
    MaxUnsaved = 2
    MaxMarked = 1
    LeavesOnly = TRUE
    PayloadIds <- Ids1
    PopDatas <- OnePayload
    IdsOf <- IdsOfBody
    ExternalReasons = {"BLOCK"}
SPECIFICATION StorageSpec
INVARIANTS
    LoadSucceeds
    CleanMatchesDb
    TipsExact
