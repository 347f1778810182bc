CONSTANTS
    FinalityDelay = 2
    LookUpTable <- Table
    NO_ENDORSEMENT <- Never
    PublicationHeights = {0, 1, 2, 4}
    Views <- ViewSet
    MaxKeystones = 3
    ChainHeight = 3
    Timestamps = {0, 1, 2}
    NoEndorsement = 100
SPECIFICATION ForkSpec
INVARIANTS
    EndorsedWins
    EarlyExitSound
    EarliestOfVisited
PROPERTY Symmetric
CHECK_DEADLOCK FALSE
