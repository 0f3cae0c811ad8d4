CONSTANTS
    MAX_MEMPOOL = 1
    BlockSizes = {0, 1}
    Interrupts = {TRUE, FALSE}
    None = None
CONSTRAINT UpToFirstLeak
SPECIFICATION FairSpec
INVARIANTS NoCircularWait NoDataRace OnlyKnownLeaks
PROPERTY EveryoneComesRound
CHECK_DEADLOCK FALSE
