CONSTANTS
    Nodes = {n1, n2}
    CHAINS = 1
    Hashes = {10, 11}
    NULL = NULL
    NO_ASKS_BEFORE_REMOVING = 0
    MAX_ASK_NON_FULL_IN_ONE_GO = 1
SPECIFICATION FairSpec
CHECK_DEADLOCK FALSE
PROPERTIES AskedUntilFull
