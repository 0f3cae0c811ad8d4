\* One chain: long enough for a committed block to be on a losing branch.
CONSTANTS
    Nodes = {n1, n2}
    CHAINS = 1
    Hashes = {10, 11, 12, 13, 14}
    NULL = NULL
    NO_ASKS_BEFORE_REMOVING = 0
    T_DISCARD = 0
    MAX_EARLY = 0
SYMMETRY Symmetry
CONSTRAINT HashOrder
SPECIFICATION CommitSpec
CHECK_DEADLOCK FALSE
PROPERTIES ShallowForkKeepsCommits
