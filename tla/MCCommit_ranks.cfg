\* Two chains: the bar is the minimum over chains.
CONSTANTS
    Nodes = {n1, n2}
    CHAINS = 2
    Hashes = {10, 11, 12, 13}
    NULL = NULL
    NO_ASKS_BEFORE_REMOVING = 0
    T_DISCARD = 0
    MAX_EARLY = 1
SYMMETRY Symmetry
CONSTRAINT HashOrder
SPECIFICATION CommitSpec
CHECK_DEADLOCK FALSE
INVARIANTS CommitTypeOK NothingRanksBelowTheBar NoDoubleCommit
