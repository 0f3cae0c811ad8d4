CONSTANTS
    Nodes = {n1, n2}
    CHAINS = 2
    Hashes = {10, 11, 12}
    NULL = NULL
    NO_ASKS_BEFORE_REMOVING = 1
    MAX_ASK_NON_FULL_IN_ONE_GO = 1
SYMMETRY Symmetry
CONSTRAINT HashOrder
SPECIFICATION FullSpec
CHECK_DEADLOCK FALSE
INVARIANTS FullIsGrounded NonFullTracked WaitingIsMissing Accounting
