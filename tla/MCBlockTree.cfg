\* Two chains; blocks enough for two incomplete trees that join, and for two
\* branches that are both logged.
CONSTANTS
    Nodes = {n1, n2}
    CHAINS = 2
    Hashes = {a, b, c, d, e}
    NULL = NULL
    NO_ASKS_BEFORE_REMOVING = 1
    STORE_HASH_MINUS = 1
    STORE_HASH_FREQ = 1
SYMMETRY Symmetry
SPECIFICATION LogSpec
CHECK_DEADLOCK FALSE
INVARIANTS OneHome RankOrder TreeInv LogInv
PROPERTIES FirstSeenKept LosesOnlyExpired ImplementsLongestChain
