\* Five blocks in a chain; five bodies, one more than two passes of two can ask
\* for; up to 20 chains (as shipped); streams of three messages; files
\* of two lines.
CONSTANTS
    Hashes = {1, 2, 3, 4, 5}
    NO_ASKS_BEFORE_REMOVING = 1
    BodyHashes = {1, 2, 3, 4, 5}
    MAX_ASK_NON_FULL_IN_ONE_GO = 2
    INDIVIDUAL = 2
    Gaps = {1, 2}
    MAX_CHAINS = 20
    Values <- SomeValues
    WORD <- Word20
    NotANumber = NotANumber
    MAX_LINES = 2
    Keys = {k1, k2}
    NoKey = NoKey
    MAX_LEN = 3
    MAX_MSGS = 3
SPECIFICATION Spec
CHECK_DEADLOCK FALSE
INVARIANTS PointersAgree NoneStarves RootCoversAllChains AcceptedIffItsPlace OnceInOrder HandledAtOnce LastLineCounts
PROPERTY ImplementsBlockTree
