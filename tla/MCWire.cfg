\* Four messages to a peer; three hosts, two peers at most from the file; two
\* pings in a triangle with a tail.
CONSTANTS
    MAX_POSTS = 4
    MAX_PROCEEDS = 2
    a = a
    b = b
    c = c
    Hosts = {a, b, c}
    Conf <- MCConf
    Resolve <- MCResolve
    MAX_PEERS = 2
    Nodes = {1, 2, 3, 4}
    Links <- TriangleAndTail
    Origins = {1}
    PING_REPEAT = 2
    MAX_READ = 2
SPECIFICATION Spec
CHECK_DEADLOCK FALSE
INVARIANTS ConnectionInv OnePeerPerAddress DistancesMeasured
PROPERTIES ImplementsChannel QueueMoves Starts PingsDieOut
