\* Four blocks in two chains, answers of two; one node restarts and a message is lost.
CONSTANTS
    n1 = n1
    n2 = n2
    Nodes = {n1, n2}
    CHAINS = 2
    Hashes = {11, 12, 13, 14}
    NULL = NULL
    NO_ASKS_BEFORE_REMOVING = 2
    MAX_ASK_BLOCKS = 2
    Miners <- MCMiners
    Restarting = {n2}
    MAX_LOSSES = 1
    MAX_RESTARTS = 1
SPECIFICATION FairSpec
CONSTRAINT MinedInOrder
CHECK_DEADLOCK FALSE
INVARIANT OneAnswerClosesTheGap
PROPERTIES CatchesUp GossipDiesOut
