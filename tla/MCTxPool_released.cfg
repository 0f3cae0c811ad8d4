CONSTANTS
    l = l
    r = r
    Local = {}
    Remote = {l, r}
    EMPTY = EMPTY
    MAX_SEQ = 1
    MAX_V = 0
    Offered <- Chained
SPECIFICATION Spec
CHECK_DEADLOCK FALSE
INVARIANTS PromisedReleasesDependents
