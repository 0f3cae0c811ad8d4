CONSTANTS
    l = l
    r = r
    Local = {l}
    Remote = {r}
    EMPTY = EMPTY
    MAX_SEQ = 1
    MAX_V = 1
    Offered <- TwoInARow
SPECIFICATION Spec
CHECK_DEADLOCK FALSE
INVARIANTS MempoolHasDependenciesMet
