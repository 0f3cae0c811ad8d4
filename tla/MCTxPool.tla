------------------------------ MODULE MCTxPool ------------------------------
\* TxPool for TLC: one client of this node (l), one of another (r).
EXTENDS TxPool

CONSTANTS l, r

Transaction(c, n, d, x) == [from |-> c, seq |-> n, dep |-> d, v |-> x]
L0 == [from |-> l, seq |-> 0]
R0 == [from |-> r, seq |-> 0]

\* Another node makes two transactions, the second after it saw one of ours.
TwoInARow == {Transaction(r, 0, EMPTY, 0), Transaction(r, 1, L0, 0)}

\* This node restarts: its number 0 from before comes back.
OwnRestart == {Transaction(r, 0, EMPTY, 0), Transaction(l, 0, R0, 1)}

\* Both, and the other node restarts and uses its number 0 again.
Conflicting == TwoInARow \cup OwnRestart \cup {Transaction(r, 0, EMPTY, 1)}
\* A number waits for another client's, and a third transaction for it.
Chained == {Transaction(l, 0, EMPTY, 0), Transaction(r, 0, EMPTY, 0), Transaction(r, 1, L0, 0),
            Transaction(l, 1, [from |-> r, seq |-> 1], 0)}
==============================================================================
