------------------------------ MODULE MCTxLocks ------------------------------
\* The threads and mutexes of one node, for TLC.  A behaviour is followed until
\* an early exit leaves a lock taken: after that threads only get stuck.
EXTENDS TxLocks

UpToFirstLeak == lost = {}
=============================================================================
