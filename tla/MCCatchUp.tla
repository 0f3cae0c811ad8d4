------------------------------ MODULE MCCatchUp ------------------------------
\* CatchUp for TLC.  Hashes are interchangeable: they are given to blocks in
\* the order the blocks are mined.
EXTENDS CatchUp

CONSTANTS n1, n2

MinedInOrder == \A h \in DOMAIN hdr \cap Hashes : \A x \in Hashes : x < h => x \in DOMAIN hdr
\* The second node mines one block, which may become a fork, and hears of the
\* others: a gap of up to three blocks in chain 1, and trailing blocks in both.
MCMiners == {<<n2, 11, 1>>} \cup ({n1} \X {12, 13, 14} \X {1}) \cup ({n1} \X {12, 13} \X {0})
=============================================================================
