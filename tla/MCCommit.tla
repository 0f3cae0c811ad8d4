------------------------------ MODULE MCCommit ------------------------------
\* Commit for TLC: hashes are numbers, mined in their order (they are
\* interchangeable), nodes are model values.
EXTENDS Commit, TLC

HashOrder == \A x, y \in Hashes : x < y /\ y \in DOMAIN hdr => x \in DOMAIN hdr

Symmetry == Permutations(Nodes)
==============================================================================
