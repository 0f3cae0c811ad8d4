----------------------------- MODULE MCBlockTree -----------------------------
\* The trees and the log of hashes for TLC: hashes and nodes are
\* interchangeable model values.
EXTENDS HashLog, TLC

Symmetry == Permutations(Hashes) \cup Permutations(Nodes)
==============================================================================
