------------------------------- MODULE HashLog -------------------------------
(***************************************************************************)
(* The log of block hashes of chain 0 that every node writes to            *)
(* FOLDER_HASHES, by which runs are compared: "the hash of max block - 6   *)
(* of chain 0".  BlockTree with the pass of run_network that writes it.    *)
(***************************************************************************)
EXTENDS BlockTree, FiniteSetsExt, Sequences

CONSTANTS
    STORE_HASH_MINUS,   \* blocks left on top of the last stored one
    STORE_HASH_FREQ     \* depths that are stored

ASSUME StoreAssumption == STORE_HASH_MINUS \in Nat /\ STORE_HASH_FREQ \in Nat \ {0}

VARIABLES
    last_stored,   \* last_stored_hash_depth
    file           \* the log: sequence of [depth, hash]

logVars == <<last_stored, file>>

\* Types.
LogTypeOK ==
    /\ last_stored \in [Nodes -> Nat \cup {-1}]
    /\ file \in [Nodes -> Seq([depth : Nat, hash : BlockHash])]

LogInit ==
    /\ Init
    /\ last_stored = [n \in Nodes |-> -1] /\ file = [n \in Nodes |-> <<>>]

------------------------------------------------------------------------------
\* The ancestor of h at depth d, along the parent pointers.
AncestorAt(n, h, d) == Walk(parent[n], h)[hdr[h].depth - d]

\* (Mutant: one step less.)
StoredDepthOffByOne(n) == Max({0, hdr[deepest[n][0]].depth - STORE_HASH_MINUS + 1})
\* maxd: STORE_HASH_MINUS below the deepest block, or genesis.
StoredDepth(n) == Max({0, hdr[deepest[n][0]].depth - STORE_HASH_MINUS})

\* The depths above the last stored one, up to maxd.
Unstored(n) == StoredDepth(n) - last_stored[n]

\* The entry for depth d.
Entry(n, d) == [depth |-> d, hash |-> AncestorAt(n, deepest[n][0], d)]

\* The file with the first k of these depths, as far as they are stored at
\* all.  (The code gathers them from the deepest one down and writes them in
\* reverse.)
Written(n) ==
    LET lines[k \in 0 .. Unstored(n)] ==
            IF k = 0 THEN file[n]
            ELSE LET d == last_stored[n] + k
                 IN  IF d % STORE_HASH_FREQ = 0 THEN Append(lines[k - 1], Entry(n, d))
                                                ELSE lines[k - 1]
    IN  lines

StoreHashes(n) ==
    /\ Unstored(n) > 0
    /\ last_stored' = [last_stored EXCEPT ![n] = StoredDepth(n)]
    /\ file' = [file EXCEPT ![n] = Written(n)[Unstored(n)]]
    /\ UNCHANGED vars

LogNext ==
    \/ Next /\ UNCHANGED logVars
    \/ \E n \in Nodes : StoreHashes(n)

LogSpec == LogInit /\ [][LogNext]_<<vars, logVars>>

------------------------------------------------------------------------------
\* Each depth is stored once, in order and without a gap, although the node
\* may have changed to another branch between two passes.
StoredOnceInOrder ==
    \A n \in Nodes :
        /\ \A i \in DOMAIN file[n] : file[n][i].depth = (i - 1) * STORE_HASH_FREQ
        /\ Len(file[n]) = (last_stored[n] + STORE_HASH_FREQ) \div STORE_HASH_FREQ

\* h is STORE_HASH_MINUS blocks deep in a branch that some node has.
Overgrown(h) ==
    \E n \in Nodes : \E x \in chains[n] :
        /\ hdr[x].chain_id = 0
        /\ hdr[x].depth >= hdr[h].depth + STORE_HASH_MINUS
        /\ AncestorAt(n, x, hdr[h].depth) = h

\* Two logs differ at a depth, or a log differs from the node's own chain,
\* only if both branches grew STORE_HASH_MINUS blocks above it.
LogsDifferOnDeepForksOnly ==
    \A n, m \in Nodes :
        /\ \A i \in DOMAIN file[n] \cap DOMAIN file[m] :
             file[n][i].hash # file[m][i].hash =>
                 Overgrown(file[n][i].hash) /\ Overgrown(file[m][i].hash)
        /\ \A i \in DOMAIN file[n] :
             LET own == AncestorAt(n, deepest[n][0], file[n][i].depth)
             IN  own # file[n][i].hash => Overgrown(own) /\ Overgrown(file[n][i].hash)

\* The log run_network writes is complete and comparable: both of these.
LogInv == LogTypeOK /\ StoredOnceInOrder /\ LogsDifferOnDeepForksOnly
=============================================================================
