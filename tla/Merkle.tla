------------------------------- MODULE Merkle -------------------------------
(***************************************************************************)
(* The Merkle tree over the deepest blocks of all chains (verify.cpp): the *)
(* miner hashes them to a root and puts into the block the proof that its  *)
(* parent is leaf chain_id; a receiver checks it before the block is full. *)
(*                                                                         *)
(* sha256 is taken as injective: the hash of x and y is the pair.  A block *)
(* hash is a number (in a leaf of its own kind, <<h>>), EMPTY_LEAF is <<0>>.*)
(* The loops over the levels of the tree are functions of the round.       *)
(***************************************************************************)
EXTENDS Integers, SequencesExt

CONSTANT MAX_CHAINS   \* bound: number of chains

ASSUME MaxChainsAssumption == MAX_CHAINS \in Nat \ {0}

VARIABLES
    n,       \* CHAINS of this network
    index,   \* the chain of the new block
    bh, id   \* what the receiver checks: a parent hash and a chain id

merkleVars == <<n, index, bh, id>>

sha256(x, y) == <<x, y>>
EMPTY_LEAF   == <<0>>

\* 2 to the k.
TwoTo[k \in Nat] == IF k = 0 THEN 1 ELSE 2 * TwoTo[k - 1]

\* ceil(log(k) / log(2))
CeilLog2(k) ==
    CHOOSE e \in 0 .. k : TwoTo[e] >= k /\ \A d \in 0 .. e - 1 : TwoTo[d] < k

\* The leaves of mine_new_block: one per chain, filled up to a complete tree.
\* (Mutant: not filled up.)
LeavesOnly(c) == [i \in 1 .. c |-> <<i>>]
Leaves(c) == [i \in 1 .. TwoTo[CeilLog2(c)] |-> IF i <= c THEN <<i>> ELSE EMPTY_LEAF]

\* The level above s; a leaf without a partner is left out.
Above(s) == [i \in 1 .. Len(s) \div 2 |-> sha256(s[2 * i - 1], s[2 * i])]

\* tmp after each round of the loop that hashes level after level, and the
\* number of rounds until one hash is left.
Levels(s) ==
    LET tmp[k \in 0 .. Len(s)] == IF k = 0 THEN s ELSE Above(tmp[k - 1])
    IN  tmp
RoundsUp(s) ==
    LET tmp == Levels(s)
    IN  CHOOSE k \in 0 .. Len(s) :
            Len(tmp[k]) <= 1 /\ \A j \in 0 .. k - 1 : Len(tmp[j]) > 1

ComputeMerkleTreeRoot(s) == Levels(s)[RoundsUp(s)][1]

\* adj_index: the other one of the pair (indices count from 0).
AdjIndex(i) == IF i % 2 = 1 THEN i - 1 ELSE i + 1

\* index /= 2 in each round, from i.
Halved(i) ==
    LET index_at[k \in Nat] == IF k = 0 THEN i ELSE index_at[k - 1] \div 2
    IN  index_at

\* What a round adds to the proof: the sibling of i (none without a partner).
Sibling(s, i) ==
    IF AdjIndex(i) < 2 * (Len(s) \div 2) THEN <<s[AdjIndex(i) + 1]>> ELSE <<>>

\* Leaf i, the siblings on the way up from it, then the root.
ComputeMerkleProof(s, i) ==
    LET tmp    == Levels(s)
        rounds == RoundsUp(s)
        proof[k \in 0 .. rounds] ==
            IF k = 0 THEN <<s[i + 1]>>
            ELSE proof[k - 1] \o Sibling(tmp[k - 1], Halved(i)[k - 1])
    IN  Append(proof[rounds], tmp[rounds][1])

MerkleProofLength(c) == 1 + CeilLog2(c) + 1

\* (Mutant: the sibling is always put on the right.)
CombineLeft(h, sibling, i) == sha256(h, sibling)
Combine(h, sibling, i) == IF i % 2 = 1 THEN sha256(sibling, h) ELSE sha256(h, sibling)

\* The loop of verify_merkle_proof: the hash reached from b with the siblings.
Climb(proof, b, i) ==
    LET h[k \in 0 .. Len(proof) - 2] ==
            IF k = 0 THEN <<b>>
            ELSE Combine(h[k - 1], proof[k + 1], Halved(i)[k - 1])
    IN  h[Len(proof) - 2]

VerifyMerkleProof(proof, b, root, i) ==
    LET top == Climb(proof, b, i)
    IN  /\ proof[1] = <<b>> \/ proof[2] = <<b>>
        /\ Last(proof) = top /\ root = top

------------------------------------------------------------------------------
MerkleInit == n \in 1 .. MAX_CHAINS /\ index = 0 /\ bh = 1 /\ id = 0

\* A block mined on chain i.
Mine(i) == index' = i /\ bh' = i + 1 /\ id' = i /\ UNCHANGED n

\* A receiver takes its proof for another parent hash or chain.
Check(b, i) ==
    /\ bh = index + 1 /\ id = index
    /\ bh' = b /\ id' = i /\ UNCHANGED <<n, index>>

MerkleNext == \E i \in 0 .. n - 1 : Mine(i) \/ \E b \in 1 .. n : Check(b, i)

MerkleSpec == MerkleInit /\ [][MerkleNext]_merkleVars

Proof == ComputeMerkleProof(Leaves(n), index)
Root  == ComputeMerkleTreeRoot(Leaves(n))

\* The reference tree over leaves lo + 1 .. lo + 2^k of c chains.
Reference(c) ==
    LET tree[k \in 0 .. CeilLog2(c)] ==
            [lo \in Nat |->
                IF k = 0 THEN (IF lo < c THEN <<lo + 1>> ELSE <<0>>)
                ELSE <<tree[k - 1][lo], tree[k - 1][lo + TwoTo[k - 1]]>>]
    IN  tree

\* The root the miner hashes covers every chain, at its place, for any number
\* of chains: it is the root of the complete tree with all of them.
RootCoversAllChains == Root = Reference(n)[CeilLog2(n)][0]

\* A block is accepted exactly with its own parent and chain: every proof the
\* miner makes verifies, for any number of chains, and with another parent or
\* another chain id (when there are several) it does not; and a proof has as
\* many fields as parse__full_block reads.
AcceptedIffItsPlace ==
    /\ VerifyMerkleProof(Proof, bh, Root, id) <=> (bh = index + 1 /\ id = index)
    /\ Len(Proof) = MerkleProofLength(n)

=============================================================================
