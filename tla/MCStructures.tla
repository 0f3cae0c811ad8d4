---------------------------- MODULE MCStructures ----------------------------
\* The data structures and algorithms of one node that share no state, in one
\* run of TLC: the pointers of the trees, the queue of missing bodies, the
\* Merkle proofs, the buffer messages are received in, the configuration.  The
\* initial state chooses which of them works; the others stay in one initial
\* state.
EXTENDS HashTree, AskQueue, Merkle, Framing, Configuration

VARIABLE part

Init ==
    /\ part \in {"pointers", "queue", "merkle", "receiver", "configuration"}
    /\ part # "pointers" => from = [h \in Hashes |-> Genesis]
    /\ part # "merkle"   => n = 1
    /\ part # "receiver" => stream = [i \in 1 .. MAX_MSGS |-> CHOOSE x \in Message : TRUE]
    /\ HeapInit /\ QueueInit /\ MerkleInit /\ FrameInit /\ ConfigInit

Next ==
    \/ part = "pointers" /\ HeapNext
         /\ UNCHANGED <<part, askVars, merkleVars, frVars, configVars>>
    \/ part = "queue" /\ QueueNext
         /\ UNCHANGED <<part, heapVars, merkleVars, frVars, configVars>>
    \/ part = "merkle" /\ MerkleNext
         /\ UNCHANGED <<part, heapVars, askVars, frVars, configVars>>
    \/ part = "receiver" /\ FrameNext
         /\ UNCHANGED <<part, heapVars, askVars, merkleVars, configVars>>
    \/ part = "configuration" /\ ConfigNext
         /\ UNCHANGED <<part, heapVars, askVars, merkleVars, frVars>>

Spec == Init /\ [][Next]_<<part, heapVars, askVars, merkleVars, frVars, configVars>>

\* A word of 20 bits, above the largest default.
Word20 == 2^20
SomeValues == {2, 7, 2^20 + 3}
=============================================================================
