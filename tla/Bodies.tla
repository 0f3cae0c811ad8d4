------------------------------- MODULE Bodies -------------------------------
(***************************************************************************)
(* BlockTree with the bodies of the blocks: a header is attached first,    *)
(* its transactions come later from a peer that has them, and only then is *)
(* the block full.  This is the outcome of the full-block requests, whose  *)
(* messages and queues are in FullBlocks.                                  *)
(***************************************************************************)
EXTENDS BlockTree

VARIABLE is_full   \* is_full[n]: blocks node n has the transactions of

bodyVars == <<vars, is_full>>

BodyInit == Init /\ is_full = [n \in Nodes |-> Chain]

\* mine_new_block writes the body first: a mined block is full at once.
MineFullBlock(n, h, c) ==
    /\ MineNewBlock(n, h, c)
    /\ is_full' = [is_full EXCEPT ![n] = @ \cup {h}]

\* #process_block: the nodes add_received_block creates are not full.
ProcessBlock(n, h) == AddReceivedBlock(n, h) /\ UNCHANGED is_full

AskIncomplete(n, due) == AskForIncomplete(n, due) /\ UNCHANGED is_full

\* have_full_block
HaveFull(n, h) == h \in chains[n] /\ h \in is_full[n]

\* #got_full_block and #ask_full_block at the peers: one that has the block
\* full answers.
PeerHas(n, h) == \E m \in Nodes \ {n} : HaveFull(m, h)

\* (Mutant: a body that arrives a second time is taken again.)
BodyWantedTwice(n, h) == h \in chains[n] \ Chain
\* #full_block skips a block it has already and one not in the main tree.
BodyWanted(n, h) == h \in chains[n] /\ ~HaveFull(n, h)

\* (Mutant: the trailing block is not looked up.)
TrailingTrusted(n, h) == TRUE
\* A body is refused, and the header of the trailing block asked for, while
\* that block is not in the main tree of its chain.
TrailingKnown(n, h) == hdr[h].trailing \in chains[n]

\* #full_block, accepted.  The body comes from a node that has it; hash, chain
\* id and Merkle proof hold for a block mined by this code.  Whether its
\* transactions verify depends on the mempool; a refused body leaves this
\* state as it is.
ReceiveBody(n, h) ==
    /\ BodyWanted(n, h)
    /\ PeerHas(n, h)
    /\ TrailingKnown(n, h)
    /\ is_full' = [is_full EXCEPT ![n] = @ \cup {h}]
    /\ UNCHANGED vars

------------------------------------------------------------------------------
\* A full block has, on that node, everything the order of blocks refers to:
\* its parent and the trailing block its next_rank comes from are in the main
\* trees, although headers and bodies arrive in any order.
FullIsGrounded ==
    \A n \in Nodes : \A h \in is_full[n] :
        /\ h \in chains[n]
        /\ h \notin Chain => hdr[h].parent \in chains[n]
                             /\ hdr[h].trailing \in chains[n]
=============================================================================
