------------------------------- MODULE CatchUp -------------------------------
(***************************************************************************)
(* BlockTree composed with the messages that spread headers: a node that   *)
(* joins late, restarts (nothing of the trees is on disk) or misses        *)
(* broadcasts asks its peers for what it lacks.                            *)
(*                                                                         *)
(*   #process_block  a header; relayed to all peers when it is added       *)
(*   #ask_block      for the parent of a header, at once, and again from   *)
(*                   run_network for the roots of incomplete trees; for    *)
(*                   the trailing block that a body names; the answer is   *)
(*                   the block and some ancestors of it                    *)
(*                                                                         *)
(* Messages overtake each other, and may be lost with their connection.    *)
(* What a node's peers had queued for it, or had read from it, when it     *)
(* stopped may reach it, or be answered, after it has started again (the   *)
(* peer's queue is not cleared when the connection closes).                *)
(* A root is asked for again only when nothing about it is under way:      *)
(* ASK_FOR_INCOMPLETE_INDIVIDUAL_MILLISECONDS exceeds a round trip.        *)
(***************************************************************************)
EXTENDS BlockTree, FiniteSets

CONSTANTS
    MAX_ASK_BLOCKS,   \* headers in one answer
    Miners,           \* who mines which block: <<node, hash, chain>>
    Restarting,       \* the nodes that may restart
    MAX_LOSSES,       \* bound: messages lost
    MAX_RESTARTS      \* bound: restarts

ASSUME AskBlocksAssumption == MAX_ASK_BLOCKS \in Nat \ {0}
ASSUME FaultsAssumption ==
    /\ Miners \subseteq Nodes \X Hashes \X Chain /\ Restarting \subseteq Nodes
    /\ MAX_LOSSES \in Nat /\ MAX_RESTARTS \in Nat

VARIABLES
    told,      \* #process_block under way: [from, to, hash]
    asks,      \* #ask_block under way: [from, to, hash, count], and why
    losses,    \* messages lost so far
    restarts   \* restarts so far

netVars  == <<told, asks>>
faults   == <<losses, restarts>>
allVars  == <<vars, netVars, faults>>

Told == [from : Nodes, to : Nodes, hash : Hashes]

\* why is history and in no message: the blocks below a header are missing, or
\* the trailing block of a body; or the asker has restarted since.
Ask  == [from : Nodes, to : Nodes, hash : BlockHash, count : Nat \ {0},
         why : {"gap", "trailing", "old"}]

\* Types; every request asks for at least one block.
CatchUpTypeOK ==
    /\ TypeOK
    /\ told \subseteq Told /\ asks \subseteq Ask
    /\ losses \in 0 .. MAX_LOSSES /\ restarts \in 0 .. MAX_RESTARTS

CatchUpInit ==
    /\ Init
    /\ told = {} /\ asks = {} /\ losses = 0 /\ restarts = 0

------------------------------------------------------------------------------
Peers(n) == Nodes \ {n}

\* send_block_to_peers
Broadcast(n, h) == [from : {n}, to : Peers(n), hash : {h}]

\* create__ask_block: the number of blocks asked for.
\* (Mutant: the block that arrived is not counted.)
AskCountMissing(my_depth, hash_depth) ==
    IF my_depth + 1 >= hash_depth THEN 1 ELSE hash_depth - my_depth - 1
AskCount(my_depth, hash_depth) ==
    IF my_depth >= hash_depth THEN 1 ELSE hash_depth - my_depth

AskPeers(n, h, count, why) ==
    [from : {n}, to : Peers(n), hash : {h}, count : {count}, why : {why}]

Mine(n, h, c) ==
    /\ <<n, h, c>> \in Miners
    /\ MineNewBlock(n, h, c)
    /\ told' = told \cup Broadcast(n, h)
    /\ UNCHANGED <<asks, faults>>

\* add_received_block does not add a header it has.
Known(n, h) == h \in chains[n] \/ (hdr[h].parent \notin chains[n] /\ IsInIncomplete(n, h))

\* What is relayed.
\* (Mutant: a header that was known is relayed again.)
RelayedAlways(n, h) == Broadcast(n, h)
Relayed(n, h) == IF Known(n, h) THEN {} ELSE Broadcast(n, h)

\* #process_block: the header is added and relayed, or was known; if its
\* parent is not in the main tree, the parent is asked for.
ProcessHeader(n, h) == \E m \in told :
    LET need == AskPeers(n, hdr[h].parent,
                         AskCount(hdr[deepest[n][hdr[h].chain_id]].depth, hdr[h].depth), "gap")
    IN  /\ m.to = n /\ m.hash = h
        /\ AddReceivedBlock(n, h) \/ (Known(n, h) /\ UNCHANGED vars)
        /\ told' = (told \ {m}) \cup Relayed(n, h)
        /\ asks' = asks \cup (IF NeedParent(n, h) THEN need ELSE {})
        /\ UNCHANGED faults

\* h and k ancestors of it in the trees of n.
Line(n, h, k) == {Walk(parent[n], h)[i] : i \in 0 .. k} \ {NULL}

\* The blocks #ask_block sends: h and its ancestors, as many as asked for and
\* at most MAX_ASK_BLOCKS, up to a block without parent (genesis, or the
\* missing root of an incomplete tree), which is not sent.
\* (Mutant: the walk starts one block too high.)
AnswerAbove(n, h, count) == {x \in Line(n, h, count) \ {h} : parent[n][x] # NULL}
Answer(n, h, count) ==
    LET number == IF count < MAX_ASK_BLOCKS THEN count ELSE MAX_ASK_BLOCKS
    IN  {x \in Line(n, h, number - 1) : parent[n][x] # NULL}

AskBlock(a) ==
    /\ a \in asks
    /\ asks' = asks \ {a}
    /\ told' = told \cup [from : {a.to}, to : {a.from}, hash : Answer(a.to, a.hash, a.count)]
    /\ UNCHANGED <<vars, faults>>

\* #full_block, "Verify trailing": a peer sends the body of h, which it has only
\* with the trailing block (Bodies, FullIsGrounded); the header of that block
\* is not here and is asked for, alone.
AskTrailing(n, h) ==
    LET t == hdr[h].trailing
    IN  /\ h \in chains[n] \ Chain /\ t \notin chains[n]
        /\ \E m \in Peers(n) : {h, t} \subseteq chains[m]
        /\ asks' = asks \cup AskPeers(n, t, AskCount(0, 0), "trailing")
        /\ UNCHANGED <<vars, told, faults>>

\* run_network, "Get incomplete chains".
RunNetwork(n, due) ==
    /\ \A t \in due : /\ \A a \in asks : a.from = n /\ a.why = "gap" => a.hash # t.b
                      /\ \A m \in told : m.to = n => m.hash # t.b
    /\ AskForIncomplete(n, due)
    /\ asks' = asks \cup UNION {AskPeers(n, t.b, MAX_ASK_BLOCKS, "gap") : t \in
                                  {t \in due : \E u \in inchains'[n] : u.b = t.b}}
    /\ UNCHANGED <<told, faults>>

\* A message is lost with its connection.
Lose ==
    /\ losses < MAX_LOSSES
    /\ losses' = losses + 1
    /\ \/ \E m \in told : told' = told \ {m} /\ UNCHANGED asks
       \/ \E a \in asks : asks' = asks \ {a} /\ UNCHANGED told
    /\ UNCHANGED <<vars, restarts>>

\* A node stops and starts again with the genesis blocks.  Any of the messages
\* to or from it may survive, in the queues of its peers or already read.
Restart(n) ==
    /\ n \in Restarting /\ restarts < MAX_RESTARTS
    /\ restarts' = restarts + 1
    /\ chains'   = [chains EXCEPT ![n] = Chain]
    /\ inchains' = [inchains EXCEPT ![n] = {}]
    /\ parent'   = [parent EXCEPT ![n] = [h \in BlockHash |-> NULL]]
    /\ nb'       = [nb EXCEPT ![n] = Chain]
    /\ deepest'  = [deepest EXCEPT ![n] = [c \in Chain |-> c]]
    /\ \E t \in SUBSET {m \in told : n \in {m.from, m.to}} : told' = told \ t
    /\ \E lost \in SUBSET {a \in asks : n \in {a.from, a.to}} :
         asks' = {IF a.from = n THEN [a EXCEPT !.why = "old"] ELSE a : a \in asks \ lost}
    /\ UNCHANGED <<hdr, losses>>

CatchUpNext ==
    \/ \E n \in Nodes :
         \/ \E h \in Hashes, c \in Chain : Mine(n, h, c)
         \/ \E h \in DOMAIN hdr : ProcessHeader(n, h)
         \/ \E h \in DOMAIN hdr : AskTrailing(n, h)
         \/ \E due \in SUBSET inchains[n] : RunNetwork(n, due)
         \/ Restart(n)
    \/ \E a \in asks : AskBlock(a)
    \/ Lose

\* What is not lost arrives, run_network comes round, and a body whose trailing
\* block is missing is asked for, and comes, again (FullBlocks).
Fairness ==
    /\ \A n \in Nodes, h \in Hashes : WF_allVars(ProcessHeader(n, h))
    /\ \A n \in Nodes, h \in BlockHash :
         WF_allVars(\E a \in asks : a.to = n /\ a.hash = h /\ AskBlock(a))
    /\ \A n \in Nodes : WF_allVars(\E h \in DOMAIN hdr : AskTrailing(n, h))
    /\ \A n \in Nodes : WF_allVars(\E due \in SUBSET inchains[n] : RunNetwork(n, due))

CatchUpSpec == CatchUpInit /\ [][CatchUpNext]_allVars
FairSpec    == CatchUpSpec /\ Fairness

------------------------------------------------------------------------------
\* A request for missing blocks is for enough of them: if the asker's branch left
\* the line it asks for at its deepest block or one below, the answer reaches
\* its main tree, or is cut off by MAX_ASK_BLOCKS; also when the asker's tree
\* has changed meanwhile.  (The request for a trailing block is for one block,
\* and one made before a restart was sized for another tree: the headers they
\* bring lead to requests of the first kind.)
OneAnswerClosesTheGap ==
    /\ CatchUpTypeOK
    /\ \A a \in asks :
         LET tree == chains[a.from]
             got  == Answer(a.to, a.hash, a.count)
             top  == hdr[deepest[a.from][hdr[a.hash].chain_id]].depth
             line == Line(a.to, a.hash, hdr[a.hash].depth)
         IN  /\ a.why = "gap"
             /\ a.hash \in chains[a.to] \ tree
             /\ \E f \in line \cap tree : hdr[f].depth + 1 >= top
             => \/ Cardinality(got) = MAX_ASK_BLOCKS
                \/ \E x \in got : hdr[x].parent \in tree

\* What n has heard of: the headers in its incomplete trees, and the trailing
\* blocks of the blocks in its main trees.
HeardOf(n) == InTrees(n) \cup {hdr[h].trailing : h \in chains[n] \ Chain}

\* h is missed by n: n has heard of it, and a node that stays up has it.
Missed(n, h) == h \in HeardOf(n) \ chains[n] /\ \E m \in Nodes \ Restarting : h \in chains[m]

\* Every header a node has heard of gets into its main tree, with all its
\* ancestors, unless the node restarts or the block is on no node that stays
\* up: although messages overtake each other and are lost (less often than a
\* root is asked for), and answers are shorter than the gap.  None is given
\* up, and in the end none is missed.
CatchesUp ==
    /\ [][\A n \in Nodes, h \in Hashes :
             Missed(n, h) /\ h \in InTrees(n) /\ restarts' = restarts
                 => h \in (InTrees(n) \cup chains[n])']_allVars
    /\ <>[](\A n \in Nodes, h \in Hashes : ~Missed(n, h))

\* When no more blocks are mined the gossip ends: relayed headers and answers
\* do not go round for ever.
GossipDiesOut == <>[](told = {} /\ asks = {})
=============================================================================
