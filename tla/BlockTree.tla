------------------------------ MODULE BlockTree ------------------------------
(***************************************************************************)
(* The block trees every OHIE node keeps: one main tree per chain, the     *)
(* list of incomplete trees (descendants of a block whose header has not   *)
(* arrived yet) and the deepest block of every chain.  Blocks are mined    *)
(* with the code of miner.cpp; a received header goes through              *)
(* Blockchain::add_received_block, one action per case of it.              *)
(*                                                                         *)
(* Network: a mined header may reach any node at any time, in any order    *)
(* and any number of times (headers are broadcast, relayed, and sent again *)
(* in answer to #ask_block), so hdr doubles as the set of messages.        *)
(*                                                                         *)
(* Every handler and the miner hold Blockchain::lock from start to end, so *)
(* each of them is one atomic action.                                      *)
(*                                                                         *)
(* A block hash is an opaque value that determines its header (sha256);    *)
(* the binary search tree over hashes and the child/sibling lists are the  *)
(* sets and the parent pointers below.  Depths and ranks stay below        *)
(* MAX_MINE_BLOCKS * nodes, far from 2^32: plain numbers.                  *)
(***************************************************************************)
EXTENDS Integers

CONSTANTS
    Nodes,                    \* the running nodes
    CHAINS,                   \* number of parallel chains (_configuration)
    Hashes,                   \* hashes of the blocks that can be mined
    NULL,                     \* the null pointer
    NO_ASKS_BEFORE_REMOVING   \* requests for a missing root before giving up

Chain == 0 .. CHAINS - 1

\* node.cpp gives the genesis block of chain i the hash i.
BlockHash == Chain \cup Hashes

ASSUME ChainsAssumption == CHAINS \in Nat \ {0}
ASSUME HashAssumption   == Chain \cap Hashes = {}
ASSUME NullAssumption   == NULL \notin BlockHash
ASSUME AsksAssumption   == NO_ASKS_BEFORE_REMOVING \in Nat

VARIABLES
    hdr,       \* header of every block mined so far, genesis included
    chains,    \* chains[n]: hashes in the main trees of node n
    inchains,  \* inchains[n]: the incomplete trees of node n
    parent,    \* parent[n][h]: the parent pointer of h's tree node
    nb,        \* nb[n]: hashes whose tree node has its network_block set
    deepest    \* deepest[n][c]: first seen block of maximal depth in chain c

nodeVars == <<chains, inchains, parent, nb, deepest>>
vars     == <<hdr, nodeVars>>

Header == [chain_id : Chain, parent : BlockHash \cup {NULL},
           trailing : BlockHash \cup {NULL}, trailing_id : Chain,
           depth : Nat, rank : Nat, next_rank : Nat]

\* block_incomplete: root b (the missing block), the nodes of the tree below
\* it (b included) and the number of times b has been asked for.
Tree == [b : BlockHash, nodes : SUBSET BlockHash,
         no_asks : 0 .. NO_ASKS_BEFORE_REMOVING]

\* Types; a tree is dropped before it has been asked for too often.
TypeOK ==
    /\ hdr \in [DOMAIN hdr -> Header]
    /\ Chain \subseteq DOMAIN hdr /\ DOMAIN hdr \subseteq BlockHash
    /\ chains \in [Nodes -> SUBSET BlockHash]
    /\ inchains \in [Nodes -> SUBSET Tree]
    /\ parent \in [Nodes -> [BlockHash -> BlockHash \cup {NULL}]]
    /\ nb \in [Nodes -> SUBSET BlockHash]
    /\ deepest \in [Nodes -> [Chain -> BlockHash]]

------------------------------------------------------------------------------
Genesis(c) == [chain_id |-> c, parent |-> NULL, trailing |-> NULL,
               trailing_id |-> c, depth |-> 0, rank |-> 0, next_rank |-> 0]

\* Blockchain::Blockchain
Init ==
    /\ hdr      = [c \in Chain |-> Genesis(c)]
    /\ chains   = [n \in Nodes |-> Chain]
    /\ inchains = [n \in Nodes |-> {}]
    /\ parent   = [n \in Nodes |-> [h \in BlockHash |-> NULL]]
    /\ nb       = [n \in Nodes |-> Chain]
    /\ deepest  = [n \in Nodes |-> [c \in Chain |-> c]]

NextRank(n, c) == hdr[deepest[n][c]].next_rank

\* The loop over the chains keeps the first chain with the largest next_rank.
IsTrailing(n, t) ==
    /\ t \in Chain
    /\ \A c \in Chain : /\ NextRank(n, c) <= NextRank(n, t)
                        /\ c < t => NextRank(n, c) < NextRank(n, t)

\* The new block's next_rank: that of the trailing block, above its own rank.
\* (Mutant: an off-by-one in the comparison.)
RaisedRankOffByOne(rank, next) == IF next < rank THEN rank + 1 ELSE next
RaisedRank(rank, next) == IF next <= rank THEN rank + 1 ELSE next

MinedHeader(n, c, t) ==
    LET p == deepest[n][c] IN
    [chain_id |-> c, parent |-> p, trailing |-> deepest[n][t],
     trailing_id |-> t, depth |-> hdr[p].depth + 1, rank |-> hdr[p].next_rank,
     next_rank |-> RaisedRank(hdr[p].next_rank, NextRank(n, t))]

\* mine_new_block: sha256 decides the chain c and the hash h; the block goes
\* on top of the deepest block of c and becomes the deepest one.
MineNewBlock(n, h, c) ==
    /\ h \in Hashes \ DOMAIN hdr
    /\ c \in Chain
    /\ \E t \in Chain :
         /\ IsTrailing(n, t)
         /\ hdr' = [x \in DOMAIN hdr \cup {h} |->
                      IF x = h THEN MinedHeader(n, c, t) ELSE hdr[x]]
    /\ chains'  = [chains EXCEPT ![n] = @ \cup {h}]
    /\ parent'  = [parent EXCEPT ![n][h] = deepest[n][c]]
    /\ nb'      = [nb EXCEPT ![n] = @ \cup {h}]
    /\ deepest' = [deepest EXCEPT ![n][c] = h]
    /\ UNCHANGED inchains

------------------------------------------------------------------------------
\* The header of a mined block h arrives at node n (#process_block).
Arrives(n, h) == h \in DOMAIN hdr \ Chain /\ h \notin chains[n]

\* is_in_incomplete: the link (parent of h, h) is already in some tree.
IsInIncomplete(n, h) ==
    \E t \in inchains[n] : h \in t.nodes /\ parent[n][h] = hdr[h].parent

\* is_incomplete_hash: the tree whose missing root is h.
\* (Mutant: the incomplete trees are not looked at.)
RootedAtNone(n, h) == {}
RootedAt(n, h) == {t \in inchains[n] : t.b = h}

\* find_max_depth: some node of maximal depth of the tree with these nodes
\* (which one of several depends on the order of the child list).
\* (Mutant: the comparison is the wrong way round.)
IsShallowest(d, nodes) ==
    d \in nodes /\ \A x \in nodes : hdr[x].depth >= hdr[d].depth
IsMaxDepth(d, nodes) ==
    d \in nodes /\ \A x \in nodes : hdr[x].depth <= hdr[d].depth

\* (Mutant: a block of equal depth replaces the deepest one.)
NotShallower(d, old) == hdr[d].depth >= hdr[old].depth
Deeper(d, old) == hdr[d].depth > hdr[old].depth

\* add_received_block, parent in the main tree: attach h, with the incomplete
\* tree rooted at h if there is one, and move deepest only to a strictly
\* deeper block.
AddToMain(n, h) ==
    LET c     == hdr[h].chain_id
        bi    == RootedAt(n, h)
        moved == {h} \cup UNION {t.nodes : t \in bi}
    IN  /\ Arrives(n, h)
        /\ hdr[h].parent \in chains[n]
        /\ chains'   = [chains EXCEPT ![n] = @ \cup moved]
        /\ inchains' = [inchains EXCEPT ![n] = @ \ bi]
        /\ parent'   = [parent EXCEPT ![n][h] = hdr[h].parent]
        /\ nb'       = [nb EXCEPT ![n] = @ \cup {h}]
        /\ \E d \in moved :
             /\ IsMaxDepth(d, moved)
             /\ deepest' = [deepest EXCEPT ![n][c] =
                              IF Deeper(d, @) THEN d ELSE @]
        /\ UNCHANGED hdr

\* The part common to the cases of add_block_to_incomplete: trees old are
\* replaced by new, and h's node gets its network_block.
\* (Mutant: the network_block is never stored.)
AddToIncompleteNoNb(n, h, old, new) ==
    /\ Arrives(n, h)
    /\ hdr[h].parent \notin chains[n]
    /\ ~IsInIncomplete(n, h)
    /\ inchains' = [inchains EXCEPT ![n] = (@ \ old) \cup {new}]
    /\ UNCHANGED <<hdr, chains, nb, deepest>>
AddToIncomplete(n, h, old, new) ==
    /\ Arrives(n, h)
    /\ hdr[h].parent \notin chains[n]
    /\ ~IsInIncomplete(n, h)
    /\ inchains' = [inchains EXCEPT ![n] = (@ \ old) \cup {new}]
    /\ nb'       = [nb EXCEPT ![n] = @ \cup {h}]
    /\ UNCHANGED <<hdr, chains, deepest>>

TreesWith(n, h) == {t \in inchains[n] : h \in t.nodes}

\* Neither h nor its parent is in an incomplete tree: a new tree of the two.
NewTree(n, h) ==
    LET p == hdr[h].parent
    IN  /\ TreesWith(n, h) = {} /\ TreesWith(n, p) = {}
        /\ AddToIncomplete(n, h, {}, [b |-> p, nodes |-> {p, h}, no_asks |-> 0])
        /\ parent' = [parent EXCEPT ![n][h] = p]

\* Only the parent is in a tree ph: h becomes a node of ph.
GrowTree(n, h) ==
    LET p == hdr[h].parent
    IN  /\ TreesWith(n, h) = {}
        /\ \E ph \in TreesWith(n, p) :
             AddToIncomplete(n, h, {ph}, [ph EXCEPT !.nodes = @ \cup {h}])
        /\ parent' = [parent EXCEPT ![n][h] = p]

\* Only h is in a tree ch: the parent becomes the new root, above the old one,
\* and the requests start again.
RaiseRoot(n, h) ==
    LET p == hdr[h].parent
    IN  /\ TreesWith(n, p) = {}
        /\ \E ch \in TreesWith(n, h) :
             /\ AddToIncomplete(n, h, {ch}, [b |-> p, nodes |-> ch.nodes \cup {p},
                                             no_asks |-> 0])
             /\ parent' = [parent EXCEPT ![n][ch.b] = p]

\* insert_subtree_by_hash moves every node of ch.
\* (Mutant: only the root is inserted.)
JoinedRootOnly(ph, ch) == [ph EXCEPT !.nodes = @ \cup {ch.b}]
Joined(ph, ch) == [ph EXCEPT !.nodes = @ \cup ch.nodes]

\* Both are in trees: ch hangs below h's parent in ph, and is removed.
JoinTrees(n, h) ==
    LET p == hdr[h].parent
    IN  \E ch \in TreesWith(n, h), ph \in TreesWith(n, p) :
          /\ AddToIncomplete(n, h, {ch, ph}, Joined(ph, ch))
          /\ parent' = [parent EXCEPT ![n][ch.b] = p]

Expired(t) == t.no_asks > NO_ASKS_BEFORE_REMOVING

\* run_network asks the peers for the root of every tree that is due (the
\* clock is abstracted: any trees may be due).  A tree asked for too often is
\* dropped with all its nodes.
AskForIncomplete(n, due) ==
    LET asked   == {[t EXCEPT !.no_asks = @ + 1] : t \in due}
        kept    == {t \in asked : ~Expired(t)}
        dropped == UNION {t.nodes : t \in asked \ kept}
    IN  /\ due \subseteq inchains[n] /\ due # {}
        /\ inchains' = [inchains EXCEPT ![n] = (@ \ due) \cup kept]
        /\ parent'   = [parent EXCEPT ![n] =
                          [h \in BlockHash |-> IF h \in dropped THEN NULL ELSE @[h]]]
        /\ nb'       = [nb EXCEPT ![n] = @ \ dropped]
        /\ UNCHANGED <<hdr, chains, deepest>>

AddReceivedBlock(n, h) ==
    \/ AddToMain(n, h)
    \/ NewTree(n, h)
    \/ GrowTree(n, h)
    \/ RaiseRoot(n, h)
    \/ JoinTrees(n, h)

Next == \E n \in Nodes :
    \/ \E h \in Hashes, c \in Chain : MineNewBlock(n, h, c)
    \/ \E h \in DOMAIN hdr : AddReceivedBlock(n, h)
    \/ \E due \in SUBSET inchains[n] : AskForIncomplete(n, due)

Spec == Init /\ [][Next]_vars

------------------------------------------------------------------------------
InTrees(n) == UNION {t.nodes : t \in inchains[n]}
Roots(n)   == {t.b : t \in inchains[n]}

\* A block is at one place only: never in a main tree and in an incomplete
\* one, never in two incomplete trees.  add_received_block looks a hash up in
\* the trees one after the other and takes the first hit, whatever order the
\* headers came in.
OneHome ==
    \A n \in Nodes : \A t \in inchains[n] :
        /\ t.b \in t.nodes
        /\ t.nodes \cap chains[n] = {}
        /\ \A u \in inchains[n] : t # u => t.nodes \cap u.nodes = {}

\* Grafting and joining keep the trees well linked: below a genesis block or
\* a root every node points to the parent its header names, in the same tree,
\* and the roots (where the walks of #ask_block and of the commit rule end)
\* point nowhere.
WellLinked ==
    \A n \in Nodes :
        /\ \A h \in chains[n] \ Chain :
             parent[n][h] = hdr[h].parent /\ parent[n][h] \in chains[n]
        /\ \A t \in inchains[n] : \A h \in t.nodes \ {t.b} :
             parent[n][h] = hdr[h].parent /\ parent[n][h] \in t.nodes
        /\ \A h \in Chain \cup Roots(n) : parent[n][h] = NULL

\* The code follows nb without a test in the main trees (find_max_depth,
\* mine_new_block) and in incomplete trees for nodes that have a parent
\* (send_block_to_one_peer): it is set there, and only a missing root has none.
NbSet == \A n \in Nodes : nb[n] = chains[n] \cup (InTrees(n) \ Roots(n))

\* deepest[c] is a block of the main tree of chain c with maximal depth,
\* although whole subtrees arrive at once and only the grafted one is searched.
DeepestIsDeepest ==
    \A n \in Nodes, c \in Chain :
        /\ deepest[n][c] \in chains[n]
        /\ hdr[deepest[n][c]].chain_id = c
        /\ \A h \in chains[n] :
             hdr[h].chain_id = c => hdr[h].depth <= hdr[deepest[n][c]].depth

\* Depth and rank grow strictly along the parent pointers of one chain, and a
\* block's next_rank is at least that of the block it names as trailing:
\* what the commit rule's comparison of next_rank relies on.
RankOrder ==
    \A h \in DOMAIN hdr \ Chain :
        LET b == hdr[h] IN
        /\ b.parent \in DOMAIN hdr /\ b.trailing \in DOMAIN hdr
        /\ b.chain_id = hdr[b.parent].chain_id
        /\ b.trailing_id = hdr[b.trailing].chain_id
        /\ b.depth = hdr[b.parent].depth + 1
        /\ hdr[b.parent].next_rank = b.rank /\ b.rank < b.next_rank
        /\ hdr[b.trailing].next_rank <= b.next_rank

\* What the safety properties above need to be inductive: genesis headers stay
\* as they were, the trees hold mined blocks only, an incomplete tree belongs
\* to one chain and its root is its least deep node (so a tree never grows
\* into a cycle), and a hash outside all trees has no stale pointer.
Shape ==
    /\ \A c \in Chain : hdr[c] = Genesis(c)
    /\ \A n \in Nodes :
         /\ Chain \subseteq chains[n] /\ chains[n] \subseteq DOMAIN hdr
         /\ \A t \in inchains[n] : \A h \in t.nodes :
              /\ h \in DOMAIN hdr
              /\ hdr[h].chain_id = hdr[t.b].chain_id
              /\ h # t.b => hdr[t.b].depth < hdr[h].depth
         /\ \A h \in BlockHash \ (chains[n] \cup InTrees(n)) : parent[n][h] = NULL

\* The inductive invariant: whatever the order, number and interleaving of
\* deliveries, minings and given-up requests, all of the above hold together.
TreeInv == /\ TypeOK /\ RankOrder /\ Shape /\ OneHome
           /\ WellLinked /\ NbSet /\ DeepestIsDeepest

\* First seen rule: a node leaves its deepest block only for a strictly deeper
\* one, so two branches of equal depth never make it switch back and forth.
FirstSeenKept ==
    [][\A n \in Nodes, c \in Chain :
         deepest'[n][c] # deepest[n][c] =>
           hdr'[deepest'[n][c]].depth > hdr[deepest[n][c]].depth]_vars

\* A known block leaves a node's trees only with an incomplete tree whose root
\* was asked for NO_ASKS_BEFORE_REMOVING times; grafting, raising and joining
\* lose nothing.
LosesOnlyExpired ==
    [][\A n \in Nodes :
         \A h \in (chains[n] \cup InTrees(n)) \ (chains'[n] \cup InTrees(n)') :
           \E t \in inchains[n] : /\ h \in t.nodes
                                  /\ t.no_asks = NO_ASKS_BEFORE_REMOVING]_vars

\* Seen through its main trees and deepest blocks only, a node follows the
\* longest chain rule of LongestChain: the incomplete trees, the order of
\* arrival and the given-up requests are invisible.
LC == INSTANCE LongestChain
        WITH blk   <- [h \in DOMAIN hdr |-> [chain  |-> hdr[h].chain_id,
                                            parent |-> hdr[h].parent,
                                            depth  |-> hdr[h].depth]],
             known <- chains,
             tip   <- deepest

\* add_received_block and mine_new_block implement the longest chain rule.
ImplementsLongestChain == LC!Spec

\* The value add_received_block would return for h.
NeedParent(n, h) ==
    /\ h \notin chains[n]
    /\ hdr[h].parent \notin chains[n]
    /\ ~IsInIncomplete(n, h)

\* Walk(par, b)[k]: k steps along the parent pointers par from b, NULL past
\* the root.
Walk(par, b) ==
    LET up[k \in Nat] == IF k = 0 THEN b
                         ELSE LET t == up[k - 1]
                              IN  IF t = NULL THEN NULL ELSE par[t]
    IN  up

==============================================================================
