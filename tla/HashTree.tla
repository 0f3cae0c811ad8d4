------------------------------- MODULE HashTree -------------------------------
(***************************************************************************)
(* The trees of BlockTree as one node stores them: for one chain, nodes    *)
(* with the pointers left and right of a binary search tree over hashes,   *)
(* and child, sibling and parent of the family tree, both in the same      *)
(* nodes.  Trees are joined by inserting the nodes of one search tree into *)
(* the other, one by one.  Every step is one of BlockTree.                 *)
(*                                                                         *)
(* A hash stands for its node (a hash that got two nodes would show as a   *)
(* broken tree).  All blocks are mined by other nodes; what this node      *)
(* mines is added like a received child of the deepest block.  The list of *)
(* incomplete trees is a sequence.                                         *)
(***************************************************************************)
EXTENDS Integers, FiniteSets, SequencesExt

CONSTANTS
    Hashes,                     \* a set of positive numbers
    NO_ASKS_BEFORE_REMOVING

NULL == -1
Genesis == 0
BlockHash == {Genesis} \cup Hashes

ASSUME HashesAssumption == Hashes \subseteq Nat \ {0} /\ IsFiniteSet(Hashes)
ASSUME AsksAssumption   == NO_ASKS_BEFORE_REMOVING \in Nat

VARIABLES
    from,       \* from[h]: the parent named by the header of h (never changes)
    heap,       \* the nodes
    inchain,    \* the list of incomplete trees: root b, number of requests
    nb,         \* hashes whose node has its network_block set
    deepest     \* the deepest block of the chain

heapVars == <<from, heap, inchain, nb, deepest>>

Pointer == BlockHash \cup {NULL}
Block   == [left : Pointer, right : Pointer, child : Pointer, sibling : Pointer, parent : Pointer]
Fresh   == [left |-> NULL, right |-> NULL, child |-> NULL, sibling |-> NULL, parent |-> NULL]

\* State and types.
HeapTypeOK ==
    /\ from \in [Hashes -> BlockHash]
    /\ heap \in [BlockHash -> Block]
    /\ \A i \in 1 .. Len(inchain) :
          inchain[i] \in [b : BlockHash, no_asks : 0 .. NO_ASKS_BEFORE_REMOVING]
    /\ nb \subseteq BlockHash /\ deepest \in BlockHash

------------------------------------------------------------------------------
\* A walk never has more steps than there are nodes.
Size == Cardinality(BlockHash)

\* Where a loop that goes on from x to next[x] is after each of its rounds.
Walk(next, x) ==
    LET at[k \in 0 .. Size] == IF k = 0 THEN x ELSE next[at[k - 1]]
    IN  at

\* The rounds until a walk is at x.
RoundsTo(x, walk) ==
    CHOOSE k \in 0 .. Size : walk[k] = x /\ \A j \in 0 .. k - 1 : walk[j] # x

\* From a block to the parent its header names; genesis has none.
Up(f) == [h \in BlockHash |-> IF h = Genesis THEN Genesis ELSE f[h]]

Depth(h) ==
    LET depth[x \in BlockHash] == IF x = Genesis THEN 0 ELSE 1 + depth[from[x]]
    IN  depth[h]

\* All block trees on these hashes, whatever the order of the hashes.
BlockTrees == {f \in [Hashes -> BlockHash] : \A h \in Hashes : Walk(Up(f), h)[Size] = Genesis}

\* Blockchain::Blockchain, bootstrap_chain
HeapInit ==
    /\ from \in BlockTrees
    /\ heap = [h \in BlockHash |-> Fresh]
    /\ inchain = <<>> /\ nb = {Genesis} /\ deepest = Genesis

\* find_block_by_hash
Find(H, r, h) ==
    LET next == [y \in Pointer |-> IF y = NULL \/ y = h THEN y
                                   ELSE IF y > h THEN H[y].left ELSE H[y].right]
    IN  Walk(next, r)[Size]

\* insert_one_node, and the search of insert_block_only_by_hash: x is linked to
\* the last node on its way.
InsertOneNode(H, r, x) ==
    LET next == [y \in BlockHash |-> IF y > x /\ H[y].left # NULL THEN H[y].left
                                     ELSE IF y < x /\ H[y].right # NULL THEN H[y].right
                                     ELSE y]
        last == Walk(next, r)[Size]
    IN  IF last > x THEN [H EXCEPT ![last].left = x]
        ELSE IF last < x THEN [H EXCEPT ![last].right = x]
        ELSE H

\* The order insert_subtree_by_hash takes the nodes of a search tree in: the
\* node, what is left of it, what is right of it.
PreOrder(H, s) ==
    LET order[k \in 0 .. Size] ==
            [y \in Pointer |->
                IF k = 0 \/ y = NULL THEN <<>>
                ELSE <<y>> \o order[k - 1][H[y].left] \o order[k - 1][H[y].right]]
    IN  order[Size][s]

\* insert_subtree_by_hash
Unlinked(H, s) == [H EXCEPT ![s].left = NULL, ![s].right = NULL]
\* (Mutant: only the root of the subtree is inserted.)
InsertSubtreeRoot(H, r, s) == IF s = NULL THEN H ELSE InsertOneNode(Unlinked(H, s), r, s)
InsertSubtree(H, r, s) ==
    LET order == PreOrder(H, s)
        heap_at[k \in 0 .. Len(order)] ==
            IF k = 0 THEN H
            ELSE InsertOneNode(Unlinked(heap_at[k - 1], order[k]), r, order[k])
    IN  heap_at[Len(order)]

\* The child list of a node.
Children(H, p) ==
    LET nth == Walk([y \in Pointer |-> IF y = NULL THEN NULL ELSE H[y].sibling], H[p].child)
    IN  [k \in 1 .. RoundsTo(NULL, nth) |-> nth[k - 1]]

\* The end of add_block_by_parent_hash: x becomes the last child of p.
AppendChild(H, p, x) ==
    LET linked == [H EXCEPT ![x].parent = p]
    IN  IF H[p].child = NULL THEN [linked EXCEPT ![p].child = x]
        ELSE [linked EXCEPT ![Last(Children(H, p))].sibling = x]

\* add_block_by_parent_hash: a new node in both trees.
AddByParent(H, r, p, h) == AppendChild(InsertOneNode([H EXCEPT ![h] = Fresh], r, h), p, h)

\* The nodes below r (find_number_of_nodes, add_subtree_to_received_non_full).
Family(H, r) ==
    LET below[k \in 0 .. Size] ==
            [y \in BlockHash |->
                {y} \cup UNION {below[k - 1][c] : c \in IF k = 0 THEN {} ELSE ToSet(Children(H, y))}]
    IN  below[Size][r]

\* find_max_depth: the first deepest one in the order of the child lists.
\* (Mutant: a sibling of equal depth counts as deeper.)
LaterDeeper(c, mx) == Depth(c) >= Depth(mx)
Deeper(c, mx) == Depth(c) > Depth(mx)
\* The first deepest one of y and the blocks of a list.
FirstDeepest(y, list) ==
    LET mx[i \in 0 .. Len(list)] ==
            IF i = 0 THEN y
            ELSE LET old == mx[i - 1] IN IF Deeper(list[i], old) THEN list[i] ELSE old
    IN  mx[Len(list)]
MaxDepth(H, r) ==
    LET fm[k \in 0 .. Size] ==
            [y \in BlockHash |->
                LET c == IF k = 0 THEN <<>> ELSE Children(H, y)
                IN  FirstDeepest(y, [i \in 1 .. Len(c) |-> fm[k - 1][c[i]]])]
    IN  fm[Size][r]

------------------------------------------------------------------------------
IsKnown(h) == Find(heap, Genesis, h) # NULL

\* add_received_block, the parent is in the main tree.
AddToMain(h) ==
    LET p     == from[h]
        i     == SelectInSeq(inchain, LAMBDA t : t.b = h)
        grown == IF i = 0 THEN AddByParent(heap, Genesis, p, h)
                 ELSE AppendChild(InsertSubtree(heap, Genesis, h), p, h)
        deep  == MaxDepth(grown, h)
    IN  /\ ~IsKnown(h) /\ IsKnown(p)
        /\ heap' = grown
        /\ inchain' = IF i = 0 THEN inchain ELSE RemoveAt(inchain, i)
        /\ nb' = nb \cup {h}
        /\ deepest' = IF Deeper(deep, deepest) THEN deep ELSE deepest
        /\ UNCHANGED from

\* is_in_incomplete, and the places of h in the list (the first tree with it).
PlaceOf(h) == SelectInSeq(inchain, LAMBDA t : Find(heap, t.b, h) # NULL)
IsInIncomplete(h) == \E i \in 1 .. Len(inchain) :
    Find(heap, inchain[i].b, h) # NULL /\ heap[h].parent = from[h]

\* add_block_to_incomplete: neither, one or both of h and its parent are in
\* the incomplete trees.
AddToIncomplete(h) ==
    LET p  == from[h]
        ch == PlaceOf(h)
        ph == PlaceOf(p)
    IN  /\ ~IsKnown(h) /\ ~IsKnown(p) /\ ~IsInIncomplete(h)
        /\ CASE ch = 0 /\ ph = 0 ->
                  /\ heap' = AddByParent([heap EXCEPT ![p] = Fresh], p, p, h)
                  /\ inchain' = Append(inchain, [b |-> p, no_asks |-> 0])
             [] ch = 0 /\ ph # 0 ->
                  /\ heap' = AddByParent(heap, inchain[ph].b, p, h)
                  /\ UNCHANGED inchain
             [] ch # 0 /\ ph = 0 ->
                  LET b == inchain[ch].b
                      H == InsertSubtree([heap EXCEPT ![p] = Fresh], p, b)
                  IN  /\ heap' = [H EXCEPT ![p].child = b, ![b].parent = p]
                      /\ inchain' = [inchain EXCEPT ![ch] = [b |-> p, no_asks |-> 0]]
             [] ch # 0 /\ ph # 0 ->
                  LET b == inchain[ch].b
                  IN  /\ heap' = AppendChild(InsertSubtree(heap, inchain[ph].b, b), p, b)
                      /\ inchain' = RemoveAt(inchain, ch)
        /\ nb' = nb \cup {h}
        /\ UNCHANGED <<from, deepest>>

Stays(t) == t.no_asks <= NO_ASKS_BEFORE_REMOVING

\* get_incomplete_chain_hashes: the trees in due are asked for; a tree asked
\* for too often is dropped (its nodes are never freed).
AskForIncomplete(due) ==
    LET asked == [i \in 1 .. Len(inchain) |->
                    IF i \in due THEN [inchain[i] EXCEPT !.no_asks = @ + 1] ELSE inchain[i]]
        gone  == UNION {Family(heap, asked[i].b) : i \in {j \in due : ~Stays(asked[j])}}
        left[i \in 0 .. Len(inchain)] ==
            IF i = 0 THEN <<>>
            ELSE IF Stays(asked[i]) THEN Append(left[i - 1], asked[i]) ELSE left[i - 1]
    IN  /\ due # {} /\ inchain' = left[Len(inchain)]
        /\ heap' = [h \in BlockHash |-> IF h \in gone THEN Fresh ELSE heap[h]]
        /\ nb' = nb \ gone
        /\ UNCHANGED <<from, deepest>>

HeapNext ==
    \/ \E h \in Hashes : AddToMain(h) \/ AddToIncomplete(h)
    \/ \E due \in SUBSET (1 .. Len(inchain)) : AskForIncomplete(due)

HeapSpec == HeapInit /\ [][HeapNext]_heapVars

------------------------------------------------------------------------------
Roots == {Genesis} \cup {inchain[i].b : i \in 1 .. Len(inchain)}

\* The two trees in the same nodes agree, for every tree: what a search finds
\* from the root is what hangs below it in the family tree, no more and no
\* less, after any sequence of insertions and of moves of whole trees.
SearchFindsFamily ==
    \A r \in Roots : {h \in BlockHash : Find(heap, r, h) = h} = Family(heap, r)

\* The child lists hold every node below its parent once and nothing else: a
\* list that lost its tail or shared one would hide blocks from find_max_depth
\* and from the requests for bodies, or show them twice.
ChildListsExact ==
    \A r \in Roots :
        LET family == Family(heap, r)
        IN  \A p \in family :
                LET list == Children(heap, p)
                IN  /\ ToSet(list) = {h \in family : heap[h].parent = p}
                    /\ IsInjective(list)

\* Search trees, child lists and types together: insert_subtree_by_hash and
\* add_block_by_parent_hash never leave the two trees in the nodes of a chain
\* in disagreement.
PointersAgree == HeapTypeOK /\ SearchFindsFamily /\ ChildListsExact

\* Every step on the pointers is a step of BlockTree on sets and parents.
Trees == {[b |-> inchain[i].b, nodes |-> Family(heap, inchain[i].b),
           no_asks |-> inchain[i].no_asks] : i \in 1 .. Len(inchain)}
Abstract == INSTANCE BlockTree WITH
    Nodes    <- {1},
    CHAINS   <- 1,
    hdr      <- [h \in BlockHash |->
                    [chain_id |-> 0, parent |-> IF h = Genesis THEN NULL ELSE from[h],
                     trailing |-> NULL, trailing_id |-> 0, depth |-> Depth(h),
                     rank |-> 0, next_rank |-> 0]],
    chains   <- [n \in {1} |-> Family(heap, Genesis)],
    inchains <- [n \in {1} |-> Trees],
    parent   <- [n \in {1} |-> [h \in BlockHash |-> heap[h].parent]],
    nb       <- [n \in {1} |-> nb],
    deepest  <- [n \in {1} |-> [c \in {0} |-> deepest]]
ImplementsBlockTree ==
    [][\/ \E h \in Hashes : nb' = nb \cup {h} /\ Abstract!AddReceivedBlock(1, h)
       \/ \E due \in SUBSET Trees : Abstract!AskForIncomplete(1, due)]_heapVars
=============================================================================
