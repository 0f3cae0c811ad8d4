--------------------------- MODULE BlockTreeProofs ---------------------------
(***************************************************************************)
(* Proofs about BlockTree and Bodies for every number of nodes, chains and *)
(* blocks.                                                                 *)
(***************************************************************************)
EXTENDS Bodies, TLAPS

\* The constructor of Blockchain establishes the invariant.
LEMMA InitInv == Init => TreeInv
<1> SUFFICES ASSUME Init PROVE TreeInv
  OBVIOUS
<1> USE ChainsAssumption, HashAssumption, NullAssumption, AsksAssumption
<1>1. TypeOK
  BY DEF Init, TypeOK, Genesis, Header, BlockHash, Tree, Chain
<1>2. RankOrder /\ Shape
  BY DEF Init, RankOrder, Shape, Genesis, BlockHash, InTrees
<1>3. OneHome /\ WellLinked /\ NbSet
  BY DEF Init, OneHome, WellLinked, NbSet, InTrees, Roots, BlockHash
<1>4. DeepestIsDeepest
  BY DEF Init, DeepestIsDeepest, Genesis, Chain
<1> QED
  BY <1>1, <1>2, <1>3, <1>4 DEF TreeInv

\* The header mine_new_block builds is well formed and ordered after its
\* parent and its trailing block.
LEMMA MinedHeaderOK ==
  ASSUME TreeInv, NEW n \in Nodes, NEW c \in Chain, NEW t \in Chain,
         IsTrailing(n, t)
  PROVE  LET b == MinedHeader(n, c, t) IN
         /\ b \in Header
         /\ b.chain_id = c /\ b.parent = deepest[n][c]
         /\ b.trailing = deepest[n][t] /\ b.trailing_id = t
         /\ b.depth = hdr[b.parent].depth + 1
         /\ hdr[b.parent].next_rank = b.rank /\ b.rank < b.next_rank
         /\ hdr[b.trailing].next_rank <= b.next_rank
<1>1. deepest[n][c] \in DOMAIN hdr /\ deepest[n][t] \in DOMAIN hdr
  BY DEF TreeInv, DeepestIsDeepest, Shape
<1>2. hdr[deepest[n][c]] \in Header /\ hdr[deepest[n][t]] \in Header
  BY <1>1 DEF TreeInv, TypeOK
<1>3. deepest[n][c] \in BlockHash /\ deepest[n][t] \in BlockHash
  BY DEF TreeInv, TypeOK
<1> QED
  BY <1>2, <1>3 DEF MinedHeader, NextRank, RaisedRank, Header

\* Mining keeps the invariant.
LEMMA MineNewBlockInv ==
  ASSUME TreeInv, NEW n \in Nodes, NEW h, NEW c, MineNewBlock(n, h, c)
  PROVE  TreeInv'
<1> USE ChainsAssumption, HashAssumption, NullAssumption
<1> DEFINE p == deepest[n][c]
<1>1. PICK t \in Chain : /\ IsTrailing(n, t)
                         /\ hdr' = [x \in DOMAIN hdr \cup {h} |->
                              IF x = h THEN MinedHeader(n, c, t) ELSE hdr[x]]
  BY DEF MineNewBlock
<1>2. /\ h \in Hashes \ DOMAIN hdr /\ h \in BlockHash /\ h \notin Chain
      /\ c \in Chain
      /\ chains'  = [chains EXCEPT ![n] = @ \cup {h}]
      /\ parent'  = [parent EXCEPT ![n][h] = p]
      /\ nb'      = [nb EXCEPT ![n] = @ \cup {h}]
      /\ deepest' = [deepest EXCEPT ![n][c] = h]
      /\ inchains' = inchains
  BY DEF MineNewBlock, BlockHash
<1>3. /\ p \in BlockHash /\ p \in DOMAIN hdr /\ p \in chains[n] /\ p # h
      /\ hdr[p].chain_id = c
      /\ deepest[n][t] \in DOMAIN hdr /\ hdr[deepest[n][t]].chain_id = t
  BY <1>2 DEF TreeInv, TypeOK, DeepestIsDeepest, Shape
<1> DEFINE b == MinedHeader(n, c, t)
<1>4. /\ b \in Header
      /\ b.chain_id = c /\ b.parent = p
      /\ b.trailing = deepest[n][t] /\ b.trailing_id = t
      /\ b.depth = hdr[p].depth + 1
      /\ hdr[p].next_rank = b.rank /\ b.rank < b.next_rank
      /\ hdr[b.trailing].next_rank <= b.next_rank
  BY <1>1, <1>2, MinedHeaderOK
<1>5. /\ DOMAIN hdr' = DOMAIN hdr \cup {h} /\ hdr'[h] = b
      /\ \A x \in DOMAIN hdr : hdr'[x] = hdr[x]
  BY <1>1, <1>2
<1> HIDE DEF b
<1>6. TypeOK'
  <2>1. hdr' \in [DOMAIN hdr' -> Header]
    BY <1>1, <1>4, <1>5 DEF TreeInv, TypeOK, b
  <2> QED
    BY <1>2, <1>3, <1>5, <2>1 DEF TreeInv, TypeOK
<1>7. RankOrder'
  BY <1>2, <1>3, <1>4, <1>5 DEF TreeInv, TypeOK, RankOrder
<1>8. /\ \A m \in Nodes : chains[m] \subseteq DOMAIN hdr /\ h \notin chains[m]
      /\ \A m \in Nodes : \A u \in inchains[m] : h \notin u.nodes /\ u.nodes \subseteq DOMAIN hdr
      /\ \A m \in Nodes : chains'[m] = IF m = n THEN chains[n] \cup {h} ELSE chains[m]
      /\ \A m \in Nodes, x \in BlockHash :
           parent'[m][x] = IF m = n /\ x = h THEN p ELSE parent[m][x]
      /\ \A m \in Nodes : InTrees(m)' = InTrees(m) /\ Roots(m)' = Roots(m)
  BY <1>2 DEF TreeInv, Shape, TypeOK, InTrees, Roots
<1>9. OneHome'
  BY <1>2, <1>8 DEF TreeInv, OneHome
<1>10. Shape'
  <2>1. \A x \in Chain : hdr'[x] = Genesis(x)
    BY <1>5 DEF TreeInv, Shape, TypeOK
  <2>2. ASSUME NEW m \in Nodes, NEW u \in inchains'[m], NEW x \in u.nodes
        PROVE  /\ x \in DOMAIN hdr'
               /\ hdr'[x].chain_id = hdr'[u.b].chain_id
               /\ x # u.b => hdr'[u.b].depth < hdr'[x].depth
    BY <1>2, <1>5, <1>8 DEF TreeInv, Shape, OneHome
  <2>3. ASSUME NEW m \in Nodes
        PROVE  /\ Chain \subseteq chains'[m] /\ chains'[m] \subseteq DOMAIN hdr'
               /\ \A x \in BlockHash \ (chains'[m] \cup InTrees(m)') : parent'[m][x] = NULL
    BY <1>2, <1>5, <1>8 DEF TreeInv, Shape
  <2> QED
    BY <2>1, <2>2, <2>3, <1>2 DEF Shape, Genesis
<1>11. WellLinked'
  BY <1>2, <1>3, <1>4, <1>5, <1>8 DEF TreeInv, WellLinked, OneHome, TypeOK, Roots, Tree
<1>12. NbSet'
  BY <1>2, <1>8 DEF TreeInv, NbSet, TypeOK
<1>13. DeepestIsDeepest'
  <2> SUFFICES ASSUME NEW m \in Nodes, NEW e \in Chain
               PROVE  /\ deepest'[m][e] \in chains'[m]
                      /\ hdr'[deepest'[m][e]].chain_id = e
                      /\ \A x \in chains'[m] : hdr'[x].chain_id = e =>
                           hdr'[x].depth <= hdr'[deepest'[m][e]].depth
    BY DEF DeepestIsDeepest
  <2>1. deepest'[m][e] = IF m = n /\ e = c THEN h ELSE deepest[m][e]
    BY <1>2 DEF TreeInv, TypeOK
  <2>2. \A x \in DOMAIN hdr : hdr[x].depth \in Nat
    BY DEF TreeInv, TypeOK, Header
  <2>3. /\ deepest[m][e] \in chains[m] /\ hdr[deepest[m][e]].chain_id = e
        /\ \A x \in chains[m] : hdr[x].chain_id = e =>
             hdr[x].depth <= hdr[deepest[m][e]].depth
    BY DEF TreeInv, DeepestIsDeepest
  <2>4. CASE m = n /\ e = c
    BY <2>1, <2>2, <2>3, <2>4, <1>3, <1>4, <1>5, <1>8
  <2>5. CASE ~(m = n /\ e = c)
    BY <2>1, <2>2, <2>3, <2>5, <1>3, <1>4, <1>5, <1>8
  <2> QED
    BY <2>4, <2>5
<1> QED
  BY <1>6, <1>7, <1>9, <1>10, <1>11, <1>12, <1>13 DEF TreeInv

\* What is known of a header that arrives: its parent is a mined block of the
\* same chain, one less deep.
LEMMA ArrivesFacts ==
  ASSUME TreeInv, NEW n \in Nodes, NEW h, Arrives(n, h)
  PROVE  LET p == hdr[h].parent IN
         /\ h \in BlockHash /\ h \notin Chain /\ h \in DOMAIN hdr /\ h \notin chains[n]
         /\ p \in BlockHash /\ p \in DOMAIN hdr /\ p # h /\ p # NULL
         /\ hdr[p].chain_id = hdr[h].chain_id /\ hdr[h].chain_id \in Chain
         /\ \A x \in DOMAIN hdr : hdr[x].depth \in Nat
         /\ hdr[h].depth = hdr[p].depth + 1
<1> USE NullAssumption
<1>1. h \in BlockHash /\ h \notin Chain /\ h \in DOMAIN hdr /\ h \notin chains[n]
  BY DEF Arrives, TreeInv, TypeOK
<1>2. \A x \in DOMAIN hdr : hdr[x] \in Header
  BY DEF TreeInv, TypeOK
<1>3. \A x \in DOMAIN hdr : hdr[x].depth \in Nat /\ hdr[x].chain_id \in Chain
  BY <1>2 DEF Header
<1>4. /\ hdr[h].parent \in DOMAIN hdr
      /\ hdr[hdr[h].parent].chain_id = hdr[h].chain_id
      /\ hdr[h].depth = hdr[hdr[h].parent].depth + 1
  BY <1>1 DEF TreeInv, RankOrder
<1>5. hdr[h].parent \in BlockHash
  BY <1>4 DEF TreeInv, TypeOK
<1> QED
  BY <1>1, <1>3, <1>4, <1>5

\* A header that is not linked yet can only be the missing root of the tree
\* that holds it, and that tree does not hold its parent.
LEMMA OnlyRootsArrive ==
  ASSUME TreeInv, NEW n \in Nodes, NEW h, Arrives(n, h), ~IsInIncomplete(n, h),
         NEW t \in inchains[n], h \in t.nodes
  PROVE  t.b = h /\ hdr[h].parent \notin t.nodes
<1>1. t.b = h
  BY DEF TreeInv, WellLinked, IsInIncomplete
<1>2. ASSUME hdr[h].parent \in t.nodes PROVE FALSE
  <2>1. hdr[h].depth < hdr[hdr[h].parent].depth
    BY <1>1, <1>2, ArrivesFacts DEF TreeInv, Shape
  <2> QED
    BY <2>1, ArrivesFacts
<1> QED
  BY <1>1, <1>2

\* Attaching a header, with the tree below it, to the main tree.
LEMMA AddToMainInv ==
  ASSUME TreeInv, NEW n \in Nodes, NEW h, AddToMain(n, h)
  PROVE  TreeInv'
<1> USE ChainsAssumption, HashAssumption, NullAssumption
<1> DEFINE p     == hdr[h].parent
           c     == hdr[h].chain_id
           bi    == RootedAt(n, h)
           moved == {h} \cup UNION {t.nodes : t \in bi}
<1>1. Arrives(n, h) /\ p \in chains[n]
  BY DEF AddToMain
<1>2. /\ h \in BlockHash /\ h \notin Chain /\ h \in DOMAIN hdr /\ h \notin chains[n]
      /\ p \in BlockHash /\ p \in DOMAIN hdr /\ p # h /\ p # NULL
      /\ hdr[p].chain_id = c /\ c \in Chain
      /\ \A x \in DOMAIN hdr : hdr[x].depth \in Nat
  BY <1>1, ArrivesFacts
<1>3. /\ chains'   = [chains EXCEPT ![n] = @ \cup moved]
      /\ inchains' = [inchains EXCEPT ![n] = @ \ bi]
      /\ parent'   = [parent EXCEPT ![n][h] = p]
      /\ nb'       = [nb EXCEPT ![n] = @ \cup {h}]
      /\ hdr' = hdr
  BY DEF AddToMain
<1>4. PICK d \in moved :
        /\ IsMaxDepth(d, moved)
        /\ deepest' = [deepest EXCEPT ![n][c] = IF Deeper(d, @) THEN d ELSE @]
  BY DEF AddToMain
<1>5. /\ \A t \in bi : t \in inchains[n] /\ t.b = h /\ t \in Tree
      /\ \A t \in inchains[n] : t \in Tree /\ (t.b = h <=> t \in bi)
      /\ \A t \in inchains[n] : h \in t.nodes => t \in bi
  <2>1. \A t \in inchains[n] : t \in Tree
    BY DEF TreeInv, TypeOK
  <2>2. ASSUME NEW t \in inchains[n], h \in t.nodes PROVE t.b = h
    BY <1>1, <2>2 DEF TreeInv, WellLinked, OneHome
  <2> QED
    BY <2>1, <2>2 DEF RootedAt
<1>6. \A x : x \in moved <=> (x = h \/ \E t \in bi : x \in t.nodes)
  OBVIOUS
<1>7. \A x \in moved : /\ x \in BlockHash /\ x \in DOMAIN hdr /\ hdr[x].chain_id = c
                       /\ x \notin chains[n] /\ x \notin Chain
                       /\ x # h => parent[n][x] = hdr[x].parent /\ parent[n][x] \in moved
  BY <1>2, <1>5, <1>6 DEF TreeInv, TypeOK, Shape, OneHome, WellLinked
<1> HIDE DEF moved, bi
<1>8. /\ \A m \in Nodes : chains'[m] = IF m = n THEN chains[n] \cup moved ELSE chains[m]
      /\ \A m \in Nodes : inchains'[m] = IF m = n THEN inchains[n] \ bi ELSE inchains[m]
      /\ \A m \in Nodes, x \in BlockHash :
           parent'[m][x] = IF m = n /\ x = h THEN p ELSE parent[m][x]
      /\ \A m \in Nodes : nb'[m] = IF m = n THEN nb[n] \cup {h} ELSE nb[m]
      /\ \A m \in Nodes, e \in Chain : deepest'[m][e] =
           IF m = n /\ e = c /\ Deeper(d, deepest[n][c]) THEN d ELSE deepest[m][e]
  BY <1>2, <1>3, <1>4 DEF TreeInv, TypeOK
<1>9. \A t \in inchains[n] \ bi : t.nodes \cap moved = {}
  BY <1>5, <1>6 DEF TreeInv, OneHome
<1>10. TypeOK'
  BY <1>2, <1>3, <1>4, <1>7 DEF TreeInv, TypeOK
<1>11. RankOrder'
  BY <1>3 DEF TreeInv, RankOrder
<1>12. OneHome'
  BY <1>8, <1>9 DEF TreeInv, OneHome
<1>13. \A x : x \in InTrees(n) <=> (x \in InTrees(n)' \/ \E t \in bi : x \in t.nodes)
  BY <1>5, <1>8 DEF InTrees
<1>14. \A m \in Nodes : m # n => InTrees(m)' = InTrees(m) /\ Roots(m)' = Roots(m)
  BY <1>8 DEF InTrees, Roots
<1>15. Shape'
  <2>1. \A m \in Nodes : /\ Chain \subseteq chains'[m] /\ chains'[m] \subseteq DOMAIN hdr
                         /\ inchains'[m] \subseteq inchains[m]
    BY <1>7, <1>8 DEF TreeInv, Shape
  <2>2. ASSUME NEW m \in Nodes, NEW x \in BlockHash \ (chains'[m] \cup InTrees(m)')
        PROVE  parent'[m][x] = NULL
    BY <1>6, <1>8, <1>13, <1>14 DEF TreeInv, Shape
  <2> QED
    BY <2>1, <2>2, <1>3 DEF TreeInv, Shape, Genesis
<1>16. WellLinked'
  <2>1. ASSUME NEW m \in Nodes, NEW x \in chains'[m] \ Chain
        PROVE  parent'[m][x] = hdr'[x].parent /\ parent'[m][x] \in chains'[m]
    BY <1>1, <1>2, <1>3, <1>7, <1>8 DEF TreeInv, WellLinked, TypeOK
  <2>2. ASSUME NEW m \in Nodes, NEW t \in inchains'[m], NEW x \in t.nodes \ {t.b}
        PROVE  parent'[m][x] = hdr'[x].parent /\ parent'[m][x] \in t.nodes
    BY <1>3, <1>6, <1>8, <1>9 DEF TreeInv, WellLinked, TypeOK, Tree
  <2>3. ASSUME NEW m \in Nodes, NEW x \in Chain \cup Roots(m)'
        PROVE  parent'[m][x] = NULL
    <3>1. x \in BlockHash /\ x \in Chain \cup Roots(m)
      BY <1>8 DEF Roots, TreeInv, TypeOK, Tree, BlockHash
    <3>2. ~(m = n /\ x = h)
      BY <1>2, <1>5, <1>8 DEF Roots
    <3> QED
      BY <3>1, <3>2, <1>8 DEF TreeInv, WellLinked
  <2> QED
    BY <2>1, <2>2, <2>3 DEF WellLinked
<1>17. NbSet'
  <2>1. nb'[n] = chains'[n] \cup (InTrees(n)' \ Roots(n)')
    <3>1. \A x : x \in Roots(n) <=> (x \in Roots(n)' \/ (x = h /\ bi # {}))
      BY <1>5, <1>8 DEF Roots
    <3>2. h \notin InTrees(n)'
      BY <1>6, <1>8, <1>9 DEF InTrees
    <3>3. \A x \in moved : x \notin InTrees(n)' /\ (x # h => x \in InTrees(n) /\ x \notin Roots(n)')
      BY <1>5, <1>6, <1>8, <1>9 DEF InTrees, Roots, TreeInv, OneHome
    <3> QED
      BY <1>6, <1>8, <1>13, <3>1, <3>2, <3>3 DEF TreeInv, NbSet
  <2> QED
    BY <2>1, <1>8, <1>14 DEF TreeInv, NbSet
<1>18. DeepestIsDeepest'
  <2> SUFFICES ASSUME NEW m \in Nodes, NEW e \in Chain
               PROVE  /\ deepest'[m][e] \in chains'[m]
                      /\ hdr[deepest'[m][e]].chain_id = e
                      /\ \A x \in chains'[m] : hdr[x].chain_id = e =>
                           hdr[x].depth <= hdr[deepest'[m][e]].depth
    BY <1>3 DEF DeepestIsDeepest
  <2>1. /\ deepest[m][e] \in chains[m] /\ hdr[deepest[m][e]].chain_id = e
        /\ \A x \in chains[m] : hdr[x].chain_id = e =>
             hdr[x].depth <= hdr[deepest[m][e]].depth
        /\ chains[m] \subseteq DOMAIN hdr
    BY DEF TreeInv, DeepestIsDeepest, Shape
  <2>2. \A x \in moved : hdr[x].depth <= hdr[d].depth
    BY <1>4 DEF IsMaxDepth
  <2> QED
    BY <2>1, <2>2, <1>2, <1>7, <1>8 DEF Deeper
<1> QED
  BY <1>10, <1>11, <1>12, <1>15, <1>16, <1>17, <1>18 DEF TreeInv

\* The four cases of add_block_to_incomplete in one: the trees old that hold h
\* or its parent are merged into one tree new of all their nodes, h hanging
\* below its parent, rooted where the parent's tree is rooted, or at the parent.
Merges(n, h, old, new) ==
    LET p == hdr[h].parent IN
    /\ old \subseteq inchains[n]
    /\ \A t \in inchains[n] : t \in old <=> (h \in t.nodes \/ p \in t.nodes)
    /\ new \in Tree
    /\ \A x : x \in new.nodes <=> (x = h \/ x = p \/ \E t \in old : x \in t.nodes)
    /\ \/ new.b = p /\ \A t \in old : t.b = h
       \/ \E t \in old : p \in t.nodes /\ new.b = t.b
    /\ parent' = [parent EXCEPT ![n][h] = p]

\* Such a merge keeps the invariant.
LEMMA AddToIncompleteInv ==
  ASSUME TreeInv, NEW n \in Nodes, NEW h, NEW old, NEW new,
         AddToIncomplete(n, h, old, new), Merges(n, h, old, new)
  PROVE  TreeInv'
<1> USE ChainsAssumption, HashAssumption, NullAssumption
<1> DEFINE p == hdr[h].parent
           r == new.b
<1>0. /\ old \subseteq inchains[n]
      /\ \A t \in inchains[n] : t \in old <=> (h \in t.nodes \/ p \in t.nodes)
      /\ new \in Tree
      /\ \A x : x \in new.nodes <=> (x = h \/ x = p \/ \E t \in old : x \in t.nodes)
      /\ \/ r = p /\ \A t \in old : t.b = h
         \/ \E t \in old : p \in t.nodes /\ r = t.b
      /\ parent' = [parent EXCEPT ![n][h] = p]
  BY DEF Merges
<1> USE <1>0
<1>1. /\ Arrives(n, h) /\ p \notin chains[n] /\ ~IsInIncomplete(n, h)
      /\ inchains' = [inchains EXCEPT ![n] = (@ \ old) \cup {new}]
      /\ nb'       = [nb EXCEPT ![n] = @ \cup {h}]
      /\ hdr' = hdr /\ chains' = chains /\ deepest' = deepest
  BY DEF AddToIncomplete
<1>2. /\ h \in BlockHash /\ h \notin Chain /\ h \in DOMAIN hdr /\ h \notin chains[n]
      /\ p \in BlockHash /\ p \in DOMAIN hdr /\ p # h /\ p # NULL
      /\ hdr[p].chain_id = hdr[h].chain_id
      /\ \A x \in DOMAIN hdr : hdr[x].depth \in Nat
      /\ hdr[h].depth = hdr[p].depth + 1
  BY <1>1, ArrivesFacts
<1>3. \A t \in old : h \in t.nodes => t.b = h /\ p \notin t.nodes
  BY <1>1, OnlyRootsArrive
<1>4. /\ \A m \in Nodes : inchains'[m] =
           IF m = n THEN (inchains[n] \ old) \cup {new} ELSE inchains[m]
      /\ \A m \in Nodes, x \in BlockHash :
           parent'[m][x] = IF m = n /\ x = h THEN p ELSE parent[m][x]
      /\ \A m \in Nodes : nb'[m] = IF m = n THEN nb[n] \cup {h} ELSE nb[m]
  BY <1>1, <1>2 DEF TreeInv, TypeOK
<1>5. /\ \A t \in old : h \in t.nodes \/ p \in t.nodes
      /\ \A t, u \in old : p \in t.nodes /\ p \in u.nodes => t = u
      /\ \A t \in old : t.b \in t.nodes /\ t.nodes \cap chains[n] = {}
  BY DEF TreeInv, OneHome
<1>6. /\ r \in new.nodes /\ r # h /\ new.nodes \cap chains[n] = {}
      /\ \A t \in inchains[n] \ old : t.nodes \cap new.nodes = {}
  BY <1>1, <1>2, <1>3, <1>5 DEF TreeInv, OneHome
<1>7. \A t \in old : \A x \in t.nodes :
        /\ x \in DOMAIN hdr
        /\ hdr[x].chain_id = hdr[t.b].chain_id
        /\ x # t.b => hdr[t.b].depth < hdr[x].depth
  BY DEF TreeInv, Shape
<1>8. hdr[r].depth <= hdr[p].depth /\ hdr[r].chain_id = hdr[h].chain_id /\ r \in DOMAIN hdr
      /\ (p # r => hdr[r].depth < hdr[p].depth)
  <2>1. CASE r = p
    BY <2>1, <1>2
  <2>2. CASE \E t \in old : p \in t.nodes /\ r = t.b
    BY <2>2, <1>2, <1>5, <1>7
  <2> QED
    BY <2>1, <2>2
<1>9. ASSUME NEW x \in new.nodes
      PROVE  /\ x \in DOMAIN hdr
             /\ hdr[x].chain_id = hdr[r].chain_id
             /\ x # r => hdr[r].depth < hdr[x].depth
  <2>1. CASE x = h \/ x = p
    BY <2>1, <1>2, <1>8
  <2>2. CASE \E t \in old : x \in t.nodes
    <3>1. PICK t \in old : x \in t.nodes
      BY <2>2
    <3>2. CASE h \in t.nodes
      BY <3>1, <3>2, <1>2, <1>3, <1>7, <1>8
    <3>3. CASE p \in t.nodes /\ r = t.b
      BY <3>1, <3>3, <1>2, <1>7, <1>8
    <3>4. CASE p \in t.nodes /\ r = p /\ \A u \in old : u.b = h
      BY <3>1, <3>4, <1>3, <1>5
    <3>5. (h \in t.nodes) \/ (p \in t.nodes /\ r = t.b)
          \/ (p \in t.nodes /\ r = p /\ \A u \in old : u.b = h)
      BY <3>1, <1>5
    <3> QED
      BY <3>2, <3>3, <3>4, <3>5
  <2> QED
    BY <2>1, <2>2
<1>10. TypeOK'
  BY <1>1, <1>2 DEF TreeInv, TypeOK
<1>11. RankOrder' /\ DeepestIsDeepest'
  BY <1>1 DEF TreeInv, RankOrder, DeepestIsDeepest
<1>12. OneHome'
  BY <1>1, <1>4, <1>6 DEF TreeInv, OneHome
<1>13. \A x : x \in InTrees(n)' <=> (x \in InTrees(n) \/ x = h \/ x = p)
  <2>1. \A x : x \in InTrees(n)' <=> \E t \in inchains'[n] : x \in t.nodes
    BY DEF InTrees
  <2>2. \A x : x \in InTrees(n) <=> \E t \in inchains[n] : x \in t.nodes
    BY DEF InTrees
  <2> QED
    BY <2>1, <2>2, <1>4
<1>14. \A x : x \in Roots(n)' <=> (x = r \/ \E t \in inchains[n] \ old : x = t.b)
  BY <1>4 DEF Roots
<1>15. \A m \in Nodes : m # n => InTrees(m)' = InTrees(m) /\ Roots(m)' = Roots(m)
  BY <1>4 DEF InTrees, Roots
<1>16. Shape'
  <2>1. ASSUME NEW m \in Nodes, NEW t \in inchains'[m], NEW x \in t.nodes
        PROVE  /\ x \in DOMAIN hdr
               /\ hdr[x].chain_id = hdr[t.b].chain_id
               /\ x # t.b => hdr[t.b].depth < hdr[x].depth
    BY <1>4, <1>9 DEF TreeInv, Shape
  <2>2. ASSUME NEW m \in Nodes, NEW x \in BlockHash \ (chains[m] \cup InTrees(m)')
        PROVE  parent'[m][x] = NULL
    BY <1>4, <1>13, <1>15 DEF TreeInv, Shape
  <2> QED
    BY <2>1, <2>2, <1>1 DEF TreeInv, Shape, Genesis
<1>17. WellLinked'
  <2>1. ASSUME NEW m \in Nodes, NEW x \in chains[m] \ Chain
        PROVE  parent'[m][x] = hdr[x].parent /\ parent'[m][x] \in chains[m]
    BY <1>2, <1>4 DEF TreeInv, WellLinked, TypeOK
  <2>2. ASSUME NEW m \in Nodes, NEW t \in inchains'[m], NEW x \in t.nodes \ {t.b}
        PROVE  parent'[m][x] = hdr[x].parent /\ parent'[m][x] \in t.nodes
    <3>1. CASE ~(m = n /\ t = new)
      <4>1. t \in inchains[m] /\ (m = n => t \notin old)
        BY <3>1, <1>4
      <4>2. x \in BlockHash
        BY <4>1 DEF TreeInv, TypeOK, Tree
      <4> QED
        BY <4>1, <4>2, <1>4 DEF TreeInv, WellLinked
    <3>2. CASE m = n /\ t = new
      <4>1. CASE x = h
        BY <4>1, <3>2, <1>2, <1>4
      <4>2. CASE x # h
        <5>1. x \in BlockHash /\ parent'[m][x] = parent[n][x]
          BY <3>2, <4>2, <1>4 DEF Tree
        <5>2. PICK u \in old : x \in u.nodes /\ x # u.b
          BY <3>2, <4>2, <1>3, <1>5
        <5>3. parent[n][x] = hdr[x].parent /\ parent[n][x] \in u.nodes
          BY <5>2 DEF TreeInv, WellLinked
        <5> QED
          BY <5>1, <5>2, <5>3, <3>2
      <4> QED
        BY <4>1, <4>2
    <3> QED
      BY <3>1, <3>2
  <2>3. ASSUME NEW m \in Nodes, NEW x \in Chain \cup Roots(m)'
        PROVE  parent'[m][x] = NULL
    <3>1. x \in BlockHash
      <4>1. \A t \in inchains'[m] : t.b \in BlockHash
        BY <1>4 DEF TreeInv, TypeOK, Tree
      <4> QED
        BY <4>1 DEF Roots, BlockHash
    <3>2. CASE m # n \/ x \in Chain
      BY <3>1, <3>2, <1>2, <1>4, <1>15 DEF TreeInv, WellLinked
    <3>3. CASE m = n /\ \E t \in inchains[n] \ old : x = t.b
      <4>1. x \in Roots(n) /\ x # h
        BY <3>3 DEF Roots, TreeInv, OneHome
      <4> QED
        BY <4>1, <3>1, <3>3, <1>4 DEF TreeInv, WellLinked
    <3>4. CASE m = n /\ x = r
      <4>1. parent'[m][x] = parent[n][r]
        BY <3>1, <3>4, <1>4, <1>6
      <4>2. CASE \E t \in old : r = t.b
        BY <4>1, <4>2 DEF TreeInv, WellLinked, Roots
      <4>3. CASE r = p /\ \A t \in old : t.b = h
        <5>1. p \notin InTrees(n)
          BY <4>3, <1>3, <1>5 DEF InTrees
        <5> QED
          BY <4>1, <4>3, <5>1, <1>1, <1>2 DEF TreeInv, Shape
      <4> QED
        BY <4>2, <4>3
    <3> QED
      BY <3>2, <3>3, <3>4, <1>14
  <2> QED
    BY <2>1, <2>2, <2>3, <1>1 DEF WellLinked
<1>18. NbSet'
  <2>1. ASSUME NEW x
        PROVE  x \in nb'[n] <=> x \in chains[n] \cup (InTrees(n)' \ Roots(n)')
    <3>1. x \in nb[n] <=> x \in chains[n] \cup (InTrees(n) \ Roots(n))
      BY DEF TreeInv, NbSet
    <3>2. x \in Roots(n) <=> \E t \in inchains[n] : x = t.b
      BY DEF Roots
    <3>3. x \in InTrees(n) <=> \E t \in inchains[n] : x \in t.nodes
      BY DEF InTrees
    <3>4. \A t \in inchains[n] : t.b \in t.nodes
      BY DEF TreeInv, OneHome
    <3>5. \A t \in old : t.b = h \/ t.b = r
      BY <1>3, <1>5
    <3>6. h \notin Roots(n)'
      BY <1>6, <1>14, <3>4
    <3>7. CASE x = h
      BY <3>6, <3>7, <1>4, <1>13
    <3>8. CASE x = r
      <4>1. x \notin chains[n] /\ x \in Roots(n)' /\ x # h
        BY <3>8, <1>6, <1>14
      <4>2. x \notin InTrees(n) \/ x \in Roots(n)
        BY <3>2, <3>3, <3>8, <1>3, <1>5
      <4> QED
        BY <4>1, <4>2, <3>1, <1>4
    <3>9. CASE x # h /\ x # r
      <4>1. x \in Roots(n)' <=> x \in Roots(n)
        BY <3>2, <3>5, <3>9, <1>14
      <4>2. CASE x = p
        <5>1. x \in InTrees(n)
          BY <3>3, <3>9, <4>2
        <5> QED
          BY <5>1, <4>1, <3>1, <3>9, <1>4, <1>13
      <4>3. CASE x # p
        BY <4>1, <4>3, <3>1, <3>9, <1>4, <1>13
      <4> QED
        BY <4>2, <4>3
    <3> QED
      BY <3>7, <3>8, <3>9
  <2> QED
    BY <2>1, <1>1, <1>4, <1>15 DEF TreeInv, NbSet, TypeOK
<1> QED
  BY <1>10, <1>11, <1>12, <1>16, <1>17, <1>18 DEF TreeInv

\* Each case of add_block_to_incomplete is an instance of AddToIncompleteInv.
LEMMA IncompleteCasesInv ==
  ASSUME TreeInv, NEW n \in Nodes, NEW h,
         NewTree(n, h) \/ GrowTree(n, h) \/ RaiseRoot(n, h) \/ JoinTrees(n, h)
  PROVE  TreeInv'
<1> USE AsksAssumption
<1> DEFINE p == hdr[h].parent
<1>1. Arrives(n, h) /\ p \notin chains[n] /\ ~IsInIncomplete(n, h)
  BY DEF NewTree, GrowTree, RaiseRoot, JoinTrees, AddToIncomplete
<1>2. h \in BlockHash /\ p \in BlockHash /\ p # h
  BY <1>1, ArrivesFacts
<1>3. /\ \A t \in inchains[n] : t \in Tree
      /\ \A t, u \in inchains[n] : t # u => t.nodes \cap u.nodes = {}
      /\ \A t \in inchains[n] : h \in t.nodes => t.b = h /\ p \notin t.nodes
  BY <1>1, OnlyRootsArrive DEF TreeInv, TypeOK, OneHome
<1>4. CASE NewTree(n, h)
  <2> DEFINE new == [b |-> p, nodes |-> {p, h}, no_asks |-> 0]
  <2>1. AddToIncomplete(n, h, {}, new) /\ parent' = [parent EXCEPT ![n][h] = p]
    BY <1>4 DEF NewTree
  <2>2. \A t \in inchains[n] : h \notin t.nodes /\ p \notin t.nodes
    BY <1>4 DEF NewTree, TreesWith
  <2>3. new \in Tree
    BY <1>2 DEF Tree
  <2>4. Merges(n, h, {}, new)
    BY <2>1, <2>2, <2>3 DEF Merges
  <2> QED
    BY <2>1, <2>4, AddToIncompleteInv
<1>5. CASE GrowTree(n, h)
  <2>1. PICK ph \in inchains[n] :
          /\ p \in ph.nodes
          /\ AddToIncomplete(n, h, {ph}, [ph EXCEPT !.nodes = @ \cup {h}])
    BY <1>5 DEF GrowTree, TreesWith
  <2> DEFINE new == [ph EXCEPT !.nodes = @ \cup {h}]
  <2>2. parent' = [parent EXCEPT ![n][h] = p] /\ \A t \in inchains[n] : h \notin t.nodes
    BY <1>5 DEF GrowTree, TreesWith
  <2>3. \A t \in inchains[n] : p \in t.nodes <=> t = ph
    BY <2>1, <1>3
  <2>4. new \in Tree /\ new.b = ph.b /\ new.nodes = ph.nodes \cup {h}
    BY <1>2, <1>3 DEF Tree
  <2> HIDE DEF new
  <2>5. AddToIncomplete(n, h, {ph}, new)
    BY <2>1 DEF new
  <2>6. Merges(n, h, {ph}, new)
    BY <2>1, <2>2, <2>3, <2>4 DEF Merges
  <2> QED
    BY <2>5, <2>6, AddToIncompleteInv
<1>6. CASE RaiseRoot(n, h)
  <2>1. PICK ch \in inchains[n] :
          /\ h \in ch.nodes
          /\ AddToIncomplete(n, h, {ch}, [b |-> p, nodes |-> ch.nodes \cup {p}, no_asks |-> 0])
          /\ parent' = [parent EXCEPT ![n][ch.b] = p]
    BY <1>6 DEF RaiseRoot, TreesWith
  <2> DEFINE new == [b |-> p, nodes |-> ch.nodes \cup {p}, no_asks |-> 0]
  <2>2. ch.b = h /\ \A t \in inchains[n] : p \notin t.nodes
    BY <1>3, <1>6, <2>1 DEF RaiseRoot, TreesWith
  <2>3. \A t \in inchains[n] : h \in t.nodes <=> t = ch
    BY <2>1, <1>3
  <2>4. new \in Tree /\ new.b = p /\ new.nodes = ch.nodes \cup {p}
    BY <1>2, <1>3 DEF Tree
  <2> HIDE DEF new
  <2>5. AddToIncomplete(n, h, {ch}, new)
    BY <2>1 DEF new
  <2>6. Merges(n, h, {ch}, new)
    BY <2>1, <2>2, <2>3, <2>4 DEF Merges
  <2> QED
    BY <2>5, <2>6, AddToIncompleteInv
<1>7. CASE JoinTrees(n, h)
  <2>1. PICK ch \in inchains[n], ph \in inchains[n] :
          /\ h \in ch.nodes /\ p \in ph.nodes
          /\ AddToIncomplete(n, h, {ch, ph}, Joined(ph, ch))
          /\ parent' = [parent EXCEPT ![n][ch.b] = p]
    BY <1>7 DEF JoinTrees, TreesWith
  <2> DEFINE new == Joined(ph, ch)
  <2>2. ch.b = h
    BY <1>3, <2>1
  <2>3. \A t \in inchains[n] : (h \in t.nodes <=> t = ch) /\ (p \in t.nodes <=> t = ph)
    BY <2>1, <1>3
  <2>4. new \in Tree /\ new.b = ph.b /\ new.nodes = ph.nodes \cup ch.nodes
    BY <1>2, <1>3 DEF Tree, Joined
  <2> HIDE DEF new
  <2>5. AddToIncomplete(n, h, {ch, ph}, new)
    BY <2>1 DEF new
  <2>6. Merges(n, h, {ch, ph}, new)
    BY <2>1, <2>2, <2>3, <2>4 DEF Merges
  <2> QED
    BY <2>5, <2>6, AddToIncompleteInv
<1> QED
  BY <1>4, <1>5, <1>6, <1>7

\* Asking for missing roots, and giving trees up, keeps the invariant.
LEMMA AskForIncompleteInv ==
  ASSUME TreeInv, NEW n \in Nodes, NEW due, AskForIncomplete(n, due)
  PROVE  TreeInv'
<1> USE ChainsAssumption, NullAssumption, AsksAssumption
<1> DEFINE asked   == {[t EXCEPT !.no_asks = @ + 1] : t \in due}
           kept    == {t \in asked : ~Expired(t)}
           dropped == UNION {t.nodes : t \in asked \ kept}
<1>1. /\ due \subseteq inchains[n]
      /\ inchains' = [inchains EXCEPT ![n] = (@ \ due) \cup kept]
      /\ parent'   = [parent EXCEPT ![n] =
                        [h \in BlockHash |-> IF h \in dropped THEN NULL ELSE @[h]]]
      /\ nb'       = [nb EXCEPT ![n] = @ \ dropped]
      /\ hdr' = hdr /\ chains' = chains /\ deepest' = deepest
  BY DEF AskForIncomplete
<1>2. \A t \in inchains[n] : t \in Tree
  BY DEF TreeInv, TypeOK
<1>3. \A a \in asked : \E t \in due : a.b = t.b /\ a.nodes = t.nodes /\ a.no_asks = t.no_asks + 1
  BY <1>1, <1>2 DEF Tree
<1>4. ASSUME NEW t \in due PROVE \E a \in asked : a.b = t.b /\ a.nodes = t.nodes
  <2>1. [t EXCEPT !.no_asks = @ + 1] \in asked
    OBVIOUS
  <2>2. t \in Tree
    BY <1>1, <1>2
  <2> QED
    BY <2>1, <2>2 DEF Tree
<1>5. kept \subseteq Tree
  BY <1>1, <1>2 DEF Tree, Expired
<1>6. ASSUME NEW a \in asked, NEW u \in asked, a # u PROVE a.nodes \cap u.nodes = {}
  <2>1. PICK t \in due : a = [t EXCEPT !.no_asks = @ + 1]
    OBVIOUS
  <2>2. PICK v \in due : u = [v EXCEPT !.no_asks = @ + 1]
    OBVIOUS
  <2>3. t # v /\ a.nodes = t.nodes /\ u.nodes = v.nodes
    BY <1>1, <1>2, <1>6, <2>1, <2>2 DEF Tree
  <2> QED
    BY <2>3, <1>1 DEF TreeInv, OneHome
<1>7. \A x : x \in dropped <=> \E a \in asked \ kept : x \in a.nodes
  OBVIOUS
<1>8. kept \subseteq asked
  OBVIOUS
<1> HIDE DEF asked, kept, dropped
<1>9. /\ \A m \in Nodes : inchains'[m] =
           IF m = n THEN (inchains[n] \ due) \cup kept ELSE inchains[m]
      /\ \A m \in Nodes, x \in BlockHash : parent'[m][x] =
           IF m = n /\ x \in dropped THEN NULL ELSE parent[m][x]
      /\ \A m \in Nodes : nb'[m] = IF m = n THEN nb[n] \ dropped ELSE nb[m]
  BY <1>1 DEF TreeInv, TypeOK
<1>10. ASSUME NEW m \in Nodes, NEW a \in inchains'[m]
       PROVE  /\ \E t \in inchains[m] : a.b = t.b /\ a.nodes = t.nodes
              /\ m = n => a.nodes \cap dropped = {}
  <2>1. CASE m = n /\ a \in kept
    BY <2>1, <1>1, <1>3, <1>6, <1>7, <1>8
  <2>2. CASE m = n /\ a \in inchains[n] \ due
    <3>1. a.nodes \cap dropped = {}
      BY <2>2, <1>1, <1>3, <1>7 DEF TreeInv, OneHome
    <3> QED
      BY <2>2, <3>1
  <2> QED
    BY <2>1, <2>2, <1>9
<1>11. TypeOK'
  <2>1. parent' \in [Nodes -> [BlockHash -> BlockHash \cup {NULL}]]
    BY <1>1 DEF TreeInv, TypeOK
  <2> QED
    BY <2>1, <1>1, <1>5 DEF TreeInv, TypeOK
<1>12. RankOrder' /\ DeepestIsDeepest'
  BY <1>1 DEF TreeInv, RankOrder, DeepestIsDeepest
<1>13. OneHome'
  <2>1. ASSUME NEW m \in Nodes, NEW a \in inchains'[m]
        PROVE  a.b \in a.nodes /\ a.nodes \cap chains[m] = {}
    BY <1>10 DEF TreeInv, OneHome
  <2>2. ASSUME NEW m \in Nodes, NEW a \in inchains'[m], NEW u \in inchains'[m], a # u
        PROVE  a.nodes \cap u.nodes = {}
    <3>1. CASE m # n \/ (a \notin kept /\ u \notin kept)
      BY <2>2, <3>1, <1>9 DEF TreeInv, OneHome
    <3>2. CASE m = n /\ a \in kept /\ u \in kept
      BY <2>2, <3>2, <1>6, <1>8
    <3>3. CASE m = n /\ a \in kept /\ u \in inchains[n] \ due
      BY <3>3, <1>1, <1>3, <1>8 DEF TreeInv, OneHome
    <3>4. CASE m = n /\ u \in kept /\ a \in inchains[n] \ due
      BY <3>4, <1>1, <1>3, <1>8 DEF TreeInv, OneHome
    <3> QED
      BY <3>1, <3>2, <3>3, <3>4, <1>9
  <2> QED
    BY <2>1, <2>2, <1>1 DEF OneHome
<1>14. ASSUME NEW x
       PROVE  /\ x \in InTrees(n)' <=> x \in InTrees(n) /\ x \notin dropped
              /\ x \in Roots(n)' => x \in Roots(n) /\ x \notin dropped
              /\ x \in Roots(n) => x \in Roots(n)' \/ x \in dropped
  <2>1. x \in InTrees(n) <=> \E t \in inchains[n] : x \in t.nodes
    BY DEF InTrees
  <2>2. x \in InTrees(n)' <=> \E a \in inchains'[n] : x \in a.nodes
    BY DEF InTrees
  <2>3. x \in Roots(n) <=> \E t \in inchains[n] : x = t.b
    BY DEF Roots
  <2>4. x \in Roots(n)' <=> \E a \in inchains'[n] : x = a.b
    BY DEF Roots
  <2>5. \A t \in inchains[n] : (\E a \in inchains'[n] : a.b = t.b /\ a.nodes = t.nodes)
                                \/ t.nodes \subseteq dropped
    BY <1>4, <1>7, <1>9
  <2>6. /\ \A t \in inchains[n] : t.b \in t.nodes
        /\ \A a \in inchains'[n] : a.b \in a.nodes
    BY <1>13 DEF TreeInv, OneHome
  <2> QED
    BY <2>1, <2>2, <2>3, <2>4, <2>5, <2>6, <1>10
<1>15. \A m \in Nodes : m # n => InTrees(m)' = InTrees(m) /\ Roots(m)' = Roots(m)
  BY <1>9 DEF InTrees, Roots
<1>16. \A x \in dropped : x \notin chains[n]
  BY <1>1, <1>3, <1>7 DEF TreeInv, OneHome
<1>17. Shape'
  <2>1. ASSUME NEW m \in Nodes, NEW t \in inchains'[m], NEW x \in t.nodes
        PROVE  /\ x \in DOMAIN hdr
               /\ hdr[x].chain_id = hdr[t.b].chain_id
               /\ x # t.b => hdr[t.b].depth < hdr[x].depth
    BY <1>10 DEF TreeInv, Shape
  <2>2. ASSUME NEW m \in Nodes, NEW x \in BlockHash \ (chains[m] \cup InTrees(m)')
        PROVE  parent'[m][x] = NULL
    BY <1>9, <1>14, <1>15 DEF TreeInv, Shape
  <2> QED
    BY <2>1, <2>2, <1>1 DEF TreeInv, Shape, Genesis
<1>18. WellLinked'
  <2>1. ASSUME NEW m \in Nodes, NEW x \in chains[m] \ Chain
        PROVE  parent'[m][x] = hdr[x].parent /\ parent'[m][x] \in chains[m]
    BY <1>9, <1>16 DEF TreeInv, WellLinked, TypeOK
  <2>2. ASSUME NEW m \in Nodes, NEW t \in inchains'[m], NEW x \in t.nodes \ {t.b}
        PROVE  parent'[m][x] = hdr[x].parent /\ parent'[m][x] \in t.nodes
    <3>1. PICK u \in inchains[m] : t.b = u.b /\ t.nodes = u.nodes
      BY <1>10
    <3>2. x \in BlockHash /\ (m = n => x \notin dropped)
      BY <1>10, <3>1 DEF TreeInv, TypeOK, Tree
    <3> QED
      BY <3>1, <3>2, <1>9 DEF TreeInv, WellLinked
  <2>3. ASSUME NEW m \in Nodes, NEW x \in Chain \cup Roots(m)'
        PROVE  parent'[m][x] = NULL
    <3>1. x \in Chain \cup Roots(m)
      BY <1>14, <1>15
    <3>2. x \in BlockHash
      BY <3>1 DEF Roots, TreeInv, TypeOK, Tree, BlockHash
    <3> QED
      BY <3>1, <3>2, <1>9 DEF TreeInv, WellLinked
  <2> QED
    BY <2>1, <2>2, <2>3, <1>1 DEF WellLinked
<1>19. NbSet'
  <2>1. nb'[n] = chains[n] \cup (InTrees(n)' \ Roots(n)')
    BY <1>9, <1>14, <1>16 DEF TreeInv, NbSet
  <2> QED
    BY <2>1, <1>1, <1>9, <1>15 DEF TreeInv, NbSet
<1> QED
  BY <1>11, <1>12, <1>13, <1>17, <1>18, <1>19 DEF TreeInv

\* Every step of the specification keeps the invariant.
LEMMA NextInv == TreeInv /\ [Next]_vars => TreeInv'
<1> SUFFICES ASSUME TreeInv, [Next]_vars PROVE TreeInv'
  OBVIOUS
<1>1. ASSUME NEW n \in Nodes, NEW h \in Hashes, NEW c \in Chain, MineNewBlock(n, h, c)
      PROVE  TreeInv'
  BY <1>1, MineNewBlockInv
<1>2. ASSUME NEW n \in Nodes, NEW h \in DOMAIN hdr, AddReceivedBlock(n, h)
      PROVE  TreeInv'
  BY <1>2, AddToMainInv, IncompleteCasesInv DEF AddReceivedBlock
<1>3. ASSUME NEW n \in Nodes, NEW due \in SUBSET inchains[n], AskForIncomplete(n, due)
      PROVE  TreeInv'
  BY <1>3, AskForIncompleteInv
<1>4. CASE UNCHANGED vars
  <2> USE <1>4 DEF vars, nodeVars, TreeInv
  <2>1. \A n \in Nodes : InTrees(n)' = InTrees(n) /\ Roots(n)' = Roots(n)
    BY DEF InTrees, Roots
  <2>2. TypeOK' /\ RankOrder' /\ DeepestIsDeepest' /\ OneHome'
    BY DEF TypeOK, RankOrder, DeepestIsDeepest, OneHome
  <2>3. Shape' /\ WellLinked' /\ NbSet'
    BY <2>1 DEF Shape, Genesis, WellLinked, NbSet
  <2> QED
    BY <2>2, <2>3
<1> QED
  BY <1>1, <1>2, <1>3, <1>4 DEF Next

\* The block trees of every node stay well formed: types, one home per block,
\* links, network blocks, deepest blocks and rank order, for any number of
\* nodes, chains and blocks (add_received_block, mine_new_block,
\* get_incomplete_chain_hashes).
THEOREM TreeSafety == Spec => []TreeInv
<1> QED
  BY InitInv, NextInv, PTL DEF Spec

\* No order of headers puts a block into two trees of a node, or twice into one
\* (add_received_block, add_block_to_incomplete).
THEOREM HomeSafety == Spec => []OneHome
<1>1. TreeInv => OneHome
  BY DEF TreeInv
<1> QED
  BY <1>1, TreeSafety, PTL

\* The ranks of a mined block fit those of its parent and its trailing block,
\* on whatever view of the chains it was mined (mine_new_block).
THEOREM RankSafety == Spec => []RankOrder
<1>1. TreeInv => RankOrder
  BY DEF TreeInv
<1> QED
  BY <1>1, TreeSafety, PTL

\* The main trees and deepest blocks change by the longest chain rule.
LEMMA StepRefines == TreeInv /\ [Next]_vars => [LC!Next]_(LC!lcVars)
<1> SUFFICES ASSUME TreeInv, [Next]_vars PROVE LC!Next \/ UNCHANGED LC!lcVars
  BY DEF LC!lcVars
<1> DEFINE blk == [h \in DOMAIN hdr |-> [chain  |-> hdr[h].chain_id,
                                        parent |-> hdr[h].parent,
                                        depth  |-> hdr[h].depth]]
<1>0. \A x \in DOMAIN hdr : hdr[x] \in Header
  BY DEF TreeInv, TypeOK
<1>1. ASSUME NEW n \in Nodes, NEW h \in Hashes, NEW c \in Chain, MineNewBlock(n, h, c)
      PROVE  LC!Next
  <2>1. PICK t \in Chain : /\ IsTrailing(n, t)
                           /\ hdr' = [x \in DOMAIN hdr \cup {h} |->
                                IF x = h THEN MinedHeader(n, c, t) ELSE hdr[x]]
    BY <1>1 DEF MineNewBlock
  <2> DEFINE p == deepest[n][c]
  <2>2. p \in DOMAIN hdr
    BY DEF TreeInv, DeepestIsDeepest, Shape
  <2>3. /\ DOMAIN hdr' = DOMAIN hdr \cup {h}
        /\ \A x \in DOMAIN hdr \cup {h} :
             hdr'[x] = IF x = h THEN MinedHeader(n, c, t) ELSE hdr[x]
        /\ MinedHeader(n, c, t).chain_id = c
        /\ MinedHeader(n, c, t).parent = p
        /\ MinedHeader(n, c, t).depth = hdr[p].depth + 1
    BY <2>1 DEF MinedHeader
  <2>4. blk' = [x \in DOMAIN blk \cup {h} |->
                 IF x = h THEN [chain |-> c, parent |-> p, depth |-> blk[p].depth + 1]
                          ELSE blk[x]]
    BY <2>2, <2>3
  <2>5. h \notin DOMAIN blk /\ chains' = [chains EXCEPT ![n] = @ \cup {h}]
        /\ deepest' = [deepest EXCEPT ![n][c] = h]
    BY <1>1 DEF MineNewBlock
  <2>6. LC!Mine(n, h, c)
    BY <2>4, <2>5 DEF LC!Mine
  <2> QED
    BY <2>6 DEF LC!Next
<1>2. ASSUME NEW n \in Nodes, NEW h \in DOMAIN hdr, AddToMain(n, h)
      PROVE  LC!Next
  <2> DEFINE c     == hdr[h].chain_id
             p     == hdr[h].parent
             bi    == RootedAt(n, h)
             moved == {h} \cup UNION {t.nodes : t \in bi}
             tip   == deepest[n][c]
  <2>1. Arrives(n, h) /\ p \in chains[n]
    BY <1>2 DEF AddToMain
  <2>2. h \notin chains[n] /\ c \in Chain /\ \A x \in DOMAIN hdr : hdr[x].depth \in Nat
    BY <2>1, ArrivesFacts
  <2>3. ASSUME NEW x \in moved
        PROVE  /\ x \in DOMAIN hdr /\ x \notin chains[n] /\ hdr[x].chain_id = c
               /\ hdr[x].parent \in chains[n] \cup moved
    <3>1. CASE x = h
      BY <3>1, <2>1, <2>2
    <3>2. CASE x # h
      <4>1. PICK t \in inchains[n] : t.b = h /\ x \in t.nodes /\ t \in bi
        BY <3>2 DEF RootedAt
      <4>2. x \in DOMAIN hdr /\ x \notin chains[n] /\ hdr[x].chain_id = c
        BY <4>1 DEF TreeInv, Shape, OneHome
      <4>3. hdr[x].parent \in t.nodes
        BY <3>2, <4>1 DEF TreeInv, WellLinked
      <4> QED
        BY <4>1, <4>2, <4>3
    <3> QED
      BY <3>1, <3>2
  <2>4. PICK d \in moved :
          /\ IsMaxDepth(d, moved)
          /\ deepest' = [deepest EXCEPT ![n][c] = IF Deeper(d, @) THEN d ELSE @]
    BY <1>2 DEF AddToMain
  <2>5. chains' = [chains EXCEPT ![n] = @ \cup moved] /\ hdr' = hdr
    BY <1>2 DEF AddToMain
  <2>6. tip \in DOMAIN hdr
    BY <2>2 DEF TreeInv, DeepestIsDeepest, Shape
  <2>7. h \in moved
    OBVIOUS
  <2> HIDE DEF moved
  <2> DEFINE deepestOf == {x \in moved \cup {tip} :
                             \A y \in moved \cup {tip} : blk[y].depth <= blk[x].depth}
             e == IF Deeper(d, tip) THEN d ELSE tip
  <2>8. \A x \in DOMAIN hdr : /\ blk[x].depth = hdr[x].depth /\ blk[x].chain = hdr[x].chain_id
                              /\ blk[x].parent = hdr[x].parent
    OBVIOUS
  <2>9. DOMAIN blk = DOMAIN hdr /\ blk' = blk
    BY <2>5
  <2> HIDE DEF blk
  <2>10. /\ d \in DOMAIN hdr /\ \A x \in moved : hdr[x].depth <= hdr[d].depth
         /\ hdr[d].depth \in Nat /\ hdr[tip].depth \in Nat
    BY <2>2, <2>3, <2>4, <2>6 DEF IsMaxDepth
  <2>11. e \in deepestOf /\ (tip \in deepestOf => e = tip)
    <3>1. CASE Deeper(d, tip)
      <4>1. hdr[tip].depth < hdr[d].depth
        BY <2>10, <3>1 DEF Deeper
      <4> QED
        BY <2>2, <2>3, <2>6, <2>8, <2>10, <3>1, <4>1
    <3>2. CASE ~Deeper(d, tip)
      <4>1. hdr[d].depth <= hdr[tip].depth
        BY <2>10, <3>2 DEF Deeper
      <4> QED
        BY <2>2, <2>3, <2>6, <2>8, <2>10, <3>2, <4>1
    <3> QED
      BY <3>1, <3>2
  <2>12. deepest' = [deepest EXCEPT ![n][c] = e]
    <3>1. n \in DOMAIN deepest /\ c \in DOMAIN deepest[n]
      BY <2>2 DEF TreeInv, TypeOK
    <3> QED
      BY <2>4, <3>1
  <2>13. /\ moved # {} /\ moved \subseteq DOMAIN blk \ chains[n]
         /\ \A x \in moved : blk[x].chain = c /\ blk[x].parent \in chains[n] \cup moved
    BY <2>3, <2>7, <2>8, <2>9
  <2> HIDE DEF e
  <2>14. LC!Learn(n, c, moved)
    BY <2>5, <2>9, <2>11, <2>12, <2>13 DEF LC!Learn, blk
  <2>15. moved \in SUBSET (DOMAIN blk)
    BY <2>13
  <2> QED
    BY <2>2, <2>14, <2>15 DEF LC!Next, blk
<1>3. ASSUME NEW n \in Nodes, NEW h \in DOMAIN hdr,
             NewTree(n, h) \/ GrowTree(n, h) \/ RaiseRoot(n, h) \/ JoinTrees(n, h)
      PROVE  UNCHANGED LC!lcVars
  BY <1>3 DEF NewTree, GrowTree, RaiseRoot, JoinTrees, AddToIncomplete, LC!lcVars
<1>4. ASSUME NEW n \in Nodes, NEW due \in SUBSET inchains[n], AskForIncomplete(n, due)
      PROVE  UNCHANGED LC!lcVars
  BY <1>4 DEF AskForIncomplete, LC!lcVars
<1>5. CASE UNCHANGED vars
  BY <1>5 DEF vars, nodeVars, LC!lcVars
<1> QED
  BY <1>1, <1>2, <1>3, <1>4, <1>5 DEF Next, AddReceivedBlock

\* add_received_block, mine_new_block and get_incomplete_chain_hashes implement
\* the longest chain rule, whatever the order in which headers arrive.
THEOREM Refinement == Spec => ImplementsLongestChain
<1>1. Init => LC!Init
  BY DEF Init, LC!Init, Genesis
<1> QED
  BY <1>1, InitInv, NextInv, StepRefines, PTL DEF Spec, LC!Spec, ImplementsLongestChain

\* A step that moves the deepest block of a chain moves it to a deeper block.
LEMMA DeepestGrows ==
  ASSUME TreeInv, [Next]_vars, NEW m \in Nodes, NEW e \in Chain,
         deepest'[m][e] # deepest[m][e]
  PROVE  hdr'[deepest'[m][e]].depth > hdr[deepest[m][e]].depth
<1>1. ASSUME NEW n \in Nodes, NEW h \in Hashes, NEW c \in Chain, MineNewBlock(n, h, c)
      PROVE  hdr'[deepest'[m][e]].depth > hdr[deepest[m][e]].depth
  <2>1. deepest' = [deepest EXCEPT ![n][c] = h]
    BY <1>1 DEF MineNewBlock
  <2>2. m = n /\ e = c /\ deepest'[n][c] = h
    BY <2>1 DEF TreeInv, TypeOK
  <2>3. PICK t \in Chain : /\ IsTrailing(n, t)
                           /\ hdr' = [x \in DOMAIN hdr \cup {h} |->
                                IF x = h THEN MinedHeader(n, c, t) ELSE hdr[x]]
    BY <1>1 DEF MineNewBlock
  <2>4. hdr'[h].depth = hdr[deepest[n][c]].depth + 1
    BY <2>3 DEF MinedHeader
  <2>5. hdr[deepest[n][c]].depth \in Nat
    BY DEF TreeInv, TypeOK, DeepestIsDeepest, Shape, Header
  <2> QED
    BY <2>2, <2>4, <2>5
<1>2. ASSUME NEW n \in Nodes, NEW h \in DOMAIN hdr, AddToMain(n, h)
      PROVE  hdr'[deepest'[m][e]].depth > hdr[deepest[m][e]].depth
  <2>1. PICK d : /\ deepest' = [deepest EXCEPT ![n][hdr[h].chain_id] =
                                  IF Deeper(d, @) THEN d ELSE @]
                 /\ hdr' = hdr
    BY <1>2 DEF AddToMain
  <2> QED
    BY <2>1 DEF TreeInv, TypeOK, Deeper
<1>3. ASSUME NEW n \in Nodes, NEW h \in DOMAIN hdr,
             NewTree(n, h) \/ GrowTree(n, h) \/ RaiseRoot(n, h) \/ JoinTrees(n, h)
      PROVE  FALSE
  BY <1>3 DEF NewTree, GrowTree, RaiseRoot, JoinTrees, AddToIncomplete
<1>4. ASSUME NEW n \in Nodes, NEW due \in SUBSET inchains[n], AskForIncomplete(n, due)
      PROVE  FALSE
  BY <1>4 DEF AskForIncomplete
<1>5. CASE UNCHANGED vars
  BY <1>5 DEF vars, nodeVars
<1> QED
  BY <1>1, <1>2, <1>3, <1>4, <1>5 DEF Next, AddReceivedBlock

\* add_received_block leaves the deepest block of a chain only for a strictly
\* deeper one, and mine_new_block puts a deeper one on top of it.
THEOREM FirstSeen == Spec => FirstSeenKept
<1>1. TreeInv /\ [Next]_vars =>
        \A n \in Nodes, c \in Chain :
          deepest'[n][c] # deepest[n][c] =>
            hdr'[deepest'[n][c]].depth > hdr[deepest[n][c]].depth
  BY DeepestGrows
<1> QED
  BY <1>1, InitInv, NextInv, PTL DEF Spec, FirstSeenKept

\* No order of deliveries makes add_received_block forget a block: only
\* get_incomplete_chain_hashes does, after the last of its requests.
THEOREM NothingLost == Spec => LosesOnlyExpired
<1> DEFINE Keeps == \A n \in Nodes :
         \A h \in (chains[n] \cup InTrees(n)) \ (chains'[n] \cup InTrees(n)') :
           \E t \in inchains[n] : /\ h \in t.nodes
                                  /\ t.no_asks = NO_ASKS_BEFORE_REMOVING
<1>1. TreeInv /\ [Next]_vars => Keeps
  <2> SUFFICES ASSUME TreeInv, [Next]_vars, NEW m \in Nodes,
                      NEW x \in (chains[m] \cup InTrees(m)) \ (chains'[m] \cup InTrees(m)')
               PROVE  \E t \in inchains[m] : /\ x \in t.nodes
                                              /\ t.no_asks = NO_ASKS_BEFORE_REMOVING
    OBVIOUS
  <2>0. \A n \in Nodes : \A t \in inchains[n] : t \in Tree
    BY DEF TreeInv, TypeOK
  <2>1. ASSUME NEW n \in Nodes, NEW h \in Hashes, NEW c \in Chain, MineNewBlock(n, h, c)
        PROVE  FALSE
    BY <2>1 DEF MineNewBlock, InTrees, TreeInv, TypeOK
  <2>2. ASSUME NEW n \in Nodes, NEW h \in DOMAIN hdr, AddToMain(n, h)
        PROVE  FALSE
    BY <2>2 DEF AddToMain, RootedAt, InTrees, TreeInv, TypeOK
  <2>3. ASSUME NEW n \in Nodes, NEW h \in DOMAIN hdr, NEW old, NEW new,
               AddToIncomplete(n, h, old, new),
               \A t \in old : t.nodes \subseteq new.nodes
        PROVE  FALSE
    BY <2>3 DEF AddToIncomplete, InTrees, TreeInv, TypeOK
  <2>4. ASSUME NEW n \in Nodes, NEW h \in DOMAIN hdr,
               NewTree(n, h) \/ GrowTree(n, h) \/ RaiseRoot(n, h) \/ JoinTrees(n, h)
        PROVE  FALSE
    <3>1. CASE NewTree(n, h)
      BY <3>1, <2>3 DEF NewTree
    <3>2. CASE GrowTree(n, h)
      <4>1. PICK ph \in inchains[n] :
              AddToIncomplete(n, h, {ph}, [ph EXCEPT !.nodes = @ \cup {h}])
        BY <3>2 DEF GrowTree, TreesWith
      <4> DEFINE new == [ph EXCEPT !.nodes = @ \cup {h}]
      <4>2. new.nodes = ph.nodes \cup {h}
        BY <2>0 DEF Tree
      <4> HIDE DEF new
      <4>3. AddToIncomplete(n, h, {ph}, new)
        BY <4>1 DEF new
      <4> QED
        BY <4>2, <4>3, <2>3
    <3>3. CASE RaiseRoot(n, h)
      <4>1. PICK ch \in inchains[n] :
              AddToIncomplete(n, h, {ch}, [b |-> hdr[h].parent,
                                           nodes |-> ch.nodes \cup {hdr[h].parent},
                                           no_asks |-> 0])
        BY <3>3 DEF RaiseRoot, TreesWith
      <4> DEFINE new == [b |-> hdr[h].parent, nodes |-> ch.nodes \cup {hdr[h].parent},
                         no_asks |-> 0]
      <4>2. new.nodes = ch.nodes \cup {hdr[h].parent}
        OBVIOUS
      <4> HIDE DEF new
      <4>3. AddToIncomplete(n, h, {ch}, new)
        BY <4>1 DEF new
      <4> QED
        BY <4>2, <4>3, <2>3
    <3>4. CASE JoinTrees(n, h)
      <4>1. PICK ch \in inchains[n], ph \in inchains[n] :
              AddToIncomplete(n, h, {ch, ph}, Joined(ph, ch))
        BY <3>4 DEF JoinTrees, TreesWith
      <4>2. Joined(ph, ch).nodes = ph.nodes \cup ch.nodes
        BY <2>0 DEF Tree, Joined
      <4> QED
        BY <4>1, <4>2, <2>3
    <3> QED
      BY <2>4, <3>1, <3>2, <3>3, <3>4
  <2>5. ASSUME NEW n \in Nodes, NEW due \in SUBSET inchains[n], AskForIncomplete(n, due)
        PROVE  \E t \in inchains[m] : /\ x \in t.nodes
                                       /\ t.no_asks = NO_ASKS_BEFORE_REMOVING
    <3> DEFINE asked == {[t EXCEPT !.no_asks = @ + 1] : t \in due}
               kept  == {t \in asked : ~Expired(t)}
    <3>1. inchains' = [inchains EXCEPT ![n] = (@ \ due) \cup kept] /\ chains' = chains
      BY <2>5 DEF AskForIncomplete
    <3>2. x \in InTrees(m) /\ x \notin InTrees(m)'
      BY <3>1
    <3>3. PICK t \in inchains[m] : x \in t.nodes
      BY <3>2 DEF InTrees
    <3>4. m = n /\ t \in due
      BY <3>1, <3>2, <3>3 DEF InTrees, TreeInv, TypeOK
    <3> DEFINE a == [t EXCEPT !.no_asks = @ + 1]
    <3>5. a \in asked /\ a.nodes = t.nodes /\ a.no_asks = t.no_asks + 1
      BY <3>4, <2>0 DEF Tree
    <3>6. inchains'[n] = (inchains[n] \ due) \cup kept
      BY <3>1 DEF TreeInv, TypeOK
    <3>7. ASSUME a \in kept PROVE FALSE
      <4>1. a \in inchains'[m]
        BY <3>4, <3>6, <3>7
      <4> QED
        BY <4>1, <3>2, <3>3, <3>5 DEF InTrees
    <3>8. Expired(a)
      BY <3>5, <3>7
    <3>9. t.no_asks \in 0 .. NO_ASKS_BEFORE_REMOVING
      BY <3>3, <2>0 DEF Tree
    <3> QED
      BY <3>3, <3>5, <3>8, <3>9, AsksAssumption DEF Expired
  <2>6. CASE UNCHANGED vars
    BY <2>6 DEF vars, nodeVars, InTrees
  <2> QED
    BY <2>1, <2>2, <2>4, <2>5, <2>6 DEF Next, AddReceivedBlock
<1> QED
  BY <1>1, InitInv, NextInv, PTL DEF Spec, LosesOnlyExpired

------------------------------------------------------------------------------
\* Headers are never changed or forgotten, and the main trees only grow: what
\* add_received_block and mine_new_block leave to the code around them.
LEMMA MainTreesGrow ==
  ASSUME TreeInv, [Next]_vars
  PROVE  /\ DOMAIN hdr \subseteq DOMAIN hdr'
         /\ \A x \in DOMAIN hdr : hdr'[x] = hdr[x]
         /\ \A n \in Nodes : chains[n] \subseteq chains'[n]
<1>1. ASSUME NEW n \in Nodes, NEW h \in Hashes, NEW c \in Chain, MineNewBlock(n, h, c)
      PROVE  /\ DOMAIN hdr \subseteq DOMAIN hdr'
             /\ \A x \in DOMAIN hdr : hdr'[x] = hdr[x]
             /\ \A m \in Nodes : chains[m] \subseteq chains'[m]
  BY <1>1 DEF MineNewBlock, TreeInv, TypeOK
<1>2. ASSUME NEW n \in Nodes, NEW h \in DOMAIN hdr, AddToMain(n, h)
      PROVE  hdr' = hdr /\ \A m \in Nodes : chains[m] \subseteq chains'[m]
  BY <1>2 DEF AddToMain, TreeInv, TypeOK
<1>3. ASSUME NEW n \in Nodes, NEW h \in DOMAIN hdr,
             NewTree(n, h) \/ GrowTree(n, h) \/ RaiseRoot(n, h) \/ JoinTrees(n, h)
      PROVE  hdr' = hdr /\ chains' = chains
  BY <1>3 DEF NewTree, GrowTree, RaiseRoot, JoinTrees, AddToIncomplete
<1>4. ASSUME NEW n \in Nodes, NEW due \in SUBSET inchains[n], AskForIncomplete(n, due)
      PROVE  hdr' = hdr /\ chains' = chains
  BY <1>4 DEF AskForIncomplete
<1>5. CASE UNCHANGED vars
  BY <1>5 DEF vars, nodeVars
<1> QED
  BY <1>1, <1>2, <1>3, <1>4, <1>5 DEF Next, AddReceivedBlock

\* The invariant of the trees with the bodies: the genesis blocks are full.
BodyInv ==
    /\ TreeInv
    /\ is_full \in [Nodes -> SUBSET BlockHash]
    /\ \A n \in Nodes : Chain \subseteq is_full[n]
    /\ FullIsGrounded

\* The constructor of Blockchain makes the genesis blocks full.
LEMMA BodyInitInv == BodyInit => BodyInv
  BY InitInv DEF BodyInit, BodyInv, Init, FullIsGrounded, BlockHash

\* A step of the trees that makes no block full keeps every full block grounded.
LEMMA SameBodiesInv ==
  ASSUME BodyInv, [Next]_vars, is_full' = is_full
  PROVE  BodyInv'
<1>1. TreeInv'
  BY NextInv DEF BodyInv
<1>2. /\ \A x \in DOMAIN hdr : hdr'[x] = hdr[x]
      /\ \A n \in Nodes : chains[n] \subseteq chains'[n]
  BY MainTreesGrow DEF BodyInv
<1>3. \A n \in Nodes : chains[n] \subseteq DOMAIN hdr
  BY DEF BodyInv, TreeInv, Shape
<1>4. FullIsGrounded'
  BY <1>2, <1>3 DEF BodyInv, FullIsGrounded
<1> QED
  BY <1>1, <1>4 DEF BodyInv

\* A mined block is full at once, and grounded: its parent and its trailing
\* block are deepest blocks of the miner's own main trees.
LEMMA MineFullBlockInv ==
  ASSUME BodyInv, NEW n \in Nodes, NEW h \in Hashes, NEW c \in Chain,
         MineFullBlock(n, h, c)
  PROVE  BodyInv'
<1>1. MineNewBlock(n, h, c) /\ is_full' = [is_full EXCEPT ![n] = @ \cup {h}]
  BY DEF MineFullBlock
<1>2. Next
  BY <1>1 DEF Next
<1>3. TreeInv'
  BY <1>2, NextInv DEF BodyInv
<1>4. /\ \A x \in DOMAIN hdr : hdr'[x] = hdr[x]
      /\ \A m \in Nodes : chains[m] \subseteq chains'[m]
  BY <1>2, MainTreesGrow DEF BodyInv
<1>5. \A m \in Nodes : chains[m] \subseteq DOMAIN hdr
  BY DEF BodyInv, TreeInv, Shape
<1>6. h \in chains'[n] /\ hdr'[h].parent \in chains[n] /\ hdr'[h].trailing \in chains[n]
  <2>1. PICK t \in Chain : hdr' = [x \in DOMAIN hdr \cup {h} |->
                              IF x = h THEN MinedHeader(n, c, t) ELSE hdr[x]]
    BY <1>1 DEF MineNewBlock
  <2>2. hdr'[h].parent = deepest[n][c] /\ hdr'[h].trailing = deepest[n][t]
    BY <2>1 DEF MinedHeader
  <2>3. h \in chains'[n]
    BY <1>1 DEF MineNewBlock, BodyInv, TreeInv, TypeOK
  <2> QED
    BY <2>2, <2>3 DEF BodyInv, TreeInv, DeepestIsDeepest
<1>7. FullIsGrounded'
  BY <1>1, <1>4, <1>5, <1>6 DEF BodyInv, FullIsGrounded
<1>8. is_full' \in [Nodes -> SUBSET BlockHash] /\ \A m \in Nodes : Chain \subseteq is_full'[m]
  BY <1>1 DEF BodyInv, BlockHash
<1> QED
  BY <1>3, <1>7, <1>8 DEF BodyInv

\* An accepted body belongs to a linked block whose trailing block is known.
LEMMA ReceiveBodyInv ==
  ASSUME BodyInv, NEW n \in Nodes, NEW h \in Hashes, ReceiveBody(n, h)
  PROVE  BodyInv'
<1>1. /\ h \in chains[n] /\ hdr[h].trailing \in chains[n]
      /\ is_full' = [is_full EXCEPT ![n] = @ \cup {h}] /\ UNCHANGED vars
  BY DEF ReceiveBody, BodyWanted, TrailingKnown
<1>2. TreeInv'
  BY <1>1, NextInv DEF BodyInv
<1>3. hdr' = hdr /\ chains' = chains
  BY <1>1 DEF vars, nodeVars
<1>4. h \notin Chain => hdr[h].parent \in chains[n]
  BY <1>1 DEF BodyInv, TreeInv, WellLinked
<1>5. FullIsGrounded'
  BY <1>1, <1>3, <1>4 DEF BodyInv, FullIsGrounded
<1>6. is_full' \in [Nodes -> SUBSET BlockHash] /\ \A m \in Nodes : Chain \subseteq is_full'[m]
  BY <1>1 DEF BodyInv, BlockHash
<1> QED
  BY <1>2, <1>5, <1>6 DEF BodyInv
==============================================================================
