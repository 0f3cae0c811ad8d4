----------------------------- MODULE WalkProofs -----------------------------
(***************************************************************************)
(* Proofs about what walks along the parent pointers, for every number of  *)
(* nodes, chains and blocks.                                               *)
(*                                                                         *)
(* Commit: a block is committed at most once, with its body, below the     *)
(* highest bar so far; what is above the blocks of that bar ranks at or    *)
(* above it; a shallow fork undoes no commit, for every T_DISCARD.         *)
(*                                                                         *)
(* HashLog: the log of hashes has no gaps, and differs on deep forks only. *)
(*                                                                         *)
(* CatchUp: one answer closes the gap it was asked for.                    *)
(***************************************************************************)
EXTENDS Commit, HashLog, CatchUp, BlockTreeProofs, NatLemmas, FiniteSetTheorems

\* A walk along the parent pointers is defined by its steps.
LEMMA WalkSteps ==
  ASSUME NEW S, NULL \in S, NEW par, NEW b \in S, \A x \in S \ {NULL} : par[x] \in S
  PROVE  /\ Walk(par, b) \in [Nat -> S]
         /\ Walk(par, b)[0] = b
         /\ \A k \in Nat : Walk(par, b)[k + 1] =
              IF Walk(par, b)[k] = NULL THEN NULL ELSE par[Walk(par, b)[k]]
<1> DEFINE up(t) == IF t = NULL THEN NULL ELSE par[t]
           f == [k \in Nat |-> [t \in S |-> up(t)]]
<1>1. f \in [Nat -> [S -> S]]
  OBVIOUS
<1>2. \A k \in Nat, t \in S : f[k][t] = up(t)
  OBVIOUS
<1> HIDE DEF f, up
<1>3. PICK g \in [Nat -> S] : g[0] = b /\ \A k \in Nat : g[k + 1] = f[k][g[k]]
  <2>1. PICK g : Iterates(S, b, f, g)
    BY <1>1, RecursiveFunction
  <2> QED
    BY <2>1 DEF Iterates
<1>4. \A k \in Nat : g[k + 1] = up(g[k])
  BY <1>2, <1>3
<1> USE DEF up
<1> DEFINE R(w) == [k \in Nat |-> IF k = 0 THEN b ELSE up(w[k - 1])]
<1>5. g = R(g)
  <2>1. ASSUME NEW k \in Nat PROVE g[k] = IF k = 0 THEN b ELSE up(g[k - 1])
    <3>1. CASE k = 0
      BY <3>1, <1>3
    <3>2. CASE k # 0
      <4>1. k - 1 \in Nat /\ (k - 1) + 1 = k
        BY <3>2
      <4>2. g[(k - 1) + 1] = up(g[k - 1])
        BY <4>1, <1>4
      <4> QED
        BY <3>2, <4>1, <4>2
    <3> QED
      BY <3>1, <3>2
  <2> QED
    BY <2>1
<1> DEFINE w == CHOOSE v : v = R(v)
<1>6. Walk(par, b) = w
  BY DEF Walk
<1>7. w = R(w)
  BY <1>5
<1> HIDE DEF w
<1>8. w[0] = b /\ \A k \in Nat : w[k + 1] = up(w[k])
  BY <1>7
<1>9. \A k \in Nat : w[k] \in S
  <2> DEFINE P == {k \in Nat : w[k] \in S}
  <2>1. 0 \in P /\ \A k \in Nat : k \in P => k + 1 \in P
    BY <1>8
  <2> HIDE DEF P
  <2>2. \A k \in Nat : k \in P
    BY <2>1, InductionOverSet
  <2> QED
    BY <2>2 DEF P
<1>10. w \in [Nat -> S]
  BY <1>7, <1>9
<1> QED
  BY <1>6, <1>8, <1>10

\* What the walks need to know of the main trees S of a node: the parent of a
\* block is one less deep and of the same chain, and ends where the block's
\* rank begins; only genesis blocks have none.
IsForest(par, hd, S) ==
    /\ NULL \notin S
    /\ \A x \in S :
         /\ hd[x].depth \in Nat /\ hd[x].rank \in Nat /\ hd[x].next_rank \in Nat
         /\ hd[x].depth = 0 => par[x] = NULL
         /\ hd[x].depth > 0 =>
              /\ par[x] \in S
              /\ hd[par[x]].depth = hd[x].depth - 1
              /\ hd[par[x]].chain_id = hd[x].chain_id
              /\ hd[par[x]].next_rank = hd[x].rank
              /\ hd[x].rank < hd[x].next_rank

\* The main trees of every node are such a forest (add_received_block and
\* mine_new_block keep them so).
MainTreesAreForests == \A n \in Nodes : IsForest(parent[n], hdr, chains[n])

\* It follows from the invariant of the trees.
LEMMA MainForest == TreeInv => MainTreesAreForests
<1> SUFFICES ASSUME TreeInv, NEW n \in Nodes PROVE IsForest(parent[n], hdr, chains[n])
  BY DEF MainTreesAreForests
<1>1. NULL \notin chains[n]
  BY NullAssumption DEF TreeInv, TypeOK
<1>2. \A x \in DOMAIN hdr : /\ hdr[x].depth \in Nat /\ hdr[x].rank \in Nat
                            /\ hdr[x].next_rank \in Nat
  BY DEF TreeInv, TypeOK, Header
<1>3. chains[n] \subseteq DOMAIN hdr
  BY DEF TreeInv, Shape
<1>4. ASSUME NEW x \in chains[n]
      PROVE  /\ hdr[x].depth = 0 => parent[n][x] = NULL
             /\ hdr[x].depth > 0 =>
                  /\ parent[n][x] \in chains[n]
                  /\ hdr[parent[n][x]].depth = hdr[x].depth - 1
                  /\ hdr[parent[n][x]].chain_id = hdr[x].chain_id
                  /\ hdr[parent[n][x]].next_rank = hdr[x].rank
                  /\ hdr[x].rank < hdr[x].next_rank
  <2>1. CASE x \in Chain
    <3>1. hdr[x].depth = 0
      <4>1. hdr[x] = Genesis(x)
        BY <2>1 DEF TreeInv, Shape
      <4> QED
        BY <4>1 DEF Genesis
    <3>2. parent[n][x] = NULL
      BY <2>1 DEF TreeInv, WellLinked
    <3> QED
      BY <3>1, <3>2
  <2>2. CASE x \notin Chain
    <3>1. parent[n][x] = hdr[x].parent /\ parent[n][x] \in chains[n]
      BY <2>2 DEF TreeInv, WellLinked
    <3>2. /\ hdr[x].chain_id = hdr[hdr[x].parent].chain_id
          /\ hdr[x].depth = hdr[hdr[x].parent].depth + 1
          /\ hdr[hdr[x].parent].next_rank = hdr[x].rank /\ hdr[x].rank < hdr[x].next_rank
      BY <2>2, <1>3 DEF TreeInv, RankOrder
    <3>3. hdr[hdr[x].parent].depth \in Nat
      BY <3>1, <1>2, <1>3
    <3> QED
      BY <3>1, <3>2, <3>3
  <2> QED
    BY <2>1, <2>2
<1> QED
  BY <1>1, <1>2, <1>3, <1>4 DEF IsForest

\* The same in the next state.
LEMMA MainForestNext == TreeInv' => MainTreesAreForests'
<1> QED
  BY MainForest, PTL

\* A step leaves the pointers within the main trees as they are.
LEMMA PointersStay ==
  ASSUME TreeInv, TreeInv', [Next]_vars, NEW n \in Nodes
  PROVE  /\ chains[n] \subseteq chains'[n] /\ chains[n] \subseteq DOMAIN hdr
         /\ \A x \in chains[n] : hdr'[x] = hdr[x] /\ parent'[n][x] = parent[n][x]
<1>1. /\ \A x \in DOMAIN hdr : hdr'[x] = hdr[x]
      /\ chains[n] \subseteq chains'[n] /\ chains[n] \subseteq DOMAIN hdr
  BY MainTreesGrow DEF TreeInv, Shape
<1>2. ASSUME NEW x \in chains[n] PROVE parent'[n][x] = parent[n][x]
  <2>1. CASE x \in Chain
    BY <2>1 DEF TreeInv, WellLinked
  <2>2. CASE x \notin Chain
    BY <2>2, <1>1 DEF TreeInv, WellLinked
  <2> QED
    BY <2>1, <2>2
<1> QED
  BY <1>1, <1>2

\* The blocks of a walk, in the domain the walk is defined over.
LEMMA WalkInForest ==
  ASSUME NEW S, NEW par, NEW hd, IsForest(par, hd, S), NEW b \in S
  PROVE  /\ Walk(par, b) \in [Nat -> S \cup {NULL}]
         /\ Walk(par, b)[0] = b
         /\ \A k \in Nat : Walk(par, b)[k + 1] =
              IF Walk(par, b)[k] = NULL THEN NULL ELSE par[Walk(par, b)[k]]
<1> DEFINE U == S \cup {NULL}
<1>1. \A x \in U \ {NULL} : par[x] \in U
  BY DEF IsForest
<1>2. NULL \in U /\ b \in U
  OBVIOUS
<1> HIDE DEF U
<1>3. /\ Walk(par, b) \in [Nat -> U]
      /\ Walk(par, b)[0] = b
      /\ \A k \in Nat : Walk(par, b)[k + 1] =
           IF Walk(par, b)[k] = NULL THEN NULL ELSE par[Walk(par, b)[k]]
  BY <1>1, <1>2, WalkSteps
<1> QED
  BY <1>3 DEF U

\* Walks over the same pointers are the same.
LEMMA WalkSame ==
  ASSUME NEW S, NEW par, NEW hd, IsForest(par, hd, S), NEW b \in S,
         NEW S2, NEW par2, NEW hd2, IsForest(par2, hd2, S2), S \subseteq S2,
         \A x \in S : par2[x] = par[x]
  PROVE  \A k \in Nat : Walk(par2, b)[k] = Walk(par, b)[k]
<1> DEFINE w  == Walk(par, b)
           w2 == Walk(par2, b)
           P  == {k \in Nat : w2[k] = w[k]}
<1>1. /\ w \in [Nat -> S \cup {NULL}] /\ w[0] = b
      /\ \A k \in Nat : w[k + 1] = IF w[k] = NULL THEN NULL ELSE par[w[k]]
  BY WalkInForest
<1>2. /\ w2[0] = b
      /\ \A k \in Nat : w2[k + 1] = IF w2[k] = NULL THEN NULL ELSE par2[w2[k]]
  BY WalkInForest
<1> HIDE DEF w, w2
<1>3. 0 \in P
  BY <1>1, <1>2
<1>4. ASSUME NEW k \in Nat, k \in P PROVE k + 1 \in P
  <2>1. w2[k] = w[k] /\ w[k] \in S \cup {NULL}
    BY <1>1, <1>4
  <2> QED
    BY <1>1, <1>2, <2>1
<1> HIDE DEF P
<1>5. \A k \in Nat : k \in P
  BY <1>3, <1>4, InductionOverSet
<1> QED
  BY <1>5 DEF P, w, w2

\* A walk goes down one depth at a time within its chain and ends, after the
\* genesis block, with NULL.
LEMMA WalkDepths ==
  ASSUME NEW S, NEW par, NEW hd, IsForest(par, hd, S), NEW b \in S
  PROVE  \A k \in Nat :
           IF k <= hd[b].depth
           THEN /\ Walk(par, b)[k] \in S
                /\ hd[Walk(par, b)[k]].depth = hd[b].depth - k
                /\ hd[Walk(par, b)[k]].chain_id = hd[b].chain_id
           ELSE Walk(par, b)[k] = NULL
<1> DEFINE w == Walk(par, b)
           Fine(k) == IF k <= hd[b].depth
                      THEN /\ w[k] \in S
                           /\ hd[w[k]].depth = hd[b].depth - k
                           /\ hd[w[k]].chain_id = hd[b].chain_id
                      ELSE w[k] = NULL
           P == {k \in Nat : Fine(k)}
<1>1. w[0] = b /\ \A k \in Nat : w[k + 1] = IF w[k] = NULL THEN NULL ELSE par[w[k]]
  BY WalkInForest
<1>2. hd[b].depth \in Nat /\ NULL \notin S
  BY DEF IsForest
<1> HIDE DEF w
<1>3. 0 \in P
  BY <1>1, <1>2
<1>4. ASSUME NEW k \in Nat, k \in P PROVE k + 1 \in P
  <2>1. w[k + 1] = IF w[k] = NULL THEN NULL ELSE par[w[k]]
    BY <1>1
  <2>2. CASE k < hd[b].depth
    <3>1. w[k] \in S /\ hd[w[k]].depth = hd[b].depth - k
          /\ hd[w[k]].chain_id = hd[b].chain_id
      BY <1>4, <2>2, <1>2
    <3>2. hd[w[k]].depth > 0 /\ w[k] # NULL
      BY <3>1, <2>2, <1>2
    <3>3. /\ par[w[k]] \in S /\ hd[par[w[k]]].depth = hd[w[k]].depth - 1
          /\ hd[par[w[k]]].chain_id = hd[w[k]].chain_id
      BY <3>1, <3>2 DEF IsForest
    <3> QED
      BY <2>1, <2>2, <3>1, <3>2, <3>3, <1>2
  <2>3. CASE k = hd[b].depth
    <3>1. w[k] \in S /\ hd[w[k]].depth = 0
      BY <1>4, <2>3, <1>2
    <3>2. par[w[k]] = NULL
      BY <3>1 DEF IsForest
    <3> QED
      BY <2>1, <2>3, <3>2, <1>2
  <2>4. CASE k > hd[b].depth
    BY <1>4, <2>1, <2>4, <1>2
  <2> QED
    BY <2>2, <2>3, <2>4, <1>2
<1> HIDE DEF P
<1>5. \A k \in Nat : k \in P
  BY <1>3, <1>4, InductionOverSet
<1> QED
  BY <1>5 DEF P, w

\* Ranks along a walk: a block's rank is at least the next_rank of every block
\* further down.
LEMMA WalkRanks ==
  ASSUME NEW S, NEW par, NEW hd, IsForest(par, hd, S), NEW b \in S
  PROVE  \A d \in Nat : \A i \in Nat : i + d + 1 <= hd[b].depth =>
           hd[Walk(par, b)[i]].rank >= hd[Walk(par, b)[i + d + 1]].next_rank
<1> DEFINE w == Walk(par, b)
           P == {d \in Nat : \A i \in Nat : i + d + 1 <= hd[b].depth =>
                   hd[w[i]].rank >= hd[w[i + d + 1]].next_rank}
<1>1. \A k \in Nat : w[k + 1] = IF w[k] = NULL THEN NULL ELSE par[w[k]]
  BY WalkInForest
<1>2. \A k \in Nat : k <= hd[b].depth => w[k] \in S /\ hd[w[k]].depth = hd[b].depth - k
  BY WalkDepths
<1>3. hd[b].depth \in Nat
  BY DEF IsForest
<1> HIDE DEF w
<1>4. ASSUME NEW k \in Nat, k + 1 <= hd[b].depth
      PROVE  /\ hd[w[k]].rank \in Nat /\ hd[w[k]].next_rank \in Nat
             /\ hd[w[k]].rank < hd[w[k]].next_rank
             /\ hd[w[k + 1]].next_rank = hd[w[k]].rank
  <2>1. w[k] \in S /\ hd[w[k]].depth > 0 /\ w[k] # NULL
    <3>1. w[k] \in S /\ hd[w[k]].depth = hd[b].depth - k
      BY <1>2, <1>3, <1>4
    <3> QED
      BY <3>1, <1>3, <1>4 DEF IsForest
  <2>2. w[k + 1] = par[w[k]]
    BY <2>1, <1>1
  <2> QED
    BY <2>1, <2>2 DEF IsForest
<1>5. 0 \in P
  BY <1>4
<1>6. ASSUME NEW d \in Nat, d \in P PROVE d + 1 \in P
  <2> SUFFICES ASSUME NEW i \in Nat, i + (d + 1) + 1 <= hd[b].depth
               PROVE  hd[w[i]].rank >= hd[w[i + (d + 1) + 1]].next_rank
    OBVIOUS
  <2> DEFINE j == i + d + 1
  <2>1. j \in Nat /\ j <= hd[b].depth /\ j + 1 = i + (d + 1) + 1
    BY <1>3
  <2>2. hd[w[i]].rank >= hd[w[j]].next_rank
    BY <1>6, <2>1
  <2>3. /\ hd[w[j]].rank \in Nat /\ hd[w[j]].next_rank \in Nat
        /\ hd[w[j]].rank < hd[w[j]].next_rank
        /\ hd[w[j + 1]].next_rank = hd[w[j]].rank
    BY <1>4, <2>1
  <2>4. hd[w[i]].rank \in Nat
    <3>1. i + 1 <= hd[b].depth
      BY <2>1, <1>3
    <3> QED
      BY <3>1, <1>4
  <2> HIDE DEF j
  <2> QED
    BY <2>1, <2>2, <2>3, <2>4
<1> HIDE DEF P
<1>7. \A d \in Nat : d \in P
  BY <1>5, <1>6, InductionOverSet
<1> QED
  BY <1>7 DEF P, w

------------------------------------------------------------------------------
\* The bar of one block per chain is the next_rank of one of them, the least.
LEMMA BarFacts ==
  ASSUME NEW cuts, \A c \in Chain : hdr[cuts[c]].next_rank \in Nat
  PROVE  /\ Bar(cuts) \in Nat
         /\ \A c \in Chain : Bar(cuts) <= hdr[cuts[c]].next_rank
<1> DEFINE R == {hdr[cuts[c]].next_rank : c \in Chain}
<1>1. 0 \in Chain
  BY ChainsAssumption DEF Chain
<1>2. R \subseteq Nat /\ R # {}
  BY <1>1
<1>3. \E m \in R : \A k \in R : m <= k
  <2> HIDE DEF R
  <2> QED
    BY <1>2, LeastNat
<1>4. Min(R) \in R /\ \A k \in R : Min(R) <= k
  <2> HIDE DEF R
  <2> QED
    BY <1>3 DEF Min
<1> QED
  BY <1>2, <1>4 DEF Bar

\* A committed block is buried: more than T_DISCARD blocks deeper is the
\* deepest block of its chain, which only ever becomes deeper.
Buried ==
    \A n \in Nodes : \A h \in Committed(n) :
        hdr[deepest[n][hdr[h].chain_id]].depth > hdr[h].depth + T_DISCARD

\* A committed block keeps its time: an accepted body resets the times of
\* blocks without body only.
CommittedStamped == \A n \in Nodes : Committed(n) \subseteq time_commited[n]

\* The recorded cut blocks are in the main trees; the committed ones rank below.
CutBounds ==
    \A n \in Nodes : /\ \A c \in Chain : cut[n][c] \in chains[n]
                     /\ \A h \in Committed(n) : hdr[h].next_rank < Bar(cut[n])

\* The inductive invariant.
CommitInv ==
    /\ BodyInv /\ CommitTypeOK /\ CommittedStamped /\ NoDoubleCommit
    /\ CutBounds /\ Buried

\* The constructor commits nothing.
LEMMA CommitInitInv == CommitInit => CommitInv
<1> SUFFICES ASSUME CommitInit PROVE CommitInv
  OBVIOUS
<1>1. BodyInv
  BY BodyInitInv DEF CommitInit
<1>2. \A n \in Nodes : Committed(n) = {}
  <2>1. \A n \in Nodes, h \in BlockHash : commits[n][h] = 0
    BY DEF CommitInit
  <2>2. ASSUME NEW n \in Nodes, NEW h \in Committed(n) PROVE FALSE
    <3>1. h \in BlockHash /\ commits[n][h] > 0
      BY DEF Committed
    <3> QED
      BY <2>1, <3>1
  <2> QED
    BY <2>2
<1>3. CommitTypeOK
  BY <1>1, <1>2 DEF CommitInit, CommitTypeOK, BodyInv, BlockHash
<1>4. NoDoubleCommit
  BY DEF CommitInit, NoDoubleCommit
<1>5. CutBounds
  BY <1>2 DEF CommitInit, BodyInit, Init, CutBounds
<1> QED
  BY <1>1, <1>2, <1>3, <1>4, <1>5 DEF CommitInv, CommittedStamped, Buried

\* Facts about the blocks the history speaks of.
LEMMA HistoryFacts ==
  ASSUME CommitInv
  PROVE  /\ \A n \in Nodes : chains[n] \subseteq DOMAIN hdr
         /\ \A n \in Nodes : Committed(n) \subseteq chains[n]
         /\ \A x \in DOMAIN hdr : /\ hdr[x].depth \in Nat /\ hdr[x].next_rank \in Nat
                                  /\ hdr[x].chain_id \in Chain
         /\ \A n \in Nodes, c \in Chain : deepest[n][c] \in chains[n]
         /\ \A n \in Nodes : Bar(cut[n]) \in Nat
<1>1. \A n \in Nodes : chains[n] \subseteq DOMAIN hdr
  BY DEF CommitInv, BodyInv, TreeInv, Shape
<1>2. \A n \in Nodes : Committed(n) \subseteq chains[n]
  BY DEF CommitInv, CommitTypeOK, BodyInv, FullIsGrounded
<1>3. \A x \in DOMAIN hdr : /\ hdr[x].depth \in Nat /\ hdr[x].next_rank \in Nat
                            /\ hdr[x].chain_id \in Chain
  BY DEF CommitInv, BodyInv, TreeInv, TypeOK, Header
<1>4. \A n \in Nodes, c \in Chain : deepest[n][c] \in chains[n]
  BY DEF CommitInv, BodyInv, TreeInv, DeepestIsDeepest
<1>5. ASSUME NEW n \in Nodes PROVE Bar(cut[n]) \in Nat
  <2>1. \A c \in Chain : hdr[cut[n][c]].next_rank \in Nat
    BY <1>1, <1>3 DEF CommitInv, CutBounds
  <2> QED
    BY <2>1, BarFacts
<1> QED
  BY <1>1, <1>2, <1>3, <1>4, <1>5

\* A step of the trees leaves the history as true as it was: headers are not
\* changed, main trees grow and deepest blocks get deeper.
LEMMA HistoryKept ==
  ASSUME CommitInv, [Next]_vars, BodyInv', UNCHANGED history
  PROVE  CutBounds' /\ Buried' /\ NoDoubleCommit' /\ \A n \in Nodes : Committed(n)' = Committed(n)
<1>1. commits' = commits /\ cut' = cut
  BY DEF history
<1>2. \A n \in Nodes : Committed(n)' = Committed(n)
  BY <1>1 DEF Committed
<1>3. /\ \A x \in DOMAIN hdr : hdr'[x] = hdr[x]
      /\ \A n \in Nodes : chains[n] \subseteq chains'[n]
  BY MainTreesGrow DEF CommitInv, BodyInv
<1>4. CutBounds'
  <2> SUFFICES ASSUME NEW n \in Nodes
               PROVE  /\ \A c \in Chain : cut'[n][c] \in chains'[n]
                      /\ \A h \in Committed(n)' : hdr'[h].next_rank < Bar(cut[n])'
    BY DEF CutBounds
  <2>1. \A c \in Chain : cut[n][c] \in chains[n] /\ hdr'[cut[n][c]] = hdr[cut[n][c]]
    BY <1>3, HistoryFacts DEF CommitInv, CutBounds
  <2>2. Bar(cut[n])' = Bar(cut[n])
    BY <1>1, <2>1 DEF Bar
  <2>3. \A h \in Committed(n) : hdr'[h] = hdr[h] /\ hdr[h].next_rank < Bar(cut[n])
    BY <1>3, HistoryFacts DEF CommitInv, CutBounds
  <2> QED
    BY <1>1, <1>2, <1>3, <2>1, <2>2, <2>3
<1>5. Buried'
  <2> SUFFICES ASSUME NEW n \in Nodes, NEW h \in Committed(n)
               PROVE  hdr'[deepest'[n][hdr'[h].chain_id]].depth > hdr'[h].depth + T_DISCARD
    BY <1>2 DEF Buried
  <2> DEFINE c == hdr[h].chain_id
  <2>1. h \in DOMAIN hdr /\ hdr'[h] = hdr[h] /\ c \in Chain /\ hdr[h].depth \in Nat
    BY <1>3, HistoryFacts
  <2>2. hdr[deepest[n][c]].depth > hdr[h].depth + T_DISCARD
    BY DEF CommitInv, Buried
  <2>3. deepest[n][c] \in DOMAIN hdr /\ hdr[deepest[n][c]].depth \in Nat
    BY <2>1, HistoryFacts
  <2>4. /\ deepest'[n][c] \in DOMAIN hdr' /\ hdr'[deepest'[n][c]].depth \in Nat
    BY <2>1 DEF BodyInv, TreeInv, DeepestIsDeepest, Shape, TypeOK, Header
  <2>5. CASE deepest'[n][c] = deepest[n][c]
    BY <2>1, <2>2, <2>3, <2>5, <1>3
  <2>6. CASE deepest'[n][c] # deepest[n][c]
    <3>1. hdr'[deepest'[n][c]].depth > hdr[deepest[n][c]].depth
      BY <2>1, <2>6, DeepestGrows DEF CommitInv, BodyInv
    <3> QED
      BY <2>1, <2>2, <2>3, <2>4, <3>1, DiscardAssumption
  <2> QED
    BY <2>5, <2>6
<1>6. NoDoubleCommit'
  BY <1>1 DEF CommitInv, NoDoubleCommit
<1> QED
  BY <1>2, <1>4, <1>5, <1>6

\* Mining, receiving a header, asking for missing roots.
LEMMA TreeStepInv ==
  ASSUME CommitInv, [Next]_vars, BodyInv', \A n \in Nodes : is_full[n] \subseteq is_full'[n],
         UNCHANGED <<time_commited, history>>
  PROVE  CommitInv'
<1>1. /\ CutBounds' /\ Buried' /\ NoDoubleCommit'
      /\ \A n \in Nodes : Committed(n)' = Committed(n)
  BY HistoryKept
<1>2. CommitTypeOK'
  BY <1>1 DEF CommitInv, CommitTypeOK, BodyInv, history
<1> QED
  BY <1>1, <1>2 DEF CommitInv, CommittedStamped

\* An accepted body resets the times of a block that was not full, and so was
\* never committed.
LEMMA TakeBodyInv ==
  ASSUME CommitInv, NEW n \in Nodes, NEW h \in Hashes, TakeBody(n, h)
  PROVE  CommitInv'
<1>1. /\ ReceiveBody(n, h) /\ UNCHANGED history
      /\ time_commited' = [time_commited EXCEPT ![n] = @ \ {h}]
  BY DEF TakeBody
<1>2. BodyInv'
  BY <1>1, ReceiveBodyInv DEF CommitInv
<1>3. /\ h \notin is_full[n] /\ UNCHANGED vars
      /\ is_full' = [is_full EXCEPT ![n] = @ \cup {h}]
  BY <1>1 DEF ReceiveBody, BodyWanted, HaveFull
<1>4. /\ CutBounds' /\ Buried' /\ NoDoubleCommit'
      /\ \A m \in Nodes : Committed(m)' = Committed(m)
  BY <1>1, <1>2, <1>3, HistoryKept
<1>5. \A m \in Nodes : /\ is_full[m] \subseteq is_full'[m]
                       /\ time_commited'[m] \subseteq time_commited[m]
  BY <1>1, <1>3 DEF CommitInv, CommitTypeOK
<1>6. h \notin Committed(n)
  BY <1>3 DEF CommitInv, CommitTypeOK
<1>7. CommitTypeOK'
  BY <1>1, <1>2, <1>4, <1>5 DEF CommitInv, CommitTypeOK, BodyInv, history
<1>8. CommittedStamped'
  BY <1>1, <1>4, <1>6 DEF CommitInv, CommitTypeOK, CommittedStamped
<1> QED
  BY <1>2, <1>4, <1>7, <1>8 DEF CommitInv

\* With a bar, the cut block of every chain is T_DISCARD blocks below its
\* deepest block.
LEMMA CutFacts ==
  ASSUME CommitInv, NEW n \in Nodes, HasBar(n), NEW c \in Chain
  PROVE  /\ CutBlock(n, c) \in chains[n]
         /\ hdr[CutBlock(n, c)].chain_id = c
         /\ hdr[CutBlock(n, c)].depth + T_DISCARD = hdr[deepest[n][c]].depth
<1> DEFINE b == deepest[n][c]
<1>1. IsForest(parent[n], hdr, chains[n])
  BY MainForest DEF CommitInv, BodyInv, MainTreesAreForests
<1>2. b \in chains[n] /\ hdr[b].chain_id = c /\ hdr[b].depth \in Nat
  BY <1>1 DEF CommitInv, BodyInv, TreeInv, DeepestIsDeepest, IsForest
<1>3. CutBlock(n, c) = Walk(parent[n], b)[T_DISCARD] /\ CutBlock(n, c) # NULL
  BY DEF CutBlock, Up, HasBar
<1> HIDE DEF b
<1>4. IF T_DISCARD <= hdr[b].depth
      THEN /\ CutBlock(n, c) \in chains[n]
           /\ hdr[CutBlock(n, c)].depth = hdr[b].depth - T_DISCARD
           /\ hdr[CutBlock(n, c)].chain_id = hdr[b].chain_id
      ELSE CutBlock(n, c) = NULL
  BY <1>1, <1>2, <1>3, WalkDepths, DiscardAssumption
<1> QED
  BY <1>2, <1>3, <1>4, DiscardAssumption DEF b

\* What a pass commits: full blocks it has not committed before, that rank
\* below the bar and are below the cut block of their chain.
LEMMA BatchFacts ==
  ASSUME CommitInv, NEW n \in Nodes, NEW early, NEW h \in Batch(n, early)
  PROVE  /\ HasBar(n)
         /\ h \in is_full[n] /\ h \notin time_commited[n]
         /\ hdr[h].next_rank < ConfirmBar(n)
         /\ hdr[deepest[n][hdr[h].chain_id]].depth > hdr[h].depth + T_DISCARD
<1>1. /\ HasBar(n) /\ Ready(n, h, early)
      /\ \E c \in Chain : h \in Behind(n, c)
  BY DEF Batch
<1>2. /\ h \in is_full[n] /\ h \notin time_commited[n]
      /\ hdr[h].next_rank < ConfirmBar(n)
  BY <1>1 DEF Ready, BelowBar
<1>3. PICK c \in Chain : h \in Behind(n, c)
  BY <1>1
<1> DEFINE t == CutBlock(n, c)
<1>4. /\ t \in chains[n] /\ hdr[t].chain_id = c
      /\ hdr[t].depth + T_DISCARD = hdr[deepest[n][c]].depth
  BY <1>1, CutFacts
<1>5. IsForest(parent[n], hdr, chains[n])
  BY MainForest DEF CommitInv, BodyInv, MainTreesAreForests
<1>6. hdr[t].depth \in Nat /\ hdr[t].next_rank \in Nat
  BY <1>4, <1>5 DEF IsForest
<1>7. PICK k \in 0 .. hdr[t].depth : h = Walk(parent[n], t)[k]
  BY <1>3 DEF Behind, Path, Up
<1> HIDE DEF t
<1>8. hdr[h].depth = hdr[t].depth - k /\ hdr[h].chain_id = hdr[t].chain_id
  BY <1>4, <1>5, <1>6, <1>7, WalkDepths
<1>9. k # 0
  <2> SUFFICES ASSUME k = 0 PROVE FALSE
    OBVIOUS
  <2>1. h = t
    BY <1>4, <1>5, <1>7, WalkInForest
  <2>2. ConfirmBar(n) \in Nat /\ ConfirmBar(n) <= hdr[t].next_rank
    <3> DEFINE cuts == [e \in Chain |-> CutBlock(n, e)]
    <3>1. \A e \in Chain : cuts[e] = CutBlock(n, e) /\ hdr[cuts[e]].next_rank \in Nat
      BY <1>1, <1>5, CutFacts DEF IsForest
    <3> HIDE DEF cuts
    <3>2. Bar(cuts) \in Nat /\ Bar(cuts) <= hdr[cuts[c]].next_rank
      BY <3>1, BarFacts
    <3>3. ConfirmBar(n) = Bar(cuts)
      BY DEF ConfirmBar, cuts
    <3> QED
      BY <3>1, <3>2, <3>3 DEF t
  <2> QED
    BY <1>2, <1>6, <2>1, <2>2
<1>10. hdr[deepest[n][c]].depth > hdr[h].depth + T_DISCARD
  <2> DEFINE dt == hdr[t].depth
             dh == hdr[h].depth
             dd == hdr[deepest[n][c]].depth
  <2>1. dt \in Nat /\ k \in Nat /\ k # 0 /\ dh = dt - k /\ dt + T_DISCARD = dd
    BY <1>4, <1>6, <1>8, <1>9
  <2> HIDE DEF dt, dh, dd
  <2>2. dd > dh + T_DISCARD
    BY <2>1, DiscardAssumption
  <2> QED
    BY <2>2 DEF dd, dh
<1> QED
  BY <1>1, <1>2, <1>4, <1>8, <1>10

\* One pass of update_blocks_commited_time.
LEMMA UpdateInv ==
  ASSUME CommitInv, NEW n \in Nodes, NEW early, UpdateBlocksCommitedTime(n, early)
  PROVE  CommitInv'
<1> DEFINE batch == Batch(n, early)
           cuts  == [c \in Chain |-> CutBlock(n, c)]
<1>1. /\ time_commited' = [time_commited EXCEPT ![n] = @ \cup batch]
      /\ commits' = [commits EXCEPT ![n] =
                       [h \in BlockHash |-> IF h \in batch THEN @[h] + 1 ELSE @[h]]]
      /\ cut' = [cut EXCEPT ![n] = IF HasBar(n) /\ Bar(cuts) >= Bar(@) THEN cuts ELSE @]
      /\ UNCHANGED bodyVars
  BY DEF UpdateBlocksCommitedTime
<1>2. /\ hdr' = hdr /\ chains' = chains /\ deepest' = deepest /\ is_full' = is_full
      /\ [Next]_vars
  BY <1>1 DEF bodyVars, vars, nodeVars
<1>3. BodyInv'
  BY <1>2, SameBodiesInv DEF CommitInv
<1>4. \A h \in batch : /\ HasBar(n) /\ h \in is_full[n] /\ h \notin time_commited[n]
                       /\ h \in BlockHash /\ hdr[h].next_rank < Bar(cuts)
                       /\ hdr[deepest[n][hdr[h].chain_id]].depth > hdr[h].depth + T_DISCARD
  BY BatchFacts DEF ConfirmBar, CommitInv, CommitTypeOK
<1>5. HasBar(n) => /\ Bar(cuts) \in Nat /\ \A c \in Chain : cuts[c] \in chains[n]
                   /\ cuts \in [Chain -> BlockHash]
  <2> SUFFICES ASSUME HasBar(n)
               PROVE  /\ Bar(cuts) \in Nat /\ \A c \in Chain : cuts[c] \in chains[n]
                      /\ cuts \in [Chain -> BlockHash]
    OBVIOUS
  <2>1. \A c \in Chain : cuts[c] = CutBlock(n, c) /\ cuts[c] \in chains[n]
    BY CutFacts
  <2>2. \A c \in Chain : hdr[cuts[c]].next_rank \in Nat
    BY <2>1, HistoryFacts
  <2>3. cuts \in [Chain -> BlockHash]
    BY <2>1 DEF CommitInv, BodyInv, TreeInv, TypeOK
  <2> HIDE DEF cuts
  <2> QED
    BY <2>1, <2>2, <2>3, BarFacts
<1>6. batch \subseteq BlockHash
  BY <1>4
<1> HIDE DEF batch, cuts
<1>7. \A m \in Nodes, h \in BlockHash :
        commits'[m][h] = IF m = n /\ h \in batch THEN commits[m][h] + 1 ELSE commits[m][h]
  BY <1>1 DEF CommitInv, CommitTypeOK
<1>8. \A m \in Nodes : Committed(m)' = IF m = n THEN Committed(m) \cup batch ELSE Committed(m)
  <2>1. \A m \in Nodes, h \in BlockHash : commits[m][h] \in Nat
    BY DEF CommitInv, CommitTypeOK
  <2> QED
    BY <1>6, <1>7, <2>1 DEF Committed
<1>9. CommitTypeOK'
  <2>1. time_commited' \in [Nodes -> SUBSET BlockHash]
    BY <1>1, <1>6 DEF CommitInv, CommitTypeOK
  <2>2. commits' \in [Nodes -> [BlockHash -> Nat]]
    BY <1>1 DEF CommitInv, CommitTypeOK
  <2>3. cut' \in [Nodes -> [Chain -> BlockHash]]
    BY <1>1, <1>5 DEF CommitInv, CommitTypeOK
  <2>4. \A m \in Nodes : time_commited'[m] \cup Committed(m)' \subseteq is_full'[m]
    BY <1>1, <1>2, <1>4, <1>8 DEF CommitInv, CommitTypeOK
  <2> QED
    BY <1>3, <2>1, <2>2, <2>3, <2>4 DEF CommitTypeOK, BodyInv
<1>10. CommittedStamped'
  BY <1>1, <1>8 DEF CommitInv, CommitTypeOK, CommittedStamped
<1>11. NoDoubleCommit'
  <2> SUFFICES ASSUME NEW m \in Nodes, NEW h \in BlockHash PROVE commits'[m][h] <= 1
    BY DEF NoDoubleCommit
  <2>1. commits[m][h] \in Nat /\ commits[m][h] <= 1
    BY DEF CommitInv, CommitTypeOK, NoDoubleCommit
  <2>2. m = n /\ h \in batch => commits[m][h] = 0
    BY <1>4, <2>1 DEF CommitInv, CommittedStamped, Committed
  <2> QED
    BY <1>7, <2>1, <2>2
<1>12. Buried'
  BY <1>2, <1>4, <1>8 DEF CommitInv, Buried
<1>13. CutBounds'
  <2> SUFFICES ASSUME NEW m \in Nodes
               PROVE  /\ \A c \in Chain : cut'[m][c] \in chains'[m]
                      /\ \A h \in Committed(m)' : hdr'[h].next_rank < Bar(cut[m])'
    BY DEF CutBounds
  <2>1. Bar(cut[m])' = Bar(cut'[m])
    BY <1>2 DEF Bar
  <2>2. /\ \A c \in Chain : cut[m][c] \in chains[m]
        /\ \A h \in Committed(m) : hdr[h].next_rank < Bar(cut[m])
        /\ Bar(cut[m]) \in Nat
        /\ \A h \in Committed(m) : hdr[h].next_rank \in Nat
    BY HistoryFacts DEF CommitInv, CutBounds
  <2>3. CASE m # n
    <3>1. cut'[m] = cut[m]
      BY <1>1, <2>3 DEF CommitInv, CommitTypeOK
    <3> QED
      BY <1>2, <1>8, <2>1, <2>2, <2>3, <3>1
  <2>4. CASE m = n
    <3>1. cut'[n] = IF HasBar(n) /\ Bar(cuts) >= Bar(cut[n]) THEN cuts ELSE cut[n]
      BY <1>1 DEF CommitInv, CommitTypeOK
    <3>2. \A h \in batch : hdr[h].next_rank \in Nat
      BY <1>4, HistoryFacts DEF CommitInv, BodyInv, FullIsGrounded
    <3>3. CASE HasBar(n) /\ Bar(cuts) >= Bar(cut[n])
      BY <1>2, <1>4, <1>5, <1>8, <2>1, <2>2, <2>4, <3>1, <3>3
    <3>4. CASE ~(HasBar(n) /\ Bar(cuts) >= Bar(cut[n]))
      BY <1>2, <1>4, <1>5, <1>8, <2>1, <2>2, <2>4, <3>1, <3>2, <3>4
    <3> QED
      BY <3>3, <3>4
  <2> QED
    BY <2>3, <2>4
<1> QED
  BY <1>3, <1>9, <1>10, <1>11, <1>12, <1>13 DEF CommitInv

\* Every step keeps the invariant.
LEMMA CommitNextInv == CommitInv /\ [CommitNext]_commitVars => CommitInv'
<1> SUFFICES ASSUME CommitInv, [CommitNext]_commitVars PROVE CommitInv'
  OBVIOUS
<1>1. ASSUME NEW n \in Nodes, NEW h \in Hashes, NEW c \in Chain,
             MineFullBlock(n, h, c), UNCHANGED <<time_commited, history>>
      PROVE  CommitInv'
  <2>1. Next /\ BodyInv'
    BY <1>1, MineFullBlockInv DEF CommitInv, MineFullBlock, Next
  <2>2. \A m \in Nodes : is_full[m] \subseteq is_full'[m]
    BY <1>1 DEF MineFullBlock, CommitInv, BodyInv
  <2> QED
    BY <1>1, <2>1, <2>2, TreeStepInv
<1>2. ASSUME NEW n \in Nodes, NEW h \in DOMAIN hdr,
             ProcessBlock(n, h), UNCHANGED <<time_commited, history>>
      PROVE  CommitInv'
  <2>1. Next /\ is_full' = is_full
    BY <1>2 DEF ProcessBlock, Next
  <2>2. BodyInv'
    BY <2>1, SameBodiesInv DEF CommitInv
  <2> QED
    BY <1>2, <2>1, <2>2, TreeStepInv
<1>3. ASSUME NEW n \in Nodes, NEW due \in SUBSET inchains[n],
             AskIncomplete(n, due), UNCHANGED <<time_commited, history>>
      PROVE  CommitInv'
  <2>1. Next /\ is_full' = is_full
    BY <1>3 DEF AskIncomplete, Next
  <2>2. BodyInv'
    BY <2>1, SameBodiesInv DEF CommitInv
  <2> QED
    BY <1>3, <2>1, <2>2, TreeStepInv
<1>4. ASSUME NEW n \in Nodes, NEW h \in Hashes, TakeBody(n, h)
      PROVE  CommitInv'
  BY <1>4, TakeBodyInv
<1>5. ASSUME NEW n \in Nodes, NEW early, UpdateBlocksCommitedTime(n, early)
      PROVE  CommitInv'
  BY <1>5, UpdateInv
<1>6. CASE UNCHANGED commitVars
  <2>1. [Next]_vars /\ is_full' = is_full /\ UNCHANGED <<time_commited, history>>
    BY <1>6 DEF commitVars, bodyVars
  <2>2. BodyInv'
    BY <2>1, SameBodiesInv DEF CommitInv
  <2> QED
    BY <2>1, <2>2, TreeStepInv
<1> QED
  BY <1>1, <1>2, <1>3, <1>4, <1>5, <1>6 DEF CommitNext

\* The invariant of the commit rule.
LEMMA CommitSafety == CommitSpec => []CommitInv
<1> QED
  BY CommitInitInv, CommitNextInv, PTL DEF CommitSpec

\* commit_block is only called for blocks whose body is stored
\* (update_blocks_commited_time, #full_block).
THEOREM CommitTypes == CommitSpec => []CommitTypeOK
<1>1. CommitInv => CommitTypeOK
  BY DEF CommitInv
<1> QED
  BY <1>1, CommitSafety, PTL

\* commit_block is called at most once for a block, although #full_block resets
\* time_commited and branches are left and taken up again.
THEOREM CommitOnce == CommitSpec => []NoDoubleCommit
<1>1. CommitInv => NoDoubleCommit
  BY DEF CommitInv
<1> QED
  BY <1>1, CommitSafety, PTL

\* Every committed block ranks below the highest bar so far, and while a node
\* builds on the blocks of that bar no block above them ranks below it: the
\* order of the committed blocks is final (update_blocks_commited_time with
\* the ranks mine_new_block gives).
THEOREM CommitFinal == CommitSpec => []NothingRanksBelowTheBar
<1>1. CommitInv => NothingRanksBelowTheBar
  <2> SUFFICES ASSUME CommitInv, NEW n \in Nodes,
                      \A c \in Chain : cut[n][c] \in MainPath(n, c),
                      NEW c \in Chain, NEW h \in MainPath(n, c),
                      hdr[h].depth > hdr[cut[n][c]].depth
               PROVE  hdr[h].rank >= Bar(cut[n])
    BY DEF NothingRanksBelowTheBar, CommitInv, CutBounds
  <2> DEFINE b == deepest[n][c]
             t == cut[n][c]
  <2>1. IsForest(parent[n], hdr, chains[n])
    BY MainForest DEF CommitInv, BodyInv, MainTreesAreForests
  <2>2. b \in chains[n] /\ hdr[b].depth \in Nat
    BY <2>1, HistoryFacts DEF IsForest
  <2>3. PICK i \in 0 .. hdr[b].depth : h = Walk(parent[n], b)[i]
    BY DEF MainPath, Path, Up
  <2>4. PICK j \in 0 .. hdr[b].depth : t = Walk(parent[n], b)[j]
    BY DEF MainPath, Path, Up
  <2> HIDE DEF b, t
  <2>5. hdr[h].depth = hdr[b].depth - i /\ hdr[t].depth = hdr[b].depth - j /\ h \in chains[n]
    BY <2>1, <2>2, <2>3, <2>4, WalkDepths
  <2>6. i < j
    <3> DEFINE dh == hdr[h].depth
               dt == hdr[t].depth
    <3>1. dh > dt /\ dh = hdr[b].depth - i /\ dt = hdr[b].depth - j
      BY <2>5 DEF t
    <3> HIDE DEF dh, dt
    <3> QED
      BY <3>1, <2>2
  <2>7. hdr[h].rank >= hdr[t].next_rank
    <3> DEFINE d == j - i - 1
    <3>1. d \in Nat /\ i \in Nat /\ i + d + 1 = j /\ i + d + 1 <= hdr[b].depth
      BY <2>2, <2>6
    <3> HIDE DEF d
    <3>2. hdr[Walk(parent[n], b)[i]].rank >= hdr[Walk(parent[n], b)[i + d + 1]].next_rank
      BY <2>1, <2>2, <3>1, WalkRanks
    <3> QED
      BY <3>1, <3>2, <2>3, <2>4
  <2>8. Bar(cut[n]) \in Nat /\ Bar(cut[n]) <= hdr[t].next_rank /\ hdr[t].next_rank \in Nat
    <3>1. \A e \in Chain : hdr[cut[n][e]].next_rank \in Nat
      BY HistoryFacts DEF CommitInv, CutBounds
    <3> QED
      BY <3>1, BarFacts DEF t
  <2>9. hdr[h].rank \in Nat
    BY <2>1, <2>5 DEF IsForest
  <2> QED
    BY <2>7, <2>8, <2>9
<1> QED
  BY <1>1, CommitSafety, PTL

------------------------------------------------------------------------------
\* The blocks of a walk down to the genesis block.
WalkSet(par, hd, b) == {Walk(par, b)[k] : k \in 0 .. hd[b].depth}

\* They are closed under the parent pointers.
LEMMA WalkSetClosed ==
  ASSUME NEW S, NEW par, NEW hd, IsForest(par, hd, S), NEW b \in S,
         NEW x \in WalkSet(par, hd, b), hd[x].depth > 0
  PROVE  par[x] \in WalkSet(par, hd, b)
<1> DEFINE w == Walk(par, b)
<1>1. hd[b].depth \in Nat /\ NULL \notin S
  BY DEF IsForest
<1>2. PICK k \in 0 .. hd[b].depth : x = w[k]
  BY DEF WalkSet
<1>3. w[k] \in S /\ hd[w[k]].depth = hd[b].depth - k
  BY <1>1, WalkDepths
<1>4. k + 1 \in 0 .. hd[b].depth /\ x # NULL
  BY <1>1, <1>2, <1>3
<1>5. w[k + 1] = par[x]
  <2>1. w[k + 1] = IF w[k] = NULL THEN NULL ELSE par[w[k]]
    BY WalkInForest
  <2> QED
    BY <2>1, <1>2, <1>4
<1> HIDE DEF w
<1> QED
  BY <1>4, <1>5 DEF WalkSet, w

\* Two walks over trees with the same pointers meet at most once: from a common
\* block on, the first one stays within the second.
LEMMA WalksMerge ==
  ASSUME NEW S, NEW par, NEW hd, IsForest(par, hd, S), NEW b \in S,
         NEW S2, NEW par2, NEW hd2, IsForest(par2, hd2, S2), NEW b2 \in S2,
         \A x \in S : hd2[x] = hd[x] /\ par2[x] = par[x],
         NEW i \in Nat, NEW j \in Nat, i <= j, j <= hd[b].depth,
         Walk(par, b)[i] \in WalkSet(par2, hd2, b2)
  PROVE  Walk(par, b)[j] \in WalkSet(par2, hd2, b2)
<1> DEFINE w == Walk(par, b)
           W == WalkSet(par2, hd2, b2)
           P == {d \in Nat : i + d <= hd[b].depth => w[i + d] \in W}
<1>1. hd[b].depth \in Nat /\ NULL \notin S
  BY DEF IsForest
<1>2. \A k \in Nat : k <= hd[b].depth => w[k] \in S /\ hd[w[k]].depth = hd[b].depth - k
  BY WalkDepths
<1>3. \A k \in Nat : w[k + 1] = IF w[k] = NULL THEN NULL ELSE par[w[k]]
  BY WalkInForest
<1>4. \A x \in W : hd2[x].depth > 0 => par2[x] \in W
  BY WalkSetClosed
<1> HIDE DEF w, W
<1>5. 0 \in P
  BY DEF w, W
<1>6. ASSUME NEW d \in Nat, d \in P PROVE d + 1 \in P
  <2> SUFFICES ASSUME i + (d + 1) <= hd[b].depth PROVE w[i + (d + 1)] \in W
    OBVIOUS
  <2>1. i + d \in Nat /\ i + d < hd[b].depth /\ (i + d) + 1 = i + (d + 1)
    BY <1>1
  <2>2. w[i + d] \in S /\ hd[w[i + d]].depth = hd[b].depth - (i + d) /\ w[i + d] \in W
    BY <1>1, <1>2, <1>6, <2>1
  <2>3. hd2[w[i + d]].depth > 0 /\ par2[w[i + d]] = par[w[i + d]] /\ w[i + d] # NULL
    BY <1>1, <2>1, <2>2
  <2>4. w[(i + d) + 1] = par[w[i + d]]
    BY <1>3, <2>1, <2>3
  <2> QED
    BY <1>4, <2>1, <2>2, <2>3, <2>4
<1> HIDE DEF P
<1>7. \A d \in Nat : d \in P
  BY <1>5, <1>6, InductionOverSet
<1>8. j - i \in Nat /\ i + (j - i) = j
  OBVIOUS
<1> QED
  BY <1>7, <1>8 DEF P, w, W

\* A committed block leaves the branch a node builds on only together with at
\* least T_DISCARD + 1 blocks on top of it (update_blocks_commited_time,
\* add_received_block).
THEOREM ForkSafety == CommitSpec => ShallowForkKeepsCommits
<1> DEFINE Keeps == \A n \in Nodes, c \in Chain :
         LET abandoned == MainPath(n, c) \ MainPath(n, c)'
         IN  abandoned \cap Committed(n) # {} =>
               Cardinality(abandoned) > T_DISCARD + 1
<1>1. CommitInv /\ CommitInv' /\ [CommitNext]_commitVars => Keeps
  <2> SUFFICES ASSUME CommitInv, CommitInv', [CommitNext]_commitVars,
                      NEW n \in Nodes, NEW c \in Chain,
                      NEW h \in MainPath(n, c) \ MainPath(n, c)', h \in Committed(n)
               PROVE  Cardinality(MainPath(n, c) \ MainPath(n, c)') > T_DISCARD + 1
    OBVIOUS
  <2> DEFINE A  == MainPath(n, c) \ MainPath(n, c)'
             b  == deepest[n][c]
             b2 == deepest'[n][c]
             w  == Walk(parent[n], b)
             D  == hdr[b].depth
  <2>1. /\ MainPath(n, c)  = WalkSet(parent[n], hdr, b)
        /\ MainPath(n, c)' = WalkSet(parent'[n], hdr', b2)
    BY DEF MainPath, Path, Up, WalkSet
  <2>2. IsForest(parent[n], hdr, chains[n]) /\ b \in chains[n]
    BY MainForest, HistoryFacts DEF CommitInv, BodyInv, MainTreesAreForests
  <2>3. IsForest(parent'[n], hdr', chains'[n]) /\ b2 \in chains'[n]
    BY MainForestNext DEF CommitInv, BodyInv, MainTreesAreForests, TreeInv, DeepestIsDeepest
  <2>4. \A x \in chains[n] : hdr'[x] = hdr[x] /\ parent'[n][x] = parent[n][x]
    <3>1. [Next]_vars
      BY DEF CommitNext, commitVars, bodyVars, MineFullBlock, ProcessBlock, AskIncomplete,
             TakeBody, ReceiveBody, UpdateBlocksCommitedTime, Next
    <3> QED
      BY <3>1, PointersStay DEF CommitInv, BodyInv
  <2>5. D \in Nat
    BY <2>2 DEF IsForest
  <2>6. PICK k0 \in 0 .. D : h = w[k0]
    BY <2>1 DEF WalkSet
  <2>7. \A k \in 0 .. D : /\ w[k] \in chains[n] /\ hdr[w[k]].depth = D - k
                          /\ hdr[w[k]].chain_id = hdr[b].chain_id
    BY <2>2, <2>5, WalkDepths
  <2>8. k0 > T_DISCARD
    <3>1. hdr[h].chain_id = c /\ hdr[h].depth = D - k0
      BY <2>6, <2>7 DEF CommitInv, BodyInv, TreeInv, DeepestIsDeepest
    <3>2. D > hdr[h].depth + T_DISCARD
      BY <3>1 DEF CommitInv, Buried
    <3> HIDE DEF D
    <3> QED
      BY <3>1, <3>2, <2>5, DiscardAssumption
  <2>9. ASSUME NEW k \in 0 .. k0 PROVE w[k] \in A
    <3>1. k \in Nat /\ k0 \in Nat /\ k <= k0 /\ k0 <= D /\ k \in 0 .. D
      BY <2>5
    <3>2. w[k] \in WalkSet(parent[n], hdr, b)
      BY <3>1 DEF WalkSet
    <3>3. w[k0] \notin WalkSet(parent'[n], hdr', b2)
      BY <2>1, <2>6
    <3>4. w[k] \notin WalkSet(parent'[n], hdr', b2)
      BY <2>2, <2>3, <2>4, <3>1, <3>3, WalksMerge
    <3> QED
      BY <2>1, <3>2, <3>4
  <2>10. IsFiniteSet(A) /\ Cardinality(A) \in Nat
    <3> DEFINE f == [k \in 0 .. D |-> w[k]]
    <3>1. f \in Surjection(0 .. D, MainPath(n, c))
      BY <2>1 DEF Surjection, WalkSet
    <3>2. IsFiniteSet(0 .. D)
      BY <2>5, FS_Interval
    <3>3. IsFiniteSet(MainPath(n, c))
      BY <3>1, <3>2, FS_Surjection
    <3> QED
      BY <3>3, FS_Subset, FS_CardinalityType
  <2>11. k0 + 1 <= Cardinality(A)
    <3> DEFINE f == [k \in 0 .. k0 |-> w[k]]
    <3>1. f \in Injection(0 .. k0, A)
      <4>1. f \in [0 .. k0 -> A]
        BY <2>9
      <4>2. ASSUME NEW k \in 0 .. k0, NEW m \in 0 .. k0, f[k] = f[m] PROVE k = m
        <5>1. k \in 0 .. D /\ m \in 0 .. D /\ w[k] = w[m]
          BY <4>2, <2>5
        <5>2. D - k = D - m
          BY <5>1, <2>7
        <5> HIDE DEF D
        <5> QED
          BY <5>1, <5>2, <2>5
      <4> QED
        BY <4>1, <4>2 DEF Injection, IsInjective
    <3>2. Cardinality(0 .. k0) = k0 + 1
      <4>1. k0 \in Int /\ 0 \in Int /\ ~(0 > k0)
        BY <2>5
      <4>2. Cardinality(0 .. k0) = k0 - 0 + 1
        BY <4>1, FS_Interval
      <4> QED
        BY <4>1, <4>2
    <3> QED
      BY <3>1, <3>2, <2>10, FS_Injection
  <2> QED
    BY <2>8, <2>10, <2>11, DiscardAssumption, <2>5
<1>2. CommitInv /\ [CommitNext]_commitVars => CommitInv'
  BY CommitNextInv
<1> QED
  BY <1>1, <1>2, CommitSafety, PTL DEF CommitSpec, ShallowForkKeepsCommits

------------------------------------------------------------------------------
\* Logs of any length.
Logs == Seq([depth : Nat, hash : BlockHash])

\* maxd of run_network, without Max.
LEMMA StoredDepthIs ==
  ASSUME TreeInv, NEW n \in Nodes
  PROVE  LET top == hdr[deepest[n][0]].depth IN
         /\ top \in Nat /\ 0 \in Chain
         /\ StoredDepth(n) = IF top >= STORE_HASH_MINUS THEN top - STORE_HASH_MINUS ELSE 0
         /\ StoredDepth(n) \in Nat /\ StoredDepth(n) <= top
<1> DEFINE top == hdr[deepest[n][0]].depth
           a == top - STORE_HASH_MINUS
<1>1. 0 \in Chain
  BY ChainsAssumption DEF Chain
<1>2. top \in Nat
  BY <1>1 DEF TreeInv, TypeOK, DeepestIsDeepest, Shape, Header
<1>3. STORE_HASH_MINUS \in Nat
  BY StoreAssumption
<1> HIDE DEF top
<1>4. a \in Int /\ (a >= 0 <=> top >= STORE_HASH_MINUS) /\ a <= top
  BY <1>2, <1>3
<1> HIDE DEF a
<1>5. Max({0, a}) = IF a >= 0 THEN a ELSE 0
  <2>1. CASE a >= 0
    <3>1. \A x : (x \in {0, a} /\ \A y \in {0, a} : x >= y) <=> x = a
      BY <2>1, <1>4
    <3> QED
      BY <3>1, <2>1 DEF Max
  <2>2. CASE ~(a >= 0)
    <3>1. \A x : (x \in {0, a} /\ \A y \in {0, a} : x >= y) <=> x = 0
      BY <2>2, <1>4
    <3> QED
      BY <3>1, <2>2 DEF Max
  <2> QED
    BY <2>1, <2>2
<1>6. StoredDepth(n) = Max({0, a})
  BY DEF StoredDepth, a, top
<1>7. StoredDepth(n) = IF top >= STORE_HASH_MINUS THEN top - STORE_HASH_MINUS ELSE 0
  BY <1>4, <1>5, <1>6 DEF a
<1> QED
  BY <1>1, <1>2, <1>3, <1>7 DEF top

\* The same as a state predicate, now and in the next state.
StoredDepths == \A n \in Nodes :
    LET top == hdr[deepest[n][0]].depth IN
    /\ top \in Nat /\ StoredDepth(n) \in Nat
    /\ StoredDepth(n) = IF top >= STORE_HASH_MINUS THEN top - STORE_HASH_MINUS ELSE 0

\* It holds in every state the trees can be in.
LEMMA StoredDepthsNow == TreeInv => StoredDepths
<1> QED
  BY StoredDepthIs DEF StoredDepths

\* The same in the next state.
LEMMA StoredDepthsNext == TreeInv' => StoredDepths'
<1> QED
  BY StoredDepthsNow, PTL

\* The block at depth 0 of chain 0 is its genesis block.
LEMMA GenesisIsFirst ==
  ASSUME TreeInv, NEW x \in DOMAIN hdr, hdr[x].depth = 0, hdr[x].chain_id = 0
  PROVE  x = 0
<1>1. CASE x \in Chain
  <2>1. hdr[x] = Genesis(x)
    BY <1>1 DEF TreeInv, Shape
  <2> QED
    BY <2>1 DEF Genesis
<1>2. CASE x \notin Chain
  <2>1. hdr[x].parent \in DOMAIN hdr /\ hdr[x].depth = hdr[hdr[x].parent].depth + 1
    BY <1>2 DEF TreeInv, RankOrder
  <2>2. hdr[hdr[x].parent].depth \in Nat
    BY <2>1 DEF TreeInv, TypeOK, Header
  <2> QED
    BY <2>1, <2>2
<1> QED
  BY <1>1, <1>2

\* A block that some branch has overgrown stays overgrown.
LEMMA OvergrownKept ==
  ASSUME TreeInv, TreeInv', [Next]_vars, NEW h \in DOMAIN hdr, Overgrown(h)
  PROVE  Overgrown(h)'
<1> DEFINE d == hdr[h].depth
<1> PICK n \in Nodes : \E x \in chains[n] :
         /\ hdr[x].chain_id = 0
         /\ hdr[x].depth >= d + STORE_HASH_MINUS
         /\ AncestorAt(n, x, d) = h
  BY DEF Overgrown
<1>1. PICK x \in chains[n] :
         /\ hdr[x].chain_id = 0
         /\ hdr[x].depth >= d + STORE_HASH_MINUS
         /\ AncestorAt(n, x, d) = h
  OBVIOUS
<1>2. /\ chains[n] \subseteq chains'[n]
      /\ \A y \in chains[n] : hdr'[y] = hdr[y] /\ parent'[n][y] = parent[n][y]
  BY PointersStay
<1>3. hdr'[h] = hdr[h]
  BY MainTreesGrow
<1>4. IsForest(parent[n], hdr, chains[n]) /\ IsForest(parent'[n], hdr', chains'[n])
  BY MainForest, MainForestNext DEF MainTreesAreForests
<1>5. \A k \in Nat : Walk(parent'[n], x)[k] = Walk(parent[n], x)[k]
  BY <1>2, <1>4, WalkSame
<1>6. hdr[x].depth \in Nat /\ d \in Nat
  <2>1. x \in DOMAIN hdr
    BY DEF TreeInv, Shape
  <2> QED
    BY <2>1 DEF TreeInv, TypeOK, Header
<1>7. hdr[x].depth - d \in Nat
  BY <1>1, <1>6, StoreAssumption
<1>8. Walk(parent'[n], x)[hdr'[x].depth - hdr'[h].depth] = h
  BY <1>1, <1>2, <1>3, <1>5, <1>7 DEF AncestorAt
<1>9. x \in chains'[n] /\ hdr'[x].chain_id = 0 /\ hdr'[x].depth >= hdr'[h].depth + STORE_HASH_MINUS
  BY <1>1, <1>2, <1>3
<1> QED
  BY <1>8, <1>9 DEF Overgrown, AncestorAt

\* What holds of an entry of the log of n: a block of its main tree of chain 0
\* at the depth the entry says, overgrown unless it is the genesis block.
Logged(n, e) ==
    /\ e.hash \in chains[n] /\ hdr[e.hash].chain_id = 0 /\ hdr[e.hash].depth = e.depth
    /\ e.depth > 0 => Overgrown(e.hash)

\* s is a log of n that is complete up to depth d.
LogGood(n, s, d) ==
    /\ s \in Logs
    /\ Len(s) = (d + STORE_HASH_FREQ) \div STORE_HASH_FREQ
    /\ \A i \in 1 .. Len(s) : /\ s[i].depth = (i - 1) * STORE_HASH_FREQ /\ s[i].depth <= d
                              /\ Logged(n, s[i])

\* The inductive invariant of the log.
HashLogInv ==
    /\ TreeInv
    /\ LogTypeOK
    /\ \A n \in Nodes : /\ last_stored[n] <= StoredDepth(n)
                        /\ LogGood(n, file[n], last_stored[n])

\* The entry run_network makes for a depth it stores.
LEMMA EntryFacts ==
  ASSUME TreeInv, NEW n \in Nodes, NEW d \in Nat, d <= StoredDepth(n)
  PROVE  Entry(n, d) \in [depth : Nat, hash : BlockHash] /\ Entry(n, d).depth = d
         /\ Logged(n, Entry(n, d))
<1> DEFINE b == deepest[n][0]
           top == hdr[b].depth
           h == Walk(parent[n], b)[top - d]
<1>1. top \in Nat /\ d <= top /\ top - d \in Nat /\ top - d <= top /\ top - (top - d) = d
  BY StoredDepthIs
<1>2. d > 0 => top >= d + STORE_HASH_MINUS
  BY StoredDepthIs, StoreAssumption
<1>3. b \in chains[n] /\ hdr[b].chain_id = 0
  BY StoredDepthIs DEF TreeInv, DeepestIsDeepest
<1>4. IsForest(parent[n], hdr, chains[n])
  BY MainForest DEF MainTreesAreForests
<1>5. h \in chains[n] /\ hdr[h].depth = d /\ hdr[h].chain_id = 0
  <2> DEFINE w == Walk(parent[n], b)
  <2>1. \A k \in Nat : k <= top => /\ w[k] \in chains[n] /\ hdr[w[k]].depth = top - k
                                  /\ hdr[w[k]].chain_id = 0
    BY <1>3, <1>4, WalkDepths
  <2> HIDE DEF w, top
  <2>2. /\ w[top - d] \in chains[n] /\ hdr[w[top - d]].depth = top - (top - d)
        /\ hdr[w[top - d]].chain_id = 0
    BY <1>1, <2>1
  <2> QED
    BY <1>1, <2>2 DEF w
<1>6. h \in BlockHash
  BY <1>5 DEF TreeInv, TypeOK
<1>7. Entry(n, d) = [depth |-> d, hash |-> h]
  BY DEF Entry, AncestorAt
<1>8. AncestorAt(n, b, d) = h
  BY DEF AncestorAt
<1> HIDE DEF h, b, top
<1>9. d > 0 => Overgrown(h)
  BY <1>2, <1>3, <1>5, <1>8 DEF Overgrown, top
<1> QED
  BY <1>5, <1>6, <1>7, <1>9 DEF Logged

\* One depth more.
LEMMA GoodStep ==
  ASSUME TreeInv, NEW n \in Nodes, NEW d \in Nat, d <= StoredDepth(n),
         NEW s, LogGood(n, s, d - 1)
  PROVE  LogGood(n, IF d % STORE_HASH_FREQ = 0 THEN Append(s, Entry(n, d)) ELSE s, d)
<1> DEFINE F == STORE_HASH_FREQ
           q == (d - 1 + F) \div F
           e == Entry(n, d)
           E == [depth : Nat, hash : BlockHash]
<1>1. F \in Nat /\ F > 0
  BY StoreAssumption
<1>2. /\ q \in Nat
      /\ d % F = 0 => (d + F) \div F = q + 1 /\ d = q * F
      /\ d % F # 0 => (d + F) \div F = q
  BY <1>1, NextMultiple
<1>3. e \in E /\ e.depth = d /\ Logged(n, e)
  BY EntryFacts
<1>4. s \in Seq(E) /\ Len(s) = q
  BY DEF LogGood, Logs
<1> HIDE DEF F, e, E, q
<1>5. \A i \in 1 .. q : /\ s[i].depth = (i - 1) * F /\ s[i].depth <= d - 1 /\ Logged(n, s[i])
                        /\ s[i] \in E
  BY <1>4 DEF LogGood, F
<1>6. ASSUME NEW i \in 1 .. q PROVE s[i].depth <= d
  <2>1. s[i].depth \in Nat
    BY <1>5 DEF E
  <2> QED
    BY <1>5, <2>1
<1>7. CASE d % F = 0
  <2> DEFINE t == Append(s, e)
  <2>1. t \in Seq(E) /\ Len(t) = q + 1
    BY <1>3, <1>4
  <2>2. t[q + 1] = e /\ \A i \in 1 .. q : t[i] = s[i]
    BY <1>3, <1>4
  <2> HIDE DEF t
  <2>3. ASSUME NEW i \in 1 .. q + 1
        PROVE  t[i].depth = (i - 1) * F /\ t[i].depth <= d /\ Logged(n, t[i])
    <3>1. CASE i \in 1 .. q
      BY <3>1, <2>2, <1>5, <1>6
    <3>2. CASE i = q + 1
      <4>1. i - 1 = q
        BY <3>2, <1>2
      <4> QED
        BY <3>2, <4>1, <2>2, <1>2, <1>3, <1>7
    <3> QED
      BY <3>1, <3>2, <1>2
  <2>4. LogGood(n, t, d)
    BY <1>2, <1>7, <2>1, <2>3 DEF LogGood, Logs, E, F
  <2> QED
    BY <1>7, <2>4 DEF t, e, F
<1>8. CASE d % F # 0
  <2>1. LogGood(n, s, d)
    BY <1>2, <1>4, <1>5, <1>6, <1>8 DEF LogGood, Logs, E, F
  <2> QED
    BY <1>8, <2>1 DEF F
<1> QED
  BY <1>7, <1>8

\* What run_network has written after any number of the depths it has to.
LEMMA WrittenGood ==
  ASSUME HashLogInv, NEW n \in Nodes
  PROVE  LogGood(n, Written(n)[Unstored(n)], StoredDepth(n))
<1> DEFINE N == Unstored(n)
           last == last_stored[n]
           S == Logs
           Step(s, k) == IF (last + k) % STORE_HASH_FREQ = 0
                         THEN Append(s, Entry(n, last + k)) ELSE s
           f == [k \in Nat |-> [s \in S |-> IF k + 1 \in 1 .. N THEN Step(s, k + 1) ELSE s]]
<1>0. TreeInv /\ LogGood(n, file[n], last) /\ file[n] \in S
  BY DEF HashLogInv, LogGood
<1>1. /\ last \in Int /\ last >= -1 /\ StoredDepth(n) \in Nat
      /\ N \in Nat /\ last + N = StoredDepth(n)
  BY <1>0, StoredDepthIs DEF HashLogInv, LogTypeOK, Unstored
<1> HIDE DEF N, last
<1>2. \A k \in 1 .. N : last + k \in Nat /\ last + k <= StoredDepth(n) /\ (last + k) - 1 = last + (k - 1)
  BY <1>1
<1>3. ASSUME NEW s \in S, NEW k \in 1 .. N
      PROVE  Step(s, k) \in S
  <2> DEFINE e == Entry(n, last + k)
  <2>1. e \in [depth : Nat, hash : BlockHash]
    BY <1>0, <1>2, EntryFacts
  <2> HIDE DEF e
  <2>2. Append(s, e) \in S
    BY <2>1 DEF Logs
  <2> QED
    BY <2>2 DEF e
<1>3a. ASSUME NEW k \in 1 .. N, NEW s, LogGood(n, s, last + (k - 1))
       PROVE  LogGood(n, Step(s, k), last + k)
  <2> DEFINE d == last + k
  <2>1. d \in Nat /\ d <= StoredDepth(n) /\ LogGood(n, s, d - 1)
    BY <1>2, <1>3a
  <2> HIDE DEF d
  <2>2. LogGood(n, IF d % STORE_HASH_FREQ = 0 THEN Append(s, Entry(n, d)) ELSE s, d)
    BY <1>0, <2>1, GoodStep
  <2> QED
    BY <2>2 DEF d
<1> HIDE DEF Step
<1>4. f \in [Nat -> [S -> S]]
  BY <1>3
<1>5. ASSUME NEW k \in 1 .. N, NEW s \in S
      PROVE  f[k - 1][s] = Step(s, k)
  <2>1. k - 1 \in Nat /\ (k - 1) + 1 = k
    OBVIOUS
  <2> QED
    BY <2>1
<1> DEFINE b == file[n]
<1>6. b \in S
  BY <1>0
<1> HIDE DEF f, S, b
<1>7. PICK g : Iterates(S, b, f, g)
  BY <1>4, <1>6, RecursiveFunction
<1>8. /\ g \in [Nat -> S] /\ g[0] = b
      /\ \A k \in Nat : g[k + 1] = f[k][g[k]]
  BY <1>7 DEF Iterates
<1> DEFINE R(w) == [k \in 0 .. N |-> IF k = 0 THEN b
                                     ELSE IF (last + k) % STORE_HASH_FREQ = 0
                                     THEN Append(w[k - 1], Entry(n, last + k)) ELSE w[k - 1]]
           h == [k \in 0 .. N |-> g[k]]
<1>9. h = R(h)
  <2>1. ASSUME NEW k \in 0 .. N
        PROVE  h[k] = IF k = 0 THEN b
                      ELSE IF (last + k) % STORE_HASH_FREQ = 0
                      THEN Append(h[k - 1], Entry(n, last + k)) ELSE h[k - 1]
    <3>1. CASE k = 0
      BY <1>1, <1>8, <3>1
    <3>2. CASE k # 0
      <4>1. k \in 1 .. N /\ k - 1 \in 0 .. N /\ k - 1 \in Nat /\ (k - 1) + 1 = k
        BY <1>1, <3>2
      <4>2. g[k - 1] \in S /\ h[k - 1] = g[k - 1] /\ h[k] = g[k]
        BY <1>8, <4>1
      <4>3. g[k] = f[k - 1][g[k - 1]]
        BY <1>8, <4>1
      <4>4. g[k] = Step(g[k - 1], k)
        BY <1>5, <4>1, <4>2, <4>3
      <4> QED
        BY <3>2, <4>2, <4>4, Zenon DEF Step
    <3> QED
      BY <3>1, <3>2
  <2> HIDE DEF h
  <2>2. h = [k \in 0 .. N |-> h[k]]
    BY DEF h
  <2> QED
    BY <2>1, <2>2, Zenon
<1> DEFINE w == CHOOSE v : v = R(v)
<1>10. Written(n) = w
  BY Zenon DEF Written, N, last, b
<1>11. w = R(w)
  BY <1>9, Zenon
<1> HIDE DEF w, h
<1> DEFINE A == {k \in Nat : k \in 0 .. N => LogGood(n, w[k], last + k)}
<1>12. 0 \in A
  <2>1. w[0] = b
    <3>1. 0 \in 0 .. N
      BY <1>1
    <3>2. R(w)[0] = b
      BY <3>1
    <3> HIDE DEF R
    <3> QED
      BY <1>11, <3>2, Zenon
  <2>2. last + 0 = last
    BY <1>1
  <2> QED
    BY <1>0, <2>1, <2>2 DEF b
<1>13. ASSUME NEW k \in Nat, k \in A
       PROVE  k + 1 \in A
  <2> SUFFICES ASSUME k + 1 \in 0 .. N
               PROVE  LogGood(n, w[k + 1], last + (k + 1))
    OBVIOUS
  <2>1. k \in 0 .. N /\ k + 1 \in 1 .. N /\ (k + 1) - 1 = k /\ k + 1 # 0
    BY <1>1
  <2>2. LogGood(n, w[k], last + k)
    BY <1>13, <2>1
  <2>3. R(w)[k + 1] = Step(w[k], k + 1)
    <3>1. R(w)[k + 1] = IF (last + (k + 1)) % STORE_HASH_FREQ = 0
                        THEN Append(w[k], Entry(n, last + (k + 1))) ELSE w[k]
      BY <2>1
    <3> HIDE DEF R
    <3> QED
      BY <3>1, Zenon DEF Step
  <2> HIDE DEF R
  <2>4. w[k + 1] = Step(w[k], k + 1)
    BY <1>11, <2>3, Zenon
  <2> QED
    BY <1>3a, <2>1, <2>2, <2>4
<1> HIDE DEF A
<1>14. N \in A
  BY <1>1, <1>12, <1>13, InductionOverSet
<1>15. LogGood(n, w[N], last + N)
  BY <1>1, <1>14 DEF A
<1> QED
  BY <1>1, <1>10, <1>15 DEF N

\* At the start the log is empty.
LEMMA LogInitInv == LogInit => HashLogInv
<1> SUFFICES ASSUME LogInit PROVE HashLogInv
  OBVIOUS
<1>1. TreeInv
  BY InitInv DEF LogInit
<1>2. LogTypeOK
  BY DEF LogInit, LogTypeOK
<1>3. ASSUME NEW n \in Nodes
      PROVE  last_stored[n] <= StoredDepth(n) /\ LogGood(n, file[n], last_stored[n])
  <2>1. last_stored[n] = -1 /\ file[n] = <<>>
    BY DEF LogInit
  <2>2. StoredDepth(n) \in Nat
    BY <1>1, StoredDepthIs
  <2>3. (-1 + STORE_HASH_FREQ) \div STORE_HASH_FREQ = 0
    <3>1. STORE_HASH_FREQ \in Nat /\ STORE_HASH_FREQ > 0
      BY StoreAssumption
    <3>2. /\ -1 + STORE_HASH_FREQ = STORE_HASH_FREQ * 0 + (STORE_HASH_FREQ - 1)
          /\ -1 + STORE_HASH_FREQ \in Int /\ STORE_HASH_FREQ - 1 \in Int
          /\ 0 <= STORE_HASH_FREQ - 1 /\ STORE_HASH_FREQ - 1 < STORE_HASH_FREQ
      BY <3>1
    <3> QED
      BY <3>1, <3>2, QuotientUnique
  <2>4. LogGood(n, <<>>, -1)
    BY <2>3 DEF LogGood, Logs
  <2> QED
    BY <2>1, <2>2, <2>4
<1> QED
  BY <1>1, <1>2, <1>3 DEF HashLogInv

\* A step of the trees leaves every log as good as it was, and the blocks to
\* store are never fewer.
LEMMA LogTreeStep ==
  ASSUME HashLogInv, [Next]_vars, UNCHANGED logVars
  PROVE  HashLogInv'
<1>1. TreeInv /\ TreeInv'
  BY NextInv DEF HashLogInv
<1>2. last_stored' = last_stored /\ file' = file
  BY DEF logVars
<1>3. LogTypeOK'
  BY <1>2 DEF HashLogInv, LogTypeOK
<1>4. ASSUME NEW n \in Nodes PROVE last_stored'[n] <= StoredDepth(n)'
  <2> DEFINE top  == hdr[deepest[n][0]].depth
             top2 == hdr'[deepest'[n][0]].depth
  <2>1. /\ top \in Nat /\ 0 \in Chain /\ StoredDepth(n) \in Nat
        /\ StoredDepth(n) = IF top >= STORE_HASH_MINUS THEN top - STORE_HASH_MINUS ELSE 0
    BY <1>1, StoredDepthIs
  <2>2. /\ top2 \in Nat /\ StoredDepth(n)' \in Nat
        /\ StoredDepth(n)' = IF top2 >= STORE_HASH_MINUS THEN top2 - STORE_HASH_MINUS ELSE 0
    BY <1>1, StoredDepthsNext DEF StoredDepths
  <2>3. top2 >= top
    <3>1. CASE deepest'[n][0] # deepest[n][0]
      <4>1. top2 > top
        BY <1>1, <2>1, <3>1, DeepestGrows
      <4> HIDE DEF top, top2
      <4> QED
        BY <2>1, <2>2, <4>1
    <3>2. CASE deepest'[n][0] = deepest[n][0]
      <4>1. deepest[n][0] \in DOMAIN hdr
        BY <2>1, <1>1 DEF TreeInv, Shape, DeepestIsDeepest
      <4>2. top2 = top
        BY <1>1, <3>2, <4>1, MainTreesGrow
      <4> HIDE DEF top, top2
      <4> QED
        BY <2>1, <4>2
    <3> QED
      BY <3>1, <3>2
  <2>4. last_stored[n] <= StoredDepth(n) /\ last_stored[n] \in Int
    BY DEF HashLogInv, LogTypeOK
  <2> HIDE DEF top, top2
  <2> QED
    BY <1>2, <2>1, <2>2, <2>3, <2>4, StoreAssumption
<1>5. ASSUME NEW n \in Nodes PROVE LogGood(n, file[n], last_stored[n])'
  <2> DEFINE s == file[n]
             d == last_stored[n]
  <2>1. LogGood(n, s, d)
    BY DEF HashLogInv
  <2>2. ASSUME NEW i \in 1 .. Len(s) PROVE Logged(n, s[i])'
    <3> DEFINE e == s[i]
    <3>1. Logged(n, e)
      BY <2>1 DEF LogGood
    <3>2. e' = e
      BY <1>2
    <3>3. e.hash \in chains[n] /\ e.hash \in DOMAIN hdr
      BY <3>1, <1>1 DEF Logged, TreeInv, Shape
    <3>4. e.hash \in chains'[n] /\ hdr'[e.hash] = hdr[e.hash]
      BY <1>1, <3>3, PointersStay
    <3>5. e.depth > 0 => Overgrown(e.hash)'
      <4> HIDE DEF e
      <4> DEFINE x == e.hash
      <4>1. e.depth > 0 => Overgrown(x)
        BY <3>1 DEF Logged
      <4>2. x \in DOMAIN hdr
        BY <3>3
      <4>3. \A y \in DOMAIN hdr : Overgrown(y) => Overgrown(y)'
        BY <1>1, OvergrownKept
      <4>4. x' = x
        BY <3>2
      <4> HIDE DEF x
      <4>5. Overgrown(x) => Overgrown(x)'
        BY <4>2, <4>3, <4>4 DEF Overgrown, AncestorAt
      <4> QED
        BY <4>1, <4>5 DEF x
    <3> QED
      BY <3>1, <3>2, <3>4, <3>5 DEF Logged
  <2> QED
    BY <1>2, <2>1, <2>2 DEF LogGood, Logs
<1> QED
  BY <1>1, <1>3, <1>4, <1>5 DEF HashLogInv

\* The pass of run_network that stores the hashes keeps it.
LEMMA StoreHashesInv ==
  ASSUME HashLogInv, NEW n \in Nodes, StoreHashes(n)
  PROVE  HashLogInv'
<1>1. /\ last_stored' = [last_stored EXCEPT ![n] = StoredDepth(n)]
      /\ file' = [file EXCEPT ![n] = Written(n)[Unstored(n)]]
      /\ vars' = vars
  BY DEF StoreHashes
<1> DEFINE s == Written(n)[Unstored(n)]
           d == StoredDepth(n)
<1>2. LogGood(n, s, d) /\ TreeInv /\ d \in Nat
  BY WrittenGood, StoredDepthIs DEF HashLogInv
<1>3. s \in Logs
  BY <1>2 DEF LogGood
<1> HIDE DEF s, d
<1>4. LogTypeOK'
  BY <1>1, <1>2, <1>3 DEF HashLogInv, LogTypeOK, Logs, s, d
<1>5. TreeInv'
  BY <1>1, <1>2, NextInv
<1>6. ASSUME NEW m \in Nodes
      PROVE  /\ last_stored'[m] = IF m = n THEN d ELSE last_stored[m]
             /\ file'[m] = IF m = n THEN s ELSE file[m]
  BY <1>1 DEF s, d, HashLogInv, LogTypeOK
<1>7. ASSUME NEW m \in Nodes
      PROVE  last_stored'[m] <= StoredDepth(m)' /\ LogGood(m, file[m], last_stored[m])'
  <2>1. /\ hdr' = hdr /\ chains' = chains /\ parent' = parent /\ deepest' = deepest
    BY <1>1 DEF vars, nodeVars
  <2>2. StoredDepth(m)' = StoredDepth(m)
    BY <2>1 DEF StoredDepth
  <2>3. ASSUME NEW t, NEW e, LogGood(m, t, e), t = file'[m], e = last_stored'[m]
        PROVE  LogGood(m, file[m], last_stored[m])'
    BY <2>1, <2>3 DEF LogGood, Logged, Overgrown, AncestorAt
  <2>4. CASE m = n
    BY <1>2, <1>6, <2>2, <2>3, <2>4 DEF d
  <2>5. CASE m # n
    <3>1. last_stored[m] <= StoredDepth(m) /\ LogGood(m, file[m], last_stored[m])
      BY DEF HashLogInv
    <3> QED
      BY <1>6, <2>2, <2>3, <2>5, <3>1
  <2> QED
    BY <2>4, <2>5
<1> QED
  BY <1>4, <1>5, <1>7 DEF HashLogInv

\* Every step keeps the invariant of the log.
LEMMA LogNextInv == HashLogInv /\ [LogNext]_<<vars, logVars>> => HashLogInv'
<1> SUFFICES ASSUME HashLogInv, [LogNext]_<<vars, logVars>> PROVE HashLogInv'
  OBVIOUS
<1>1. CASE [Next]_vars /\ UNCHANGED logVars
  BY <1>1, LogTreeStep
<1>2. CASE \E n \in Nodes : StoreHashes(n)
  BY <1>2, StoreHashesInv
<1> QED
  BY <1>1, <1>2 DEF LogNext

\* HashLogInv is strong enough.
LEMMA LogInvGives == HashLogInv => LogInv
<1> SUFFICES ASSUME HashLogInv PROVE LogInv
  OBVIOUS
<1>1. TreeInv /\ LogTypeOK
  BY DEF HashLogInv
<1>2. ASSUME NEW n \in Nodes
      PROVE  /\ DOMAIN file[n] = 1 .. Len(file[n])
             /\ Len(file[n]) = (last_stored[n] + STORE_HASH_FREQ) \div STORE_HASH_FREQ
             /\ \A i \in DOMAIN file[n] :
                  /\ file[n][i].depth = (i - 1) * STORE_HASH_FREQ
                  /\ file[n][i].depth \in Nat /\ file[n][i].depth <= StoredDepth(n)
                  /\ Logged(n, file[n][i])
  <2> DEFINE s == file[n]
             d == last_stored[n]
  <2>1. LogGood(n, s, d) /\ d <= StoredDepth(n) /\ d \in Int /\ StoredDepth(n) \in Nat
    BY <1>1, StoredDepthIs DEF HashLogInv, LogTypeOK
  <2>2. s \in Seq([depth : Nat, hash : BlockHash])
    BY <2>1 DEF LogGood, Logs
  <2> HIDE DEF s, d
  <2>3. DOMAIN s = 1 .. Len(s) /\ \A i \in 1 .. Len(s) : s[i].depth \in Nat
    <3> DEFINE E == [depth : Nat, hash : BlockHash]
    <3>1. \A e \in E : e.depth \in Nat
      OBVIOUS
    <3> HIDE DEF E
    <3>2. s \in Seq(E)
      BY <2>2 DEF E
    <3>3. DOMAIN s = 1 .. Len(s) /\ \A i \in 1 .. Len(s) : s[i] \in E
      BY <3>2
    <3> QED
      BY <3>1, <3>3
  <2>4. ASSUME NEW i \in 1 .. Len(s) PROVE s[i].depth <= StoredDepth(n)
    <3>1. s[i].depth <= d /\ s[i].depth \in Nat
      BY <2>1, <2>3 DEF LogGood
    <3> QED
      BY <2>1, <3>1
  <2>5. /\ Len(s) = (d + STORE_HASH_FREQ) \div STORE_HASH_FREQ
        /\ \A i \in 1 .. Len(s) : s[i].depth = (i - 1) * STORE_HASH_FREQ /\ Logged(n, s[i])
    BY <2>1 DEF LogGood
  <2> QED
    BY <2>3, <2>4, <2>5 DEF s, d
<1>3. StoredOnceInOrder
  BY <1>2 DEF StoredOnceInOrder
<1>4. ASSUME NEW n \in Nodes, NEW i \in DOMAIN file[n], file[n][i].depth = 0
      PROVE  file[n][i].hash = 0
  <2> DEFINE x == file[n][i].hash
  <2>1. x \in chains[n] /\ hdr[x].depth = 0 /\ hdr[x].chain_id = 0
    BY <1>2, <1>4 DEF Logged
  <2>2. x \in DOMAIN hdr
    BY <1>1, <2>1 DEF TreeInv, Shape
  <2> HIDE DEF x
  <2>3. x = 0
    BY <1>1, <2>1, <2>2, GenesisIsFirst
  <2> QED
    BY <2>3 DEF x
<1>5. ASSUME NEW n \in Nodes, NEW m \in Nodes,
             NEW i \in DOMAIN file[n] \cap DOMAIN file[m], file[n][i].hash # file[m][i].hash
      PROVE  Overgrown(file[n][i].hash) /\ Overgrown(file[m][i].hash)
  <2>1. file[n][i].depth = file[m][i].depth /\ file[n][i].depth \in Nat
    BY <1>2
  <2>2. file[n][i].depth > 0
    BY <1>4, <1>5, <2>1
  <2> QED
    BY <1>2, <2>1, <2>2 DEF Logged
<1>6. ASSUME NEW n \in Nodes, NEW i \in DOMAIN file[n],
             AncestorAt(n, deepest[n][0], file[n][i].depth) # file[n][i].hash
      PROVE  /\ Overgrown(AncestorAt(n, deepest[n][0], file[n][i].depth))
             /\ Overgrown(file[n][i].hash)
  <2> DEFINE d == file[n][i].depth
             e == Entry(n, d)
  <2>1. d \in Nat /\ d <= StoredDepth(n) /\ Logged(n, file[n][i])
    BY <1>2
  <2> HIDE DEF d
  <2>2. Logged(n, e) /\ e.depth = d
    BY <1>1, <2>1, EntryFacts
  <2>3. e.hash = AncestorAt(n, deepest[n][0], d)
    BY DEF Entry
  <2>4. d > 0
    <3>1. d # 0
      <4> SUFFICES ASSUME d = 0 PROVE FALSE
        OBVIOUS
      <4>1. file[n][i].hash = 0
        BY <1>4 DEF d
      <4>2. hdr[e.hash].depth = 0 /\ hdr[e.hash].chain_id = 0 /\ e.hash \in DOMAIN hdr
        BY <1>1, <2>2 DEF Logged, TreeInv, Shape
      <4> DEFINE x == e.hash
      <4> HIDE DEF x
      <4>3. x = 0
        <5>1. x \in DOMAIN hdr /\ hdr[x].depth = 0 /\ hdr[x].chain_id = 0
          BY <4>2 DEF x
        <5> QED
          BY <1>1, <5>1, GenesisIsFirst
      <4> QED
        BY <1>6, <2>3, <4>1, <4>3 DEF x, d
    <3> QED
      BY <2>1, <3>1
  <2> QED
    BY <2>1, <2>2, <2>3, <2>4 DEF Logged, d
<1>7. LogsDifferOnDeepForksOnly
  BY <1>5, <1>6 DEF LogsDifferOnDeepForksOnly
<1> QED
  BY <1>1, <1>3, <1>7 DEF LogInv

\* The log run_network writes has an entry for every depth it should, in
\* order, and two logs differ, or a log and the node's chain, only where both
\* branches have grown by STORE_HASH_MINUS blocks.
THEOREM LogSafety == LogSpec => []LogInv
<1>1. LogSpec => []HashLogInv
  BY LogInitInv, LogNextInv, PTL DEF LogSpec
<1> QED
  BY <1>1, LogInvGives, PTL

------------------------------------------------------------------------------
\* The number of blocks a request asks for, if it is for missing blocks: as many
\* as an answer may have, or those above the asker's deepest block.
Enough(a) ==
    /\ a.hash \in DOMAIN hdr
    /\ a.why = "gap" =>
         \/ a.count >= MAX_ASK_BLOCKS
         \/ a.count + hdr[deepest[a.from][hdr[a.hash].chain_id]].depth >= hdr[a.hash].depth + 1

\* The inductive invariant of the header requests.
CatchUpInv ==
    /\ TreeInv
    /\ CatchUpTypeOK
    /\ \A a \in asks : Enough(a)

\* The header of a mined block, its depth and the deepest block of its chain.
LEMMA DepthFacts ==
  ASSUME TreeInv
  PROVE  /\ \A x \in DOMAIN hdr : hdr[x].depth \in Nat /\ hdr[x].chain_id \in Chain
         /\ \A n \in Nodes, c \in Chain : deepest[n][c] \in DOMAIN hdr
<1>1. \A x \in DOMAIN hdr : hdr[x].depth \in Nat /\ hdr[x].chain_id \in Chain
  BY DEF TreeInv, TypeOK, Header
<1>2. \A n \in Nodes, c \in Chain : deepest[n][c] \in DOMAIN hdr
  BY DEF TreeInv, Shape, DeepestIsDeepest
<1> QED
  BY <1>1, <1>2

\* The genesis blocks stay as they were.
LEMMA GenesisFacts ==
  ASSUME TreeInv
  PROVE  \A c \in Chain : hdr[c].chain_id = c /\ hdr[c].depth = 0
<1> SUFFICES ASSUME NEW c \in Chain PROVE hdr[c].chain_id = c /\ hdr[c].depth = 0
  OBVIOUS
<1>1. hdr[c] = Genesis(c)
  BY DEF TreeInv, Shape
<1> QED
  BY <1>1 DEF Genesis

\* A request stays large enough while the asker's tree grows.
LEMMA EnoughKept ==
  ASSUME TreeInv, TreeInv', [Next]_vars, NEW a \in Ask, Enough(a)
  PROVE  Enough(a)'
<1> DEFINE h == a.hash
           n == a.from
           c == hdr[h].chain_id
           top  == hdr[deepest[n][c]].depth
           top2 == hdr'[deepest'[n][c]].depth
<1>1. n \in Nodes /\ a.count \in Nat /\ h \in DOMAIN hdr
  BY DEF Ask, Enough
<1>2. h \in DOMAIN hdr' /\ hdr'[h] = hdr[h]
  BY <1>1, MainTreesGrow
<1>3. c \in Chain /\ hdr[h].depth \in Nat /\ deepest[n][c] \in DOMAIN hdr /\ top \in Nat
  BY <1>1, DepthFacts
<1>4. top2 >= top
  <2>1. CASE deepest'[n][c] # deepest[n][c]
    <3>1. top2 > top
      BY <1>1, <1>3, <2>1, DeepestGrows
    <3>2. top2 \in Nat
      BY <1>1, <1>3 DEF TreeInv, TypeOK, Shape, DeepestIsDeepest, Header
    <3> HIDE DEF top, top2
    <3> QED
      BY <1>3, <3>1, <3>2
  <2>2. CASE deepest'[n][c] = deepest[n][c]
    <3>1. top2 = top
      BY <2>2, <1>3, MainTreesGrow
    <3> HIDE DEF top, top2
    <3> QED
      BY <1>3, <3>1
  <2> QED
    BY <2>1, <2>2
<1>5. top2 \in Nat
  BY <1>1, <1>3 DEF TreeInv, TypeOK, Shape, DeepestIsDeepest, Header
<1>6. a.why = "gap" => a.count >= MAX_ASK_BLOCKS \/ a.count + top >= hdr[h].depth + 1
  BY DEF Enough
<1> HIDE DEF top, top2
<1>7. a.why = "gap" => a.count >= MAX_ASK_BLOCKS \/ a.count + top2 >= hdr[h].depth + 1
  BY <1>1, <1>3, <1>4, <1>5, <1>6
<1> QED
  BY <1>2, <1>7 DEF Enough, top2

\* A step of the trees, with whatever messages it sends.
LEMMA CatchUpStep ==
  ASSUME CatchUpInv, [Next]_vars, told' \subseteq Told,
         losses' \in 0 .. MAX_LOSSES, restarts' \in 0 .. MAX_RESTARTS,
         \A a \in asks' : a \in Ask /\ Enough(a)
  PROVE  CatchUpInv'
<1>1. TreeInv /\ TreeInv'
  BY NextInv DEF CatchUpInv
<1>2. asks' \subseteq Ask
  OBVIOUS
<1>3. CatchUpTypeOK'
  BY <1>1, <1>2 DEF CatchUpTypeOK, TreeInv
<1>4. \A a \in asks' : Enough(a)'
  BY <1>1, EnoughKept
<1> QED
  BY <1>1, <1>3, <1>4 DEF CatchUpInv

\* send_block_to_peers: well-formed messages.
LEMMA BroadcastTold ==
  ASSUME NEW n \in Nodes, NEW h \in Hashes
  PROVE  Broadcast(n, h) \subseteq Told
<1> QED
  BY DEF Broadcast, Told, Peers

\* #ask_block: well-formed requests, for enough blocks if the number is.
LEMMA AskPeersEnough ==
  ASSUME NEW n \in Nodes, NEW h \in BlockHash, NEW k \in Nat \ {0}, h \in DOMAIN hdr,
         NEW why \in {"gap", "trailing", "old"},
         why = "gap" =>
           k >= MAX_ASK_BLOCKS \/ k + hdr[deepest[n][hdr[h].chain_id]].depth >= hdr[h].depth + 1,
         NEW a \in AskPeers(n, h, k, why)
  PROVE  a \in Ask /\ Enough(a)
<1>1. a.from = n /\ a.hash = h /\ a.count = k /\ a.why = why
  BY DEF AskPeers
<1> QED
  BY <1>1 DEF AskPeers, Ask, Enough, Peers

\* The header that arrives is one deeper than the parent that is asked for.
LEMMA AskForParent ==
  ASSUME TreeInv, NEW n \in Nodes, NEW h \in DOMAIN hdr, h \in Hashes,
         NEW a \in AskPeers(n, hdr[h].parent,
                            AskCount(hdr[deepest[n][hdr[h].chain_id]].depth, hdr[h].depth), "gap")
  PROVE  a \in Ask /\ Enough(a)
<1> DEFINE p == hdr[h].parent
           c == hdr[h].chain_id
           top == hdr[deepest[n][c]].depth
           k == AskCount(top, hdr[h].depth)
<1>1. p \in DOMAIN hdr /\ hdr[p].chain_id = c /\ hdr[h].depth = hdr[p].depth + 1
  BY HashAssumption DEF TreeInv, RankOrder
<1>2. p \in BlockHash
  BY <1>1 DEF TreeInv, TypeOK
<1>3. top \in Nat /\ hdr[h].depth \in Nat /\ hdr[p].depth \in Nat
  BY <1>1, DepthFacts
<1>4. k \in Nat \ {0} /\ k + top >= hdr[p].depth + 1
  <2> HIDE DEF top, p
  <2> QED
    BY <1>1, <1>3 DEF AskCount
<1>5. a \in AskPeers(n, p, k, "gap")
  OBVIOUS
<1> HIDE DEF k, p
<1>6. k + hdr[deepest[n][hdr[p].chain_id]].depth >= hdr[p].depth + 1
  BY <1>1, <1>4
<1> QED
  BY <1>1, <1>2, <1>4, <1>5, <1>6, AskPeersEnough

\* The answer is a set of mined blocks other than genesis blocks.
LEMMA AnswerHashes ==
  ASSUME TreeInv, NEW n \in Nodes, NEW h \in BlockHash, NEW k
  PROVE  Answer(n, h, k) \subseteq Hashes
<1> DEFINE U == BlockHash \cup {NULL}
           par == parent[n]
           w == Walk(par, h)
<1>1. NULL \in U /\ h \in U /\ \A x \in U \ {NULL} : par[x] \in U
  BY DEF TreeInv, TypeOK
<1> HIDE DEF U, par
<1>2. w \in [Nat -> U]
  BY <1>1, WalkSteps
<1> SUFFICES ASSUME NEW x \in Answer(n, h, k) PROVE x \in Hashes
  OBVIOUS
<1> DEFINE number == IF k < MAX_ASK_BLOCKS THEN k ELSE MAX_ASK_BLOCKS
<1>3. x \in Line(n, h, number - 1) /\ parent[n][x] # NULL
  BY DEF Answer
<1>4. PICK i \in 0 .. number - 1 : x = w[i] /\ x # NULL
  BY <1>3 DEF Line, par
<1>5. x \in BlockHash
  BY <1>2, <1>4 DEF U
<1> QED
  BY <1>3, <1>5 DEF TreeInv, WellLinked, BlockHash

\* Mining.
LEMMA MineHeaderInv ==
  ASSUME CatchUpInv, NEW n \in Nodes, NEW h \in Hashes, NEW c \in Chain, Mine(n, h, c)
  PROVE  CatchUpInv'
<1>1. [Next]_vars
  BY DEF Mine, Next
<1>2. told' \subseteq Told
  BY BroadcastTold DEF Mine, CatchUpInv, CatchUpTypeOK
<1>3. \A a \in asks' : a \in Ask /\ Enough(a)
  BY DEF Mine, CatchUpInv, CatchUpTypeOK
<1>4. losses' \in 0 .. MAX_LOSSES /\ restarts' \in 0 .. MAX_RESTARTS
  BY DEF Mine, CatchUpInv, CatchUpTypeOK, faults
<1> QED
  BY <1>1, <1>2, <1>3, <1>4, CatchUpStep

\* #process_block
LEMMA ProcessHeaderInv ==
  ASSUME CatchUpInv, NEW n \in Nodes, NEW h \in DOMAIN hdr, ProcessHeader(n, h)
  PROVE  CatchUpInv'
<1> DEFINE need == AskPeers(n, hdr[h].parent,
                         AskCount(hdr[deepest[n][hdr[h].chain_id]].depth, hdr[h].depth), "gap")
<1>1. /\ \E m \in told : m.hash = h
      /\ AddReceivedBlock(n, h) \/ UNCHANGED vars
      /\ told' \subseteq told \cup Relayed(n, h)
      /\ asks' \subseteq asks \cup need
      /\ UNCHANGED faults
  BY DEF ProcessHeader
<1>2. [Next]_vars
  BY <1>1 DEF Next
<1>3. told \subseteq Told /\ TreeInv
  BY DEF CatchUpInv, CatchUpTypeOK
<1>4. h \in Hashes
  BY <1>1, <1>3 DEF Told
<1>5. told' \subseteq Told
  BY <1>1, <1>3, <1>4, BroadcastTold DEF Relayed
<1>6. \A a \in need : a \in Ask /\ Enough(a)
  BY <1>3, <1>4, AskForParent
<1> HIDE DEF need
<1>7. \A a \in asks' : a \in Ask /\ Enough(a)
  BY <1>1, <1>6 DEF CatchUpInv, CatchUpTypeOK
<1>8. losses' \in 0 .. MAX_LOSSES /\ restarts' \in 0 .. MAX_RESTARTS
  BY <1>1 DEF CatchUpInv, CatchUpTypeOK, faults
<1> QED
  BY <1>2, <1>5, <1>7, <1>8, CatchUpStep

\* run_network asks for the roots of incomplete trees, for a full answer.
LEMMA RunNetworkInv ==
  ASSUME CatchUpInv, NEW n \in Nodes, NEW due \in SUBSET inchains[n], RunNetwork(n, due)
  PROVE  CatchUpInv'
<1> DEFINE asked == {t \in due : \E u \in inchains'[n] : u.b = t.b}
<1>1. /\ AskForIncomplete(n, due) /\ told' = told /\ UNCHANGED faults
      /\ asks' = asks \cup UNION {AskPeers(n, t.b, MAX_ASK_BLOCKS, "gap") : t \in asked}
  BY DEF RunNetwork
<1>2. [Next]_vars
  BY <1>1 DEF Next
<1>3. ASSUME NEW t \in asked, NEW a \in AskPeers(n, t.b, MAX_ASK_BLOCKS, "gap")
      PROVE  a \in Ask /\ Enough(a)
  <2>1. t \in inchains[n]
    OBVIOUS
  <2>2. t.b \in DOMAIN hdr /\ t.b \in BlockHash
    BY <2>1 DEF CatchUpInv, TreeInv, TypeOK, OneHome, Shape
  <2>3. MAX_ASK_BLOCKS \in Nat \ {0} /\ MAX_ASK_BLOCKS >= MAX_ASK_BLOCKS
    BY AskBlocksAssumption
  <2> DEFINE b == t.b
  <2> HIDE DEF b
  <2>4. b \in DOMAIN hdr /\ b \in BlockHash /\ a \in AskPeers(n, b, MAX_ASK_BLOCKS, "gap")
    BY <2>2 DEF b
  <2> QED
    BY <2>3, <2>4, AskPeersEnough
<1> HIDE DEF asked
<1>4. \A a \in asks' : a \in Ask /\ Enough(a)
  BY <1>1, <1>3 DEF CatchUpInv, CatchUpTypeOK
<1>5. told' \subseteq Told /\ losses' \in 0 .. MAX_LOSSES /\ restarts' \in 0 .. MAX_RESTARTS
  BY <1>1 DEF CatchUpInv, CatchUpTypeOK, faults
<1> QED
  BY <1>2, <1>4, <1>5, CatchUpStep

\* #ask_block
LEMMA AskBlockInv ==
  ASSUME CatchUpInv, NEW a \in asks, AskBlock(a)
  PROVE  CatchUpInv'
<1>1. /\ told' = told \cup [from : {a.to}, to : {a.from}, hash : Answer(a.to, a.hash, a.count)]
      /\ asks' \subseteq asks /\ vars' = vars /\ losses' = losses /\ restarts' = restarts
  BY DEF AskBlock, faults
<1>2. a.to \in Nodes /\ a.from \in Nodes /\ a.hash \in BlockHash
  BY DEF CatchUpInv, CatchUpTypeOK, Ask
<1>3. Answer(a.to, a.hash, a.count) \subseteq Hashes
  BY <1>2, AnswerHashes DEF CatchUpInv
<1>4. told' \subseteq Told
  BY <1>1, <1>2, <1>3 DEF CatchUpInv, CatchUpTypeOK, Told
<1>5. \A e \in asks' : e \in Ask /\ Enough(e)
  BY <1>1 DEF CatchUpInv, CatchUpTypeOK
<1>6. losses' \in 0 .. MAX_LOSSES /\ restarts' \in 0 .. MAX_RESTARTS
  BY <1>1 DEF CatchUpInv, CatchUpTypeOK
<1> QED
  BY <1>1, <1>4, <1>5, <1>6, CatchUpStep

\* #full_block asks for a trailing block, which is a mined block.
LEMMA AskTrailingInv ==
  ASSUME CatchUpInv, NEW n \in Nodes, NEW h \in DOMAIN hdr, AskTrailing(n, h)
  PROVE  CatchUpInv'
<1> DEFINE t == hdr[h].trailing
           k == AskCount(0, 0)
<1>1. /\ asks' = asks \cup AskPeers(n, t, k, "trailing")
      /\ vars' = vars /\ told' = told /\ losses' = losses /\ restarts' = restarts
      /\ \E m \in Nodes : t \in chains[m]
  BY DEF AskTrailing, faults, Peers
<1>2. t \in DOMAIN hdr /\ t \in BlockHash
  BY <1>1 DEF CatchUpInv, TreeInv, TypeOK, Shape
<1>3. k \in Nat \ {0}
  BY DEF AskCount
<1> HIDE DEF t, k
<1>4. \A a \in AskPeers(n, t, k, "trailing") : a \in Ask /\ Enough(a)
  BY <1>2, <1>3, AskPeersEnough
<1>5. \A a \in asks' : a \in Ask /\ Enough(a)
  BY <1>1, <1>4 DEF CatchUpInv, CatchUpTypeOK
<1>6. told' \subseteq Told /\ losses' \in 0 .. MAX_LOSSES /\ restarts' \in 0 .. MAX_RESTARTS
  BY <1>1 DEF CatchUpInv, CatchUpTypeOK
<1> QED
  BY <1>1, <1>5, <1>6, CatchUpStep

\* A lost message.
LEMMA LoseMessageInv ==
  ASSUME CatchUpInv, Lose
  PROVE  CatchUpInv'
<1>1. /\ told' \subseteq told /\ asks' \subseteq asks /\ vars' = vars
      /\ restarts' = restarts /\ losses' = losses + 1 /\ losses < MAX_LOSSES
  BY DEF Lose
<1>2. \A e \in asks' : e \in Ask /\ Enough(e)
  BY <1>1 DEF CatchUpInv, CatchUpTypeOK
<1>3. told' \subseteq Told /\ restarts' \in 0 .. MAX_RESTARTS
  BY <1>1 DEF CatchUpInv, CatchUpTypeOK
<1>4. losses' \in 0 .. MAX_LOSSES
  BY <1>1, FaultsAssumption DEF CatchUpInv, CatchUpTypeOK
<1> QED
  BY <1>1, <1>2, <1>3, <1>4, CatchUpStep

\* A node that starts again has the genesis blocks; the requests it made before are
\* old, those of other nodes as they were.
LEMMA RestartInv ==
  ASSUME CatchUpInv, NEW n \in Nodes, Restart(n)
  PROVE  CatchUpInv'
<1>1. /\ restarts < MAX_RESTARTS /\ restarts' = restarts + 1
      /\ chains'   = [chains EXCEPT ![n] = Chain]
      /\ inchains' = [inchains EXCEPT ![n] = {}]
      /\ parent'   = [parent EXCEPT ![n] = [h \in BlockHash |-> NULL]]
      /\ nb'       = [nb EXCEPT ![n] = Chain]
      /\ deepest'  = [deepest EXCEPT ![n] = [c \in Chain |-> c]]
      /\ told'     \subseteq told
      /\ hdr' = hdr /\ losses' = losses
  BY DEF Restart
<1>2. TreeInv /\ Chain \subseteq BlockHash
  BY DEF CatchUpInv, BlockHash
<1>3. TypeOK'
  BY <1>1, <1>2 DEF TreeInv, TypeOK
<1>4. /\ chains'[n] = Chain /\ inchains'[n] = {} /\ nb'[n] = Chain
      /\ \A h \in BlockHash : parent'[n][h] = NULL
      /\ \A c \in Chain : deepest'[n][c] = c
  BY <1>1, <1>2 DEF TreeInv, TypeOK
<1>5. ASSUME NEW m \in Nodes, m # n
      PROVE  /\ chains'[m] = chains[m] /\ inchains'[m] = inchains[m] /\ nb'[m] = nb[m]
             /\ parent'[m] = parent[m] /\ deepest'[m] = deepest[m]
             /\ InTrees(m)' = InTrees(m) /\ Roots(m)' = Roots(m)
  BY <1>1, <1>2, <1>5 DEF TreeInv, TypeOK, InTrees, Roots
<1>6. InTrees(n)' = {} /\ Roots(n)' = {}
  BY <1>4 DEF InTrees, Roots
<1>7. RankOrder'
  BY <1>1, <1>2 DEF TreeInv, RankOrder
<1>8. OneHome'
  <2>1. ASSUME NEW m \in Nodes, NEW t \in inchains'[m]
        PROVE  /\ t.b \in t.nodes
               /\ t.nodes \cap chains'[m] = {}
               /\ \A u \in inchains'[m] : t # u => t.nodes \cap u.nodes = {}
    <3>1. m # n
      BY <1>4
    <3> QED
      BY <1>2, <1>5, <3>1 DEF TreeInv, OneHome
  <2> QED
    BY <2>1 DEF OneHome
<1>9. Shape'
  <2>1. ASSUME NEW m \in Nodes
        PROVE  /\ Chain \subseteq chains'[m] /\ chains'[m] \subseteq DOMAIN hdr
               /\ \A t \in inchains'[m] : \A h \in t.nodes :
                    /\ h \in DOMAIN hdr
                    /\ hdr[h].chain_id = hdr[t.b].chain_id
                    /\ h # t.b => hdr[t.b].depth < hdr[h].depth
               /\ \A h \in BlockHash \ (chains'[m] \cup InTrees(m)') : parent'[m][h] = NULL
    <3>1. CASE m = n
      BY <1>2, <1>4, <1>6, <3>1 DEF TreeInv, TypeOK
    <3>2. CASE m # n
      BY <1>2, <1>5, <3>2 DEF TreeInv, Shape
    <3> QED
      BY <3>1, <3>2
  <2>2. \A c \in Chain : hdr[c] = Genesis(c)
    BY <1>2 DEF TreeInv, Shape
  <2> QED
    BY <1>1, <2>1, <2>2 DEF Shape, Genesis
<1>10. WellLinked'
  <2>1. ASSUME NEW m \in Nodes
        PROVE  /\ \A h \in chains'[m] \ Chain :
                    parent'[m][h] = hdr[h].parent /\ parent'[m][h] \in chains'[m]
               /\ \A t \in inchains'[m] : \A h \in t.nodes \ {t.b} :
                    parent'[m][h] = hdr[h].parent /\ parent'[m][h] \in t.nodes
               /\ \A h \in Chain \cup Roots(m)' : parent'[m][h] = NULL
    <3>1. CASE m = n
      BY <1>2, <1>4, <1>6, <3>1
    <3>2. CASE m # n
      BY <1>2, <1>5, <3>2 DEF TreeInv, WellLinked
    <3> QED
      BY <3>1, <3>2
  <2> QED
    BY <1>1, <2>1 DEF WellLinked
<1>11. NbSet'
  <2>1. ASSUME NEW m \in Nodes
        PROVE  nb'[m] = chains'[m] \cup (InTrees(m)' \ Roots(m)')
    <3>1. CASE m = n
      BY <1>4, <1>6, <3>1
    <3>2. CASE m # n
      BY <1>2, <1>5, <3>2 DEF TreeInv, NbSet
    <3> QED
      BY <3>1, <3>2
  <2> QED
    BY <2>1 DEF NbSet
<1>12. DeepestIsDeepest'
  <2>1. ASSUME NEW m \in Nodes, NEW c \in Chain
        PROVE  /\ deepest'[m][c] \in chains'[m]
               /\ hdr[deepest'[m][c]].chain_id = c
               /\ \A h \in chains'[m] :
                    hdr[h].chain_id = c => hdr[h].depth <= hdr[deepest'[m][c]].depth
    <3>1. CASE m = n
      <4>1. \A h \in Chain : hdr[h].chain_id = h /\ hdr[h].depth = 0
        BY <1>2, GenesisFacts
      <4> QED
        BY <1>4, <3>1, <4>1
    <3>2. CASE m # n
      BY <1>2, <1>5, <3>2 DEF TreeInv, DeepestIsDeepest
    <3> QED
      BY <3>1, <3>2
  <2> QED
    BY <1>1, <2>1 DEF DeepestIsDeepest
<1>13. TreeInv'
  BY <1>3, <1>7, <1>8, <1>9, <1>10, <1>11, <1>12 DEF TreeInv
<1>14. ASSUME NEW a \in asks' PROVE a \in Ask /\ Enough(a)'
  <2>1. PICK e \in asks : a = IF e.from = n THEN [e EXCEPT !.why = "old"] ELSE e
    BY DEF Restart
  <2>2. e \in Ask /\ Enough(e)
    BY DEF CatchUpInv, CatchUpTypeOK
  <2>3. CASE e.from = n
    <3>1. a \in Ask /\ a.hash = e.hash /\ a.why # "gap"
      BY <2>1, <2>2, <2>3 DEF Ask
    <3> QED
      BY <1>1, <2>2, <3>1 DEF Enough
  <2>4. CASE e.from # n
    <3>1. a = e /\ a \in Ask /\ Enough(a) /\ a.from \in Nodes /\ a.from # n
      BY <2>1, <2>2, <2>4 DEF Ask
    <3>2. deepest'[a.from] = deepest[a.from]
      BY <1>5, <3>1
    <3> QED
      BY <1>1, <3>1, <3>2 DEF Enough
  <2> QED
    BY <2>3, <2>4
<1>15. CatchUpTypeOK'
  <2>1. restarts' \in 0 .. MAX_RESTARTS
    BY <1>1, FaultsAssumption DEF CatchUpInv, CatchUpTypeOK
  <2>2. asks' \subseteq Ask
    BY <1>14
  <2> QED
    BY <1>1, <1>3, <2>1, <2>2 DEF CatchUpInv, CatchUpTypeOK
<1> QED
  BY <1>13, <1>14, <1>15 DEF CatchUpInv

\* Every step keeps the invariant.
LEMMA CatchUpNextInv == CatchUpInv /\ [CatchUpNext]_allVars => CatchUpInv'
<1> SUFFICES ASSUME CatchUpInv, [CatchUpNext]_allVars PROVE CatchUpInv'
  OBVIOUS
<1>1. ASSUME NEW n \in Nodes, NEW h \in Hashes, NEW c \in Chain, Mine(n, h, c)
      PROVE  CatchUpInv'
  BY <1>1, MineHeaderInv
<1>2. ASSUME NEW n \in Nodes, NEW h \in DOMAIN hdr, ProcessHeader(n, h)
      PROVE  CatchUpInv'
  BY <1>2, ProcessHeaderInv
<1>3. ASSUME NEW n \in Nodes, NEW due \in SUBSET inchains[n], RunNetwork(n, due)
      PROVE  CatchUpInv'
  BY <1>3, RunNetworkInv
<1>4. ASSUME NEW n \in Nodes, Restart(n)
      PROVE  CatchUpInv'
  BY <1>4, RestartInv
<1>5. ASSUME NEW a \in asks, AskBlock(a)
      PROVE  CatchUpInv'
  BY <1>5, AskBlockInv
<1>6. CASE Lose
  BY <1>6, LoseMessageInv
<1>7. ASSUME NEW n \in Nodes, NEW h \in DOMAIN hdr, AskTrailing(n, h)
      PROVE  CatchUpInv'
  BY <1>7, AskTrailingInv
<1>8. CASE UNCHANGED allVars
  <2>1. /\ vars' = vars /\ told' = told /\ asks' = asks /\ losses' = losses
        /\ restarts' = restarts
    BY <1>8 DEF allVars, netVars, faults
  <2>2. /\ told' \subseteq Told /\ losses' \in 0 .. MAX_LOSSES
        /\ restarts' \in 0 .. MAX_RESTARTS /\ \A a \in asks' : a \in Ask /\ Enough(a)
    BY <2>1 DEF CatchUpInv, CatchUpTypeOK
  <2> QED
    BY <2>1, <2>2, CatchUpStep
<1> QED
  BY <1>1, <1>2, <1>3, <1>4, <1>5, <1>6, <1>7, <1>8 DEF CatchUpNext

\* At the start there are no requests.
LEMMA CatchUpInitInv == CatchUpInit => CatchUpInv
<1> SUFFICES ASSUME CatchUpInit PROVE CatchUpInv
  OBVIOUS
<1>1. TreeInv
  BY InitInv DEF CatchUpInit
<1>2. CatchUpTypeOK
  BY <1>1, FaultsAssumption DEF CatchUpInit, CatchUpTypeOK, TreeInv
<1> QED
  BY <1>1, <1>2 DEF CatchUpInv, CatchUpInit

\* The answer to one request for missing blocks, in a state the system can be in.
LEMMA AnswerReaches ==
  ASSUME CatchUpInv, NEW a \in asks, a.why = "gap", a.hash \in chains[a.to] \ chains[a.from],
         NEW f \in Line(a.to, a.hash, hdr[a.hash].depth) \cap chains[a.from],
         hdr[f].depth + 1 >= hdr[deepest[a.from][hdr[a.hash].chain_id]].depth
  PROVE  LET got == Answer(a.to, a.hash, a.count)
         IN  \/ Cardinality(got) = MAX_ASK_BLOCKS
             \/ \E x \in got : hdr[x].parent \in chains[a.from]
<1> DEFINE n == a.to
           h == a.hash
           tree == chains[a.from]
           w == Walk(parent[n], h)
           H == hdr[h].depth
           top == hdr[deepest[a.from][hdr[h].chain_id]].depth
           M == MAX_ASK_BLOCKS
           number == IF a.count < M THEN a.count ELSE M
           got == Answer(n, h, a.count)
<1>1. /\ n \in Nodes /\ a.from \in Nodes /\ a.count \in Nat \ {0} /\ h \in chains[n]
      /\ TreeInv /\ h \in DOMAIN hdr /\ h \notin tree
      /\ a.count >= M \/ a.count + top >= H + 1
  BY DEF CatchUpInv, CatchUpTypeOK, Ask, Enough
<1>2. M \in Nat /\ M > 0
  BY AskBlocksAssumption
<1>3. IsForest(parent[n], hdr, chains[n])
  BY <1>1, MainForest DEF MainTreesAreForests
<1>4. H \in Nat /\ top \in Nat
  BY <1>1, DepthFacts
<1>5. \A k \in Nat : k <= H => w[k] \in chains[n] /\ hdr[w[k]].depth = H - k
  BY <1>1, <1>3, WalkDepths
<1>6. w[0] = h /\ \A k \in Nat : w[k + 1] = IF w[k] = NULL THEN NULL ELSE parent[n][w[k]]
  BY <1>1, <1>3, WalkInForest
<1>7. got = {x \in {w[i] : i \in 0 .. number - 1} \ {NULL} : parent[n][x] # NULL}
  BY DEF Answer, Line
<1>8. PICK j \in 0 .. H : f = w[j]
  BY DEF Line
<1>9. f \in tree /\ hdr[f].depth + 1 >= top
  OBVIOUS
<1>10. NULL \notin chains[n] /\ \A x \in chains[n] : hdr[x].depth > 0 => parent[n][x] \in chains[n]
  BY <1>3 DEF IsForest
<1> HIDE DEF w, H, top, M, got, n, h, tree
<1>11. j \in Nat /\ j >= 1 /\ j <= H /\ hdr[f].depth = H - j /\ H - j + 1 >= top
  <2>1. j # 0
    BY <1>1, <1>6, <1>8, <1>9
  <2> QED
    BY <1>4, <1>5, <1>8, <1>9, <2>1
<1>12. ASSUME NEW i \in Nat, i < j
       PROVE  w[i] \in chains[n] /\ hdr[w[i]].depth = H - i /\ w[i] # NULL /\ parent[n][w[i]] # NULL
              /\ parent[n][w[i]] = w[i + 1] /\ hdr[w[i]].depth > 0
  <2>1. w[i] \in chains[n] /\ hdr[w[i]].depth = H - i
    BY <1>5, <1>11, <1>12, <1>4
  <2>2. hdr[w[i]].depth > 0
    BY <2>1, <1>11, <1>12, <1>4
  <2> QED
    BY <2>1, <2>2, <1>6, <1>10
<1>13. CASE j <= number
  <2> DEFINE i == j - 1
             x == w[i]
  <2>1. i \in Nat /\ i < j /\ i \in 0 .. number - 1 /\ i + 1 = j
    BY <1>1, <1>2, <1>11, <1>13
  <2> HIDE DEF i, number
  <2>2. x \in chains[n] /\ x # NULL /\ parent[n][x] = f /\ parent[n][x] # NULL /\ hdr[x].depth > 0
    BY <1>8, <1>12, <2>1
  <2>3. x \in got
    BY <1>7, <2>1, <2>2
  <2>4. hdr[x].parent = f
    <3>1. x \notin Chain
      <4>1. \A c \in Chain : hdr[c].depth = 0
        BY <1>1, GenesisFacts
      <4> QED
        BY <2>2, <4>1
    <3> QED
      BY <1>1, <2>2, <3>1 DEF TreeInv, WellLinked
  <2> QED
    BY <1>9, <2>3, <2>4 DEF got, tree, n, h
<1>14. CASE ~(j <= number)
  <2>1. number = M /\ M < j
    <3>1. CASE a.count >= M
      BY <1>1, <1>2, <1>11, <1>14, <3>1
    <3>2. CASE ~(a.count >= M)
      <4>1. a.count + top >= H + 1 /\ number = a.count
        BY <1>1, <1>2, <3>2
      <4> HIDE DEF number
      <4> QED
        BY <1>1, <1>4, <1>11, <1>14, <4>1
    <3> QED
      BY <3>1, <3>2
  <2> HIDE DEF number
  <2> DEFINE I == 0 .. M - 1
             g == [i \in I |-> w[i]]
  <2>2. \A i \in I : i \in Nat /\ i < j
    BY <1>2, <1>11, <2>1
  <2>3. got = {w[i] : i \in I}
    <3>1. \A i \in I : w[i] # NULL /\ parent[n][w[i]] # NULL
      BY <2>2, <1>12
    <3> HIDE DEF I
    <3>2. got = {x \in {w[i] : i \in I} \ {NULL} : parent[n][x] # NULL}
      BY <1>7, <2>1 DEF I
    <3> QED
      BY <3>1, <3>2
  <2>4. ASSUME NEW i \in I, NEW k \in I, w[i] = w[k] PROVE i = k
    <3>1. H - i = H - k
      BY <2>2, <2>4, <1>12
    <3> QED
      BY <3>1, <2>2, <1>4
  <2>5. IsFiniteSet(I) /\ Cardinality(I) = M
    <3>1. 0 \in Int /\ M - 1 \in Int /\ ~(0 > M - 1) /\ (M - 1) - 0 + 1 = M
      BY <1>2
    <3>2. IsFiniteSet(0 .. M - 1) /\ Cardinality(0 .. M - 1) = IF 0 > M - 1 THEN 0 ELSE (M - 1) - 0 + 1
      BY <3>1, FS_Interval
    <3> QED
      BY <3>1, <3>2
  <2> HIDE DEF I
  <2>6. g \in Surjection(I, got)
    BY <2>3 DEF Surjection
  <2>7. g \in Injection(I, got)
    BY <2>3, <2>4 DEF Injection, IsInjective
  <2> HIDE DEF g
  <2>8. Cardinality(got) = M
    BY <2>5, <2>6, <2>7, FS_Surjection
  <2> QED
    BY <2>8 DEF got, M, n, h
<1> QED
  BY <1>13, <1>14

\* Whatever was mined, lost or overtaken meanwhile, and whichever peer restarted,
\* one answer of #ask_block to a request for missing blocks that the asker made
\* since it last started reaches its main tree if its branch is at most one
\* block short, or is cut off by MAX_ASK_BLOCKS.
THEOREM GapSafety == CatchUpSpec => []OneAnswerClosesTheGap
<1>1. CatchUpInv => OneAnswerClosesTheGap
  <2> SUFFICES ASSUME CatchUpInv PROVE OneAnswerClosesTheGap
    OBVIOUS
  <2>1. CatchUpTypeOK
    BY DEF CatchUpInv
  <2> QED
    BY <2>1, AnswerReaches DEF OneAnswerClosesTheGap
<1> QED
  BY <1>1, CatchUpInitInv, CatchUpNextInv, PTL DEF CatchUpSpec
=============================================================================
