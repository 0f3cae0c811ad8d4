--------------------------- MODULE HashTreeProofs ---------------------------
(***************************************************************************)
(* Proofs about the pointers of the block trees, for any hashes and any    *)
(* block tree on them: what a search finds is what hangs below the root in *)
(* the family tree (PointerSafety), and every step on the pointers is one  *)
(* of BlockTree on sets and parents (HeapRefines).                         *)
(*                                                                         *)
(* A search tree is described by its spans: the span of a node are the     *)
(* numbers whose search comes by it.  The span of a root holds all         *)
(* numbers, a child has the part of its parent's span on its side, so a    *)
(* search ends at its number or at the place to insert it.  A family tree  *)
(* is described by a list of children for every node.  The invariant       *)
(* (HeapInv) says that there are sets N[r] of nodes, one for every root,   *)
(* apart from each other, each with both trees on it (Forest).             *)
(***************************************************************************)
EXTENDS HashTree, NatLemmas, SequenceTheorems, FiniteSetTheorems

------------------------------------------------------------------------------
(* Walks and depths. *)

\* Hashes are natural numbers, and finitely many; NULL is none of them.
LEMMA HashFacts ==
  /\ BlockHash \subseteq Nat /\ IsFiniteSet(BlockHash) /\ Size \in Nat
  /\ NULL \notin BlockHash /\ Genesis \in BlockHash /\ BlockHash \subseteq Pointer
  /\ Pointer \subseteq Int /\ NULL \in Pointer /\ Hashes = BlockHash \ {Genesis}
<1>1. IsFiniteSet(Hashes \cup {0})
  BY HashesAssumption, FS_AddElement
<1>2. BlockHash = Hashes \cup {0}
  BY DEF BlockHash, Genesis
<1>3. BlockHash \subseteq Nat /\ IsFiniteSet(BlockHash)
  BY <1>1, <1>2, HashesAssumption
<1>4. Size \in Nat
  BY <1>3, FS_CardinalityType DEF Size
<1> QED
  BY <1>3, <1>4, HashesAssumption DEF NULL, Genesis, BlockHash, Pointer

\* w is the walk along next from x.
Walks(T, next, x, w) ==
  /\ w \in [0 .. Size -> T] /\ w[0] = x
  /\ \A k \in 1 .. Size : w[k] = next[w[k - 1]]

\* Walk goes on from one place to the next, Size times, and stays in T.
LEMMA WalkFacts ==
  ASSUME NEW T, NEW x \in T, NEW next, \A y \in T : next[y] \in T
  PROVE  Walks(T, next, x, Walk(next, x))
<1> DEFINE N == Size
           f == [k \in 1 .. N |-> [y \in T |-> next[y]]]
           R(w) == [k \in 0 .. N |-> IF k = 0 THEN x ELSE next[w[k - 1]]]
<1>0. N \in Nat
  BY HashFacts
<1> HIDE DEF N
<1>1. f \in [1 .. N -> [T -> T]]
  OBVIOUS
<1>2. \A k \in 1 .. N : f[k] = [y \in T |-> next[y]]
  OBVIOUS
<1> HIDE DEF f
<1>3. PICK g : Recurs(N, T, x, f, g)
  BY <1>0, <1>1, BoundedRecursion
<1>4. g \in [0 .. N -> T] /\ g[0] = x /\ \A k \in 1 .. N : g[k] = f[k][g[k - 1]]
  BY <1>3 DEF Recurs
<1>5. \A k \in 1 .. N : g[k] = next[g[k - 1]]
  <2> TAKE k \in 1 .. N
  <2>1. k - 1 \in 0 .. N /\ g[k - 1] \in T
    BY <1>0, <1>4
  <2> QED
    BY <1>2, <1>4, <2>1
<1>6. g = R(g)
  BY <1>0, <1>4, <1>5
<1> DEFINE w == CHOOSE v : v = R(v)
<1>7. Walk(next, x) = w
  BY Zenon DEF Walk, N
<1>8. w = R(w)
  BY <1>6, Zenon
<1> HIDE DEF w
<1>9. w \in [0 .. N -> T] /\ w[0] = x /\ \A k \in 1 .. N : w[k] = next[w[k - 1]]
  <2>1. \A k \in 0 .. N : w[k] = IF k = 0 THEN x ELSE next[w[k - 1]]
    BY <1>8, Zenon
  <2>2. w[0] = x
    BY <1>0, <2>1
  <2>3. \A k \in 1 .. N : w[k] = next[w[k - 1]]
    BY <1>0, <2>1
  <2> DEFINE A == {k \in 0 .. N : w[k] \in T}
  <2>4. 0 \in A
    BY <1>0, <2>2
  <2>5. \A k \in 0 .. N - 1 : k \in A => k + 1 \in A
    <3> TAKE k \in 0 .. N - 1
    <3>1. k + 1 \in 1 .. N /\ (k + 1) - 1 = k /\ k + 1 \in 0 .. N
      BY <1>0
    <3>2. w[k + 1] = next[w[k]]
      BY <2>3, <3>1
    <3> QED
      BY <3>1, <3>2
  <2> HIDE DEF A
  <2>6. \A k \in 0 .. N : k \in A
    BY <1>0, <2>4, <2>5, InductionUpto
  <2>7. \A k \in 0 .. N : w[k] \in T
    BY <2>6 DEF A
  <2>8. w = [k \in 0 .. N |-> IF k = 0 THEN x ELSE next[w[k - 1]]]
    BY <1>8, Zenon
  <2> QED
    BY <2>2, <2>3, <2>7, <2>8
<1> QED
  BY <1>7, <1>9 DEF Walks, N

\* A walk along which a measure goes down stops.
Measured(T, next, m) ==
  \A y \in T : /\ next[y] \in T /\ m[y] \in 0 .. Size
               /\ next[y] # y => m[next[y]] < m[y]

\* A walk with a measure that goes down at every move has come to rest at its end.
LEMMA Stops ==
  ASSUME NEW T, NEW x \in T, NEW next, NEW m, Measured(T, next, m)
  PROVE  Walk(next, x)[Size] \in T /\ next[Walk(next, x)[Size]] = Walk(next, x)[Size]
<1> DEFINE w == Walk(next, x)
           N == Size
           A == {k \in 0 .. N : next[w[k]] = w[k] \/ m[w[k]] + k <= N}
<1>0. N \in Nat
  BY HashFacts
<1>m. \A y \in T : next[y] \in T /\ m[y] \in 0 .. N /\ (next[y] # y => m[next[y]] < m[y])
  BY DEF Measured
<1>1. Walks(T, next, x, w)
  <2>1. \A y \in T : next[y] \in T
    BY <1>m
  <2> QED
    BY <2>1, WalkFacts
<1> HIDE DEF w
<1>2. w \in [0 .. N -> T] /\ w[0] = x /\ \A k \in 1 .. N : w[k] = next[w[k - 1]]
  BY <1>1 DEF Walks
<1> HIDE DEF N
<1>3. 0 \in A
  BY <1>0, <1>2, <1>m
<1>4. \A k \in 0 .. N - 1 : k \in A => k + 1 \in A
  <2> TAKE k \in 0 .. N - 1
  <2>1. k + 1 \in 1 .. N /\ (k + 1) - 1 = k /\ k + 1 \in 0 .. N /\ k \in 0 .. N /\ k \in Nat
    BY <1>0
  <2>2. w[k + 1] = next[w[k]] /\ w[k] \in T
    BY <1>2, <2>1
  <2>3. CASE next[w[k]] = w[k]
    BY <2>1, <2>2, <2>3
  <2>4. CASE next[w[k]] # w[k]
    <3>1. m[next[w[k]]] < m[w[k]] /\ m[next[w[k]]] \in Nat /\ m[w[k]] \in Nat
      BY <1>0, <1>m, <2>2, <2>4
    <3>2. k \in A => m[w[k]] + k <= N
      BY <2>4
    <3>3. k \in A => m[w[k + 1]] + (k + 1) <= N
      BY <1>0, <2>1, <2>2, <3>1, <3>2
    <3> QED
      BY <2>1, <3>3
  <2> QED
    BY <2>3, <2>4
<1> HIDE DEF A
<1>5. N \in A
  BY <1>0, <1>3, <1>4, InductionUpto
<1>6. w[N] \in T
  BY <1>0, <1>2
<1>7. CASE next[w[N]] = w[N]
  BY <1>6, <1>7 DEF w, N
<1>8. CASE next[w[N]] # w[N]
  <2>1. m[w[N]] + N <= N /\ m[w[N]] \in Nat
    BY <1>0, <1>5, <1>6, <1>8, <1>m DEF A
  <2>2. m[next[w[N]]] < m[w[N]] /\ m[next[w[N]]] \in Nat
    BY <1>0, <1>6, <1>8, <1>m
  <2> QED
    BY <1>0, <2>1, <2>2
<1> QED
  BY <1>7, <1>8

\* The number of rounds of a loop that first meets x after n of them.
LEMMA RoundsToIs ==
  ASSUME NEW x, NEW w, NEW n \in 0 .. Size, w[n] = x, \A j \in 0 .. n - 1 : w[j] # x
  PROVE  RoundsTo(x, w) = n
<1> DEFINE P(k) == w[k] = x /\ \A j \in 0 .. k - 1 : w[j] # x
           r == CHOOSE k \in 0 .. Size : P(k)
<1>0. Size \in Nat
  BY HashFacts
<1>1. P(n)
  OBVIOUS
<1>2. r \in 0 .. Size /\ P(r)
  BY <1>1
<1>3. r = n
  <2> HIDE DEF r
  <2>1. r \in Int /\ n \in Int /\ 0 <= r /\ 0 <= n
    BY <1>0, <1>2
  <2>2. ~(r < n)
    BY <1>2, <2>1
  <2>3. ~(n < r)
    BY <1>2, <2>1
  <2> QED
    BY <2>1, <2>2, <2>3
<1> QED
  BY <1>3, Zenon DEF RoundsTo

\* The depth of a block as a function of the headers.
DepthOf(f, h) ==
    LET depth[x \in BlockHash] == IF x = Genesis THEN 0 ELSE 1 + depth[f[x]]
    IN  depth[h]

\* The depth of HashTree, with the parents written out.
LEMMA DepthIs == \A h : Depth(h) = DepthOf(from, h)
BY Zenon DEF Depth, DepthOf

\* On the headers of block trees the depth is a number, and goes up by one from
\* parent to child.
LEMMA DepthFacts ==
  ASSUME NEW f \in BlockTrees
  PROVE  /\ \A h \in BlockHash : DepthOf(f, h) \in 0 .. Size
         /\ DepthOf(f, Genesis) = 0
         /\ \A h \in Hashes : DepthOf(f, h) = DepthOf(f, f[h]) + 1 /\ f[h] \in BlockHash
<1> DEFINE N == Size
           u == Up(f)
           W(x) == Walk(u, x)
<1>0. /\ N \in Nat /\ Hashes = BlockHash \ {Genesis} /\ Genesis \in BlockHash
      /\ f \in [Hashes -> BlockHash] /\ \A h \in Hashes : W(h)[N] = Genesis
  BY HashFacts DEF BlockTrees
<1>1. /\ \A x \in BlockHash : u[x] \in BlockHash
      /\ u[Genesis] = Genesis /\ \A h \in Hashes : u[h] = f[h]
  BY <1>0 DEF Up
<1> HIDE DEF u
<1>2. \A x \in BlockHash : Walks(BlockHash, u, x, W(x))
  BY <1>1, WalkFacts
<1> HIDE DEF W
<1>3. \A x \in BlockHash : /\ \A k \in 0 .. N : W(x)[k] \in BlockHash
                           /\ W(x)[0] = x
                           /\ \A k \in 1 .. N : W(x)[k] = u[W(x)[k - 1]]
  BY <1>2 DEF Walks
<1> HIDE DEF N
<1>4. W(Genesis)[N] = Genesis
  <2> DEFINE A == {k \in 0 .. N : W(Genesis)[k] = Genesis}
  <2>1. 0 \in A
    BY <1>0, <1>3
  <2>2. \A k \in 0 .. N - 1 : k \in A => k + 1 \in A
    <3> TAKE k \in 0 .. N - 1
    <3>1. k + 1 \in 1 .. N /\ (k + 1) - 1 = k /\ k + 1 \in 0 .. N
      BY <1>0
    <3> QED
      BY <1>0, <1>1, <1>3, <3>1
  <2> HIDE DEF A
  <2>3. N \in A
    BY <1>0, <2>1, <2>2, InductionUpto
  <2> QED
    BY <2>3 DEF A
<1> DEFINE First(x, k) == k \in 0 .. N /\ W(x)[k] = Genesis /\ \A j \in 0 .. k - 1 : W(x)[j] # Genesis
           d == [x \in BlockHash |-> CHOOSE k : First(x, k)]
<1>5. \A x \in BlockHash : First(x, d[x])
  <2> TAKE x \in BlockHash
  <2> DEFINE S == {k \in 0 .. N : W(x)[k] = Genesis}
  <2>1. N \in S /\ S \subseteq Nat
    BY <1>0, <1>4
  <2>2. PICK m \in S : \A k \in S : m <= k
    BY <2>1, LeastNat
  <2>3. First(x, m)
    <3>1. m \in 0 .. N /\ W(x)[m] = Genesis
      OBVIOUS
    <3>2. ASSUME NEW j \in 0 .. m - 1, W(x)[j] = Genesis PROVE FALSE
      <4>1. j \in 0 .. N /\ ~(m <= j)
        BY <1>0, <3>1
      <4> QED
        BY <2>2, <3>2, <4>1
    <3> QED
      BY <3>1, <3>2
  <2> HIDE DEF First
  <2> QED
    BY <2>3, Zenon
<1>6. ASSUME NEW x \in BlockHash, NEW i, NEW j, First(x, i), First(x, j) PROVE i = j
  <2>1. i \in Int /\ j \in Int /\ 0 <= i /\ 0 <= j
    BY <1>0, <1>6
  <2>2. ~(i < j) /\ ~(j < i)
    BY <1>6, <2>1
  <2> QED
    BY <2>1, <2>2
<1> HIDE DEF d
<1>7. d[Genesis] = 0
  <2>1. First(Genesis, 0)
    BY <1>0, <1>3
  <2> HIDE DEF First
  <2> QED
    BY <1>0, <1>5, <1>6, <2>1
<1>8. ASSUME NEW h \in Hashes PROVE d[h] = d[f[h]] + 1
  <2> DEFINE p == f[h]
             n == d[h]
             A == {k \in 0 .. N : k + 1 <= N => W(h)[k + 1] = W(p)[k]}
  <2>0. h \in BlockHash /\ p \in BlockHash /\ h # Genesis /\ u[h] = p
    BY <1>0, <1>1
  <2> HIDE DEF p
  <2>1. 0 \in A
    <3>1. 1 <= N => W(h)[0 + 1] = u[W(h)[0]]
      BY <1>0, <1>3, <2>0
    <3> QED
      BY <1>0, <1>3, <2>0, <3>1
  <2>2. \A k \in 0 .. N - 1 : k \in A => k + 1 \in A
    <3> TAKE k \in 0 .. N - 1
    <3>1. k + 1 \in 1 .. N /\ (k + 1) - 1 = k /\ k + 1 \in 0 .. N
      BY <1>0
    <3>2. W(p)[k + 1] = u[W(p)[k]] /\ (W(h)[k + 1] = W(p)[k] => u[W(h)[k + 1]] = W(p)[k + 1])
      BY <1>3, <2>0, <3>1
    <3>3. (k + 1) + 1 <= N => W(h)[(k + 1) + 1] = u[W(h)[k + 1]]
      <4>1. (k + 1) + 1 <= N => (k + 1) + 1 \in 1 .. N
        BY <3>1
      <4>2. ((k + 1) + 1) - 1 = k + 1
        BY <3>1
      <4> QED
        BY <1>3, <2>0, <4>1, <4>2
    <3> QED
      BY <1>0, <3>1, <3>2, <3>3
  <2> HIDE DEF A
  <2>3. \A k \in 0 .. N : k \in A
    BY <1>0, <2>1, <2>2, InductionUpto
  <2>4. \A k \in 0 .. N : k + 1 <= N => W(h)[k + 1] = W(p)[k]
    BY <2>3 DEF A
  <2>5. First(h, n)
    BY <1>5, <2>0
  <2> HIDE DEF n
  <2>6. n # 0 /\ n \in 1 .. N
    BY <1>0, <1>3, <2>0, <2>5
  <2>7. First(p, n - 1)
    <3>1. n - 1 \in 0 .. N /\ (n - 1) + 1 = n /\ (n - 1) + 1 <= N
      BY <1>0, <2>6
    <3>2. W(p)[n - 1] = Genesis
      <4>1. W(h)[(n - 1) + 1] = W(p)[n - 1]
        BY <2>4, <3>1
      <4> QED
        BY <2>5, <3>1, <4>1
    <3>3. ASSUME NEW j \in 0 .. (n - 1) - 1 PROVE W(p)[j] # Genesis
      <4>1. j \in 0 .. N /\ j + 1 <= N /\ j + 1 \in 0 .. n - 1
        BY <1>0, <2>6
      <4> QED
        BY <2>4, <2>5, <4>1
    <3> QED
      BY <3>1, <3>2, <3>3
  <2>8. d[p] = n - 1
    <3> HIDE DEF First
    <3> QED
      BY <1>5, <1>6, <2>0, <2>7
  <2>9. d[h] = n
    BY DEF n
  <2> QED
    BY <1>0, <2>6, <2>8, <2>9 DEF p
<1>9. \A x \in BlockHash : d[x] \in 0 .. N
  BY <1>5
<1> HIDE DEF First
<1> DEFINE R(v) == [x \in BlockHash |-> IF x = Genesis THEN 0 ELSE 1 + v[f[x]]]
           w == CHOOSE v : v = R(v)
<1>10. d = R(d)
  <2>1. d = [x \in BlockHash |-> d[x]]
    BY DEF d
  <2>2. \A x \in BlockHash : d[x] = IF x = Genesis THEN 0 ELSE 1 + d[f[x]]
    <3> TAKE x \in BlockHash
    <3>1. x # Genesis => d[x] = d[f[x]] + 1 /\ f[x] \in BlockHash
      BY <1>0, <1>8
    <3>2. x # Genesis => d[f[x]] \in Int
      BY <1>9, <3>1
    <3> QED
      BY <1>7, <3>1, <3>2
  <2> QED
    BY <2>1, <2>2
<1>11. w = R(w)
  BY <1>10, Zenon
<1>12. \A h : DepthOf(f, h) = w[h]
  BY Zenon DEF DepthOf
<1> HIDE DEF w
<1>13. \A x \in BlockHash : w[x] = IF x = Genesis THEN 0 ELSE 1 + w[f[x]]
  BY <1>11, Zenon
<1>14. \A x \in BlockHash : w[x] = d[x]
  <2> DEFINE A == {k \in Nat : \A x \in BlockHash : d[x] = k => w[x] = k}
  <2>1. 0 \in A
    <3>1. ASSUME NEW x \in BlockHash, d[x] = 0, x # Genesis PROVE FALSE
      <4>1. d[x] = d[f[x]] + 1 /\ d[f[x]] \in Nat
        BY <1>0, <1>8, <1>9, <3>1
      <4> QED
        BY <3>1, <4>1
    <3> QED
      BY <1>13, <3>1
  <2>2. \A k \in Nat : k \in A => k + 1 \in A
    <3> SUFFICES ASSUME NEW k \in Nat, k \in A, NEW x \in BlockHash, d[x] = k + 1
                 PROVE  w[x] = k + 1
      OBVIOUS
    <3>1. x # Genesis
      BY <1>7
    <3>2. d[x] = d[f[x]] + 1 /\ d[f[x]] \in Nat /\ f[x] \in BlockHash
      BY <1>0, <1>8, <1>9, <3>1
    <3>3. d[f[x]] = k
      BY <3>2
    <3> QED
      BY <1>13, <3>1, <3>2, <3>3
  <2> HIDE DEF A
  <2>3. \A k \in Nat : k \in A
    BY <2>1, <2>2, InductionOverSet
  <2>4. \A x \in BlockHash : d[x] \in Nat
    BY <1>9, <1>0
  <2> QED
    BY <2>3, <2>4 DEF A
<1>15. \A h \in BlockHash : DepthOf(f, h) = d[h]
  BY <1>12, <1>14
<1> QED
  BY <1>0, <1>7, <1>8, <1>9, <1>15 DEF N

------------------------------------------------------------------------------
(* The search trees. *)

\* All values of the nodes.
Heaps == [BlockHash -> Block]

\* The search tree of the nodes N: span[x] are the numbers whose search comes
\* by x.
LeftLinks(H, N, span, x) ==
  IF H[x].left = NULL THEN \A v \in N : v \in span[x] => ~(v < x)
  ELSE H[x].left \in N /\ \A v \in Int : v \in span[H[x].left] <=> (v \in span[x] /\ v < x)
RightLinks(H, N, span, x) ==
  IF H[x].right = NULL THEN \A v \in N : v \in span[x] => ~(v > x)
  ELSE H[x].right \in N /\ \A v \in Int : v \in span[H[x].right] <=> (v \in span[x] /\ v > x)
Under(span, y, z) ==
  \/ \A v \in Int : v \in span[y] => v \in span[z] /\ v < z
  \/ \A v \in Int : v \in span[y] => v \in span[z] /\ v > z
Apart(span, y, z) == \A v \in Int : ~(v \in span[y] /\ v \in span[z])
Spans(H, N, span) ==
  /\ span \in [N -> SUBSET Int]
  /\ \A x \in N : x \in span[x] /\ LeftLinks(H, N, span, x) /\ RightLinks(H, N, span, x)
  /\ \A y, z \in N : y # z => Under(span, y, z) \/ Under(span, z, y) \/ Apart(span, y, z)

\* N are the nodes of the search tree of r, which every number's search starts in.
SearchTree(H, r, N) ==
  /\ r \in N /\ N \subseteq BlockHash
  /\ \E span : Spans(H, N, span) /\ span[r] = Int

\* The number of nodes under a node is a measure that goes down on the way.
LEMMA SpanMeasure ==
  ASSUME NEW N \in SUBSET BlockHash, NEW X \in SUBSET Int, NEW Y \in SUBSET Int, X \subseteq Y,
         NEW y \in N, y \in Y, y \notin X
  PROVE  /\ Cardinality(N \cap X) < Cardinality(N \cap Y)
         /\ Cardinality(N \cap X) \in 0 .. Size /\ Cardinality(N \cap Y) \in 1 .. Size
<1> DEFINE A == N \cap X
           B == N \cap Y
<1>1. A \subseteq B /\ A # B /\ B \subseteq BlockHash /\ B # {}
  OBVIOUS
<1> HIDE DEF A, B
<1>2. IsFiniteSet(BlockHash) /\ Size = Cardinality(BlockHash)
  BY HashFacts DEF Size
<1>3. IsFiniteSet(B) /\ Cardinality(B) <= Size
  BY <1>1, <1>2, FS_Subset
<1>4. IsFiniteSet(A) /\ Cardinality(A) <= Cardinality(B) /\ Cardinality(A) # Cardinality(B)
  BY <1>1, <1>3, FS_Subset
<1>5. Cardinality(A) \in Nat /\ Cardinality(B) \in Nat /\ Size \in Nat
  BY <1>3, <1>4, FS_CardinalityType, HashFacts
<1>6. Cardinality(A) < Cardinality(B)
  BY <1>4, <1>5
<1> QED
  BY <1>3, <1>5, <1>6 DEF A, B

\* As a measure, the number of nodes in a span fits in a walk.
LEMMA SpanSize ==
  ASSUME NEW N \in SUBSET BlockHash, NEW Y \in SUBSET Int, NEW y \in N, y \in Y
  PROVE  Cardinality(N \cap Y) \in 1 .. Size
BY SpanMeasure, y \notin {}, {} \subseteq Y, {} \in SUBSET Int

\* What a search finds.
LEMMA FindIs ==
  ASSUME NEW H \in Heaps, NEW r, NEW N, SearchTree(H, r, N), NEW h \in BlockHash
  PROVE  Find(H, r, h) = IF h \in N THEN h ELSE NULL
<1>0. r \in N /\ N \subseteq BlockHash
  BY DEF SearchTree
<1>s. PICK span : Spans(H, N, span) /\ span[r] = Int
  BY DEF SearchTree
<1>1. /\ span \in [N -> SUBSET Int]
      /\ \A x \in N : x \in span[x] /\ LeftLinks(H, N, span, x) /\ RightLinks(H, N, span, x)
  BY <1>s DEF Spans
<1>2. /\ NULL \notin BlockHash /\ h \in Int /\ N \subseteq Int /\ NULL \in Pointer
      /\ BlockHash \subseteq Pointer /\ Size \in Nat /\ Pointer = BlockHash \cup {NULL}
  BY <1>0, HashFacts DEF Pointer
<1> DEFINE next == [y \in Pointer |-> IF y = NULL \/ y = h THEN y
                                      ELSE IF y > h THEN H[y].left ELSE H[y].right]
           T == {y \in N : h \in span[y]} \cup (IF h \in N THEN {} ELSE {NULL})
           m == [y \in Pointer |-> IF y \in N THEN Cardinality(N \cap span[y]) ELSE 0]
           z == Walk(next, r)[Size]
<1>3. ASSUME NEW y \in T PROVE /\ next[y] \in T /\ m[y] \in 0 .. Size
                               /\ next[y] # y => m[next[y]] < m[y]
  <2>1. CASE y = NULL
    BY <2>1, <1>0, <1>2
  <2>2. CASE y # NULL
    <3>1. y \in N /\ h \in span[y] /\ y \in Pointer /\ y \in Int /\ y \in span[y]
      BY <2>2, <1>0, <1>1, <1>2
    <3>2. m[y] = Cardinality(N \cap span[y]) /\ m[y] \in 1 .. Size
      BY <3>1, <1>0, <1>1, SpanSize
    <3>3. CASE y = h
      BY <3>1, <3>2, <3>3, <2>2
    <3>4. CASE y > h
      <4>1. next[y] = H[y].left
        BY <3>1, <3>4, <2>2, <1>2
      <4>2. CASE H[y].left = NULL
        <5>1. h \notin N
          BY <1>1, <3>1, <3>4, <4>2 DEF LeftLinks
        <5>2. m[NULL] = 0 /\ NULL \in T
          BY <1>0, <1>2, <5>1
        <5> QED
          BY <3>2, <4>1, <4>2, <5>2
      <4>3. CASE H[y].left # NULL
        <5> DEFINE q == H[y].left
        <5>1. q \in N /\ \A v \in Int : v \in span[q] <=> (v \in span[y] /\ v < y)
          BY <1>1, <3>1, <4>3 DEF LeftLinks
        <5> HIDE DEF q
        <5>2. h \in span[q] /\ y \notin span[q] /\ span[q] \subseteq span[y]
          BY <1>1, <1>2, <3>1, <3>4, <5>1
        <5>3. Cardinality(N \cap span[q]) < Cardinality(N \cap span[y])
          BY <1>0, <1>1, <3>1, <5>1, <5>2, SpanMeasure
        <5>4. m[q] = Cardinality(N \cap span[q])
          BY <5>1, <1>0, <1>2
        <5> QED
          BY <3>2, <4>1, <5>1, <5>2, <5>3, <5>4 DEF q
      <4> QED
        BY <4>2, <4>3
    <3>5. CASE y < h
      <4>1. next[y] = H[y].right
        BY <3>1, <3>5, <2>2, <1>2
      <4>2. CASE H[y].right = NULL
        <5>1. h \notin N
          BY <1>1, <3>1, <3>5, <4>2 DEF RightLinks
        <5>2. m[NULL] = 0 /\ NULL \in T
          BY <1>0, <1>2, <5>1
        <5> QED
          BY <3>2, <4>1, <4>2, <5>2
      <4>3. CASE H[y].right # NULL
        <5> DEFINE q == H[y].right
        <5>1. q \in N /\ \A v \in Int : v \in span[q] <=> (v \in span[y] /\ v > y)
          BY <1>1, <3>1, <4>3 DEF RightLinks
        <5> HIDE DEF q
        <5>2. h \in span[q] /\ y \notin span[q] /\ span[q] \subseteq span[y]
          BY <1>1, <1>2, <3>1, <3>5, <5>1
        <5>3. Cardinality(N \cap span[q]) < Cardinality(N \cap span[y])
          BY <1>0, <1>1, <3>1, <5>1, <5>2, SpanMeasure
        <5>4. m[q] = Cardinality(N \cap span[q])
          BY <5>1, <1>0, <1>2
        <5> QED
          BY <3>2, <4>1, <5>1, <5>2, <5>3, <5>4 DEF q
      <4> QED
        BY <4>2, <4>3
    <3> QED
      BY <3>1, <3>3, <3>4, <3>5, <1>2
  <2> QED
    BY <2>1, <2>2
<1>4. r \in T
  BY <1>0, <1>s, <1>2
<1>5. \A y \in T : next[y] = y => y = NULL \/ y = h
  <2> SUFFICES ASSUME NEW y \in T, next[y] = y, y # NULL, y # h PROVE FALSE
    OBVIOUS
  <2>1. y \in N /\ y \in Int /\ y \in Pointer /\ y \in span[y]
    BY <1>0, <1>1, <1>2
  <2>2. CASE y > h
    <3>1. H[y].left = y
      BY <2>1, <2>2
    <3> QED
      BY <1>1, <2>1, <3>1 DEF LeftLinks
  <2>3. CASE y < h
    <3>1. H[y].right = y
      BY <2>1, <2>3, <1>2
    <3> QED
      BY <1>1, <2>1, <3>1 DEF RightLinks
  <2> QED
    BY <1>2, <2>1, <2>2, <2>3
<1>6. \A y \in T : /\ y = NULL => h \notin N
                   /\ y = h => h \in N
  BY <1>0, <1>2
<1>7. Find(H, r, h) = z
  BY Zenon DEF Find
<1> HIDE DEF T, next, m
<1>8. Measured(T, next, m)
  BY <1>3 DEF Measured
<1>9. z \in T /\ next[z] = z
  BY <1>4, <1>8, Stops
<1> QED
  BY <1>5, <1>6, <1>7, <1>9

\* A search tree is not disturbed by changes elsewhere.
LEMMA SearchFrame ==
  ASSUME NEW H, NEW K, NEW r, NEW N, SearchTree(H, r, N),
         \A y \in N : K[y].left = H[y].left /\ K[y].right = H[y].right
  PROVE  SearchTree(K, r, N)
<1>1. PICK span : Spans(H, N, span) /\ span[r] = Int
  BY DEF SearchTree
<1>2. Spans(K, N, span)
  <2>1. ASSUME NEW x \in N PROVE x \in span[x] /\ LeftLinks(K, N, span, x) /\ RightLinks(K, N, span, x)
    <3>1. x \in span[x] /\ LeftLinks(H, N, span, x) /\ RightLinks(H, N, span, x)
      BY <1>1 DEF Spans
    <3>2. K[x].left = H[x].left /\ K[x].right = H[x].right
      OBVIOUS
    <3> QED
      BY <3>1, <3>2 DEF LeftLinks, RightLinks
  <2> QED
    BY <1>1, <2>1 DEF Spans
<1> QED
  BY <1>1, <1>2 DEF SearchTree

\* K is H with x linked to l, a node without a child on the side of x and with x
\* in its span.
Placed(H, K, span, x, l) ==
  /\ x \in span[l]
  /\ \/ l > x /\ H[l].left = NULL /\ K = [H EXCEPT ![l].left = x]
     \/ l < x /\ H[l].right = NULL /\ K = [H EXCEPT ![l].right = x]

\* The place of a new node x: a node l without a child on the side of x, with
\* x in its span.
LEMMA PlaceIs ==
  ASSUME NEW H \in Heaps, NEW r, NEW N \in SUBSET BlockHash, r \in N, NEW span, Spans(H, N, span),
         span[r] = Int, NEW x \in BlockHash \ N
  PROVE  \E l \in N : Placed(H, InsertOneNode(H, r, x), span, x, l)
<1>1. /\ span \in [N -> SUBSET Int]
      /\ \A y \in N : y \in span[y] /\ LeftLinks(H, N, span, y) /\ RightLinks(H, N, span, y)
  BY DEF Spans
<1>2. /\ NULL \notin BlockHash /\ x \in Int /\ N \subseteq Int /\ Size \in Nat
  BY HashFacts
<1> DEFINE next == [y \in BlockHash |-> IF y > x /\ H[y].left # NULL THEN H[y].left
                                        ELSE IF y < x /\ H[y].right # NULL THEN H[y].right
                                        ELSE y]
           T == {y \in N : x \in span[y]}
           m == [y \in BlockHash |-> Cardinality(N \cap span[y])]
           z == Walk(next, r)[Size]
<1>3. ASSUME NEW y \in T PROVE /\ next[y] \in T /\ m[y] \in 0 .. Size
                               /\ next[y] # y => m[next[y]] < m[y]
  <2>1. y \in N /\ x \in span[y] /\ y \in BlockHash /\ y \in Int /\ y \in span[y]
    BY <1>1, <1>2
  <2>2. m[y] = Cardinality(N \cap span[y]) /\ m[y] \in 1 .. Size
    BY <2>1, <1>1, SpanSize
  <2>3. CASE y > x /\ H[y].left # NULL
    <3> DEFINE q == H[y].left
    <3>1. q \in N /\ \A v \in Int : v \in span[q] <=> (v \in span[y] /\ v < y)
      BY <1>1, <2>1, <2>3 DEF LeftLinks
    <3>2. next[y] = q
      BY <2>1, <2>3
    <3> HIDE DEF q
    <3>3. x \in span[q] /\ y \notin span[q] /\ span[q] \subseteq span[y]
      BY <1>1, <1>2, <2>1, <2>3, <3>1
    <3>4. Cardinality(N \cap span[q]) < Cardinality(N \cap span[y])
      BY <1>1, <2>1, <3>1, <3>3, SpanMeasure
    <3>5. m[q] = Cardinality(N \cap span[q]) /\ q \in T
      BY <3>1, <3>3
    <3> QED
      BY <2>2, <3>2, <3>4, <3>5
  <2>4. CASE y < x /\ H[y].right # NULL
    <3> DEFINE q == H[y].right
    <3>1. q \in N /\ \A v \in Int : v \in span[q] <=> (v \in span[y] /\ v > y)
      BY <1>1, <2>1, <2>4 DEF RightLinks
    <3>2. next[y] = q
      BY <2>1, <2>4, <1>2
    <3> HIDE DEF q
    <3>3. x \in span[q] /\ y \notin span[q] /\ span[q] \subseteq span[y]
      BY <1>1, <1>2, <2>1, <2>4, <3>1
    <3>4. Cardinality(N \cap span[q]) < Cardinality(N \cap span[y])
      BY <1>1, <2>1, <3>1, <3>3, SpanMeasure
    <3>5. m[q] = Cardinality(N \cap span[q]) /\ q \in T
      BY <3>1, <3>3
    <3> QED
      BY <2>2, <3>2, <3>4, <3>5
  <2>5. CASE ~(y > x /\ H[y].left # NULL) /\ ~(y < x /\ H[y].right # NULL)
    <3>1. next[y] = y
      BY <2>1, <2>5
    <3> QED
      BY <2>2, <3>1
  <2> QED
    BY <2>3, <2>4, <2>5
<1>4. r \in T
  BY <1>2
<1>5. \A y \in T : next[y] = y => (y > x => H[y].left = NULL) /\ (y < x => H[y].right = NULL)
  <2> SUFFICES ASSUME NEW y \in T, next[y] = y
               PROVE  (y > x => H[y].left = NULL) /\ (y < x => H[y].right = NULL)
    OBVIOUS
  <2>1. y \in N /\ y \in BlockHash /\ y \in Int /\ y \in span[y]
    BY <1>1, <1>2
  <2>2. ASSUME y > x, H[y].left # NULL PROVE FALSE
    <3>1. H[y].left = y
      BY <2>1, <2>2
    <3> QED
      BY <1>1, <2>1, <2>2, <3>1 DEF LeftLinks
  <2>3. ASSUME y < x, H[y].right # NULL PROVE FALSE
    <3>1. H[y].right = y
      BY <2>1, <2>3, <1>2
    <3> QED
      BY <1>1, <2>1, <2>3, <3>1 DEF RightLinks
  <2> QED
    BY <2>2, <2>3
<1>6. T \subseteq N /\ \A y \in T : x \in span[y]
  OBVIOUS
<1>7. InsertOneNode(H, r, x) = IF z > x THEN [H EXCEPT ![z].left = x]
                               ELSE IF z < x THEN [H EXCEPT ![z].right = x]
                               ELSE H
  BY Zenon DEF InsertOneNode
<1> HIDE DEF T, next, m
<1>8. Measured(T, next, m)
  BY <1>3 DEF Measured
<1>9. z \in T /\ next[z] = z
  BY <1>4, <1>8, Stops
<1> HIDE DEF z
<1>10. z \in N /\ x \in span[z] /\ z \in Int /\ z # x
  BY <1>2, <1>6, <1>9
<1>11. CASE z > x
  BY <1>5, <1>7, <1>9, <1>10, <1>11 DEF Placed
<1>12. CASE z < x
  BY <1>2, <1>5, <1>7, <1>9, <1>10, <1>12 DEF Placed
<1> QED
  BY <1>2, <1>10, <1>11, <1>12

\* Only the pointers of the search trees may differ.
SameFamily(H, K) ==
  \A y \in BlockHash : /\ K[y].child = H[y].child /\ K[y].sibling = H[y].sibling
                       /\ K[y].parent = H[y].parent

\* A node linked to the left of the last node on its way takes over the part of
\* the span that the left side of that node had; all other spans stay.
LEMMA InsertLeft ==
  ASSUME NEW H \in Heaps, NEW N \in SUBSET BlockHash, NEW span, Spans(H, N, span),
         NEW x \in BlockHash \ N, H[x].left = NULL, H[x].right = NULL,
         NEW l \in N, x \in span[l], l > x, H[l].left = NULL, NEW r \in N,
         NEW K, K = [H EXCEPT ![l].left = x], NEW S \in [N \cup {x} -> SUBSET Int],
         \A y \in N : S[y] = span[y], \A v \in Int : v \in S[x] <=> (v \in span[l] /\ v < l)
  PROVE  Spans(K, N \cup {x}, S) /\ S[r] = span[r]
<1>1. /\ span \in [N -> SUBSET Int]
      /\ \A y \in N : y \in span[y] /\ LeftLinks(H, N, span, y) /\ RightLinks(H, N, span, y)
      /\ \A y, z \in N : y # z => Under(span, y, z) \/ Under(span, z, y) \/ Apart(span, y, z)
  BY DEF Spans
<1>2. /\ NULL \notin BlockHash /\ x \in Int /\ N \subseteq Int /\ l \in Int /\ x # NULL /\ x \notin N
  BY HashFacts
<1>3. /\ K[l].left = x /\ K[l].right = H[l].right
      /\ \A y \in N : y # l => K[y].left = H[y].left /\ K[y].right = H[y].right
      /\ K[x].left = NULL /\ K[x].right = NULL
  BY DEF Heaps, Block
<1>4. /\ \A y \in N : S[y] = span[y]
      /\ \A v \in Int : v \in S[x] <=> (v \in span[l] /\ v < l)
      /\ S \in [N \cup {x} -> SUBSET Int]
  BY <1>1, <1>2
<1>5. \A y \in N : y \in span[l] => ~(y < l)
  BY <1>1 DEF LeftLinks
<1>6. x \in S[x]
  BY <1>2, <1>4
<1>7. ASSUME NEW y \in N, y # l
      PROVE  /\ x \in span[y] => ~(x < y /\ H[y].left = NULL) /\ ~(x > y /\ H[y].right = NULL)
             /\ Under(S, x, y) \/ Apart(S, x, y)
  <2>0. y \in Int /\ y \in span[y] /\ l \in span[l]
    BY <1>1, <1>2
  <2>1. CASE Under(span, y, l)
    <3>1. \A v \in Int : v \in span[y] => v \in span[l] /\ v > l
      BY <1>5, <2>0, <2>1 DEF Under
    <3>2. Apart(S, x, y)
      BY <1>2, <1>4, <3>1 DEF Apart
    <3> QED
      BY <1>2, <3>1, <3>2
  <2>2. CASE Under(span, l, y)
    <3>1. CASE \A v \in Int : v \in span[l] => v \in span[y] /\ v < y
      <4>1. H[y].left # NULL
        BY <1>1, <1>2, <2>0, <3>1 DEF LeftLinks
      <4>2. Under(S, x, y)
        BY <1>2, <1>4, <3>1 DEF Under
      <4> QED
        BY <1>2, <2>0, <3>1, <4>1, <4>2
    <3>2. CASE \A v \in Int : v \in span[l] => v \in span[y] /\ v > y
      <4>1. H[y].right # NULL
        BY <1>1, <1>2, <2>0, <3>2 DEF RightLinks
      <4>2. Under(S, x, y)
        BY <1>2, <1>4, <3>2 DEF Under
      <4> QED
        BY <1>2, <2>0, <3>2, <4>1, <4>2
    <3> QED
      BY <2>2, <3>1, <3>2 DEF Under
  <2>3. CASE Apart(span, y, l)
    <3>1. x \notin span[y]
      BY <1>2, <2>3 DEF Apart
    <3>2. Apart(S, x, y)
      BY <1>2, <1>4, <2>3 DEF Apart
    <3> QED
      BY <3>1, <3>2
  <2> QED
    BY <1>1, <1>7, <2>1, <2>2, <2>3
<1>8. ASSUME NEW y \in N PROVE LeftLinks(K, N \cup {x}, S, y) /\ RightLinks(K, N \cup {x}, S, y)
  <2>0. y \in Int /\ y \in span[y] /\ LeftLinks(H, N, span, y) /\ RightLinks(H, N, span, y)
    BY <1>1, <1>2
  <2>1. CASE y = l
    <3>1. LeftLinks(K, N \cup {x}, S, y)
      BY <1>2, <1>3, <1>4, <2>1 DEF LeftLinks
    <3>2. RightLinks(K, N \cup {x}, S, y)
      <4>1. CASE H[l].right = NULL
        <5>1. \A v \in N \cup {x} : v \in span[l] => ~(v > l)
          BY <1>2, <2>0, <2>1, <4>1 DEF RightLinks
        <5> QED
          BY <1>3, <1>4, <2>1, <4>1, <5>1 DEF RightLinks
      <4>2. CASE H[l].right # NULL
        <5> DEFINE q == H[l].right
        <5>1. q \in N /\ \A v \in Int : v \in span[q] <=> (v \in span[l] /\ v > l)
          BY <2>0, <2>1, <4>2 DEF RightLinks
        <5> QED
          BY <1>3, <1>4, <2>1, <4>2, <5>1 DEF RightLinks
      <4> QED
        BY <4>1, <4>2
    <3> QED
      BY <3>1, <3>2
  <2>2. CASE y # l
    <3>0. K[y].left = H[y].left /\ K[y].right = H[y].right /\ S[y] = span[y]
      BY <1>3, <1>4, <2>2
    <3>1. LeftLinks(K, N \cup {x}, S, y)
      <4>1. CASE H[y].left = NULL
        <5>1. \A v \in N \cup {x} : v \in span[y] => ~(v < y)
          BY <1>2, <1>7, <2>0, <2>2, <4>1 DEF LeftLinks
        <5> QED
          BY <3>0, <4>1, <5>1 DEF LeftLinks
      <4>2. CASE H[y].left # NULL
        <5> DEFINE q == H[y].left
        <5>1. q \in N /\ \A v \in Int : v \in span[q] <=> (v \in span[y] /\ v < y)
          BY <2>0, <4>2 DEF LeftLinks
        <5> QED
          BY <1>4, <3>0, <4>2, <5>1 DEF LeftLinks
      <4> QED
        BY <4>1, <4>2
    <3>2. RightLinks(K, N \cup {x}, S, y)
      <4>1. CASE H[y].right = NULL
        <5>1. \A v \in N \cup {x} : v \in span[y] => ~(v > y)
          BY <1>2, <1>7, <2>0, <2>2, <4>1 DEF RightLinks
        <5> QED
          BY <3>0, <4>1, <5>1 DEF RightLinks
      <4>2. CASE H[y].right # NULL
        <5> DEFINE q == H[y].right
        <5>1. q \in N /\ \A v \in Int : v \in span[q] <=> (v \in span[y] /\ v > y)
          BY <2>0, <4>2 DEF RightLinks
        <5> QED
          BY <1>4, <3>0, <4>2, <5>1 DEF RightLinks
      <4> QED
        BY <4>1, <4>2
    <3> QED
      BY <3>1, <3>2
  <2> QED
    BY <2>1, <2>2
<1>9. LeftLinks(K, N \cup {x}, S, x) /\ RightLinks(K, N \cup {x}, S, x)
  <2>1. \A v \in N \cup {x} : v \in S[x] => ~(v < x) /\ ~(v > x)
    BY <1>2, <1>4, <1>5
  <2> QED
    BY <1>3, <2>1 DEF LeftLinks, RightLinks
<1>10. Under(S, x, l)
  BY <1>4 DEF Under
<1>11. ASSUME NEW y \in N \cup {x}, NEW z \in N \cup {x}, y # z
       PROVE  Under(S, y, z) \/ Under(S, z, y) \/ Apart(S, y, z)
  <2>1. CASE y \in N /\ z \in N
    <3>1. Under(span, y, z) \/ Under(span, z, y) \/ Apart(span, y, z)
      BY <1>1, <1>11, <2>1
    <3>2. S[y] = span[y] /\ S[z] = span[z]
      BY <1>4, <2>1
    <3> QED
      BY <3>1, <3>2 DEF Under, Apart
  <2>2. CASE y = x /\ z \in N
    BY <1>7, <1>10, <2>2
  <2>3. CASE z = x /\ y \in N
    <3>1. Under(S, x, y) \/ Apart(S, x, y)
      BY <1>7, <1>10, <2>3
    <3> QED
      BY <2>3, <3>1 DEF Apart
  <2> QED
    BY <1>11, <2>1, <2>2, <2>3
<1>12. \A y \in N : y \in S[y]
  BY <1>1, <1>4
<1> QED
  BY <1>4, <1>6, <1>8, <1>9, <1>11, <1>12 DEF Spans

\* The same for a node linked to the right.
LEMMA InsertRight ==
  ASSUME NEW H \in Heaps, NEW N \in SUBSET BlockHash, NEW span, Spans(H, N, span),
         NEW x \in BlockHash \ N, H[x].right = NULL, H[x].left = NULL,
         NEW l \in N, x \in span[l], l < x, H[l].right = NULL, NEW r \in N,
         NEW K, K = [H EXCEPT ![l].right = x], NEW S \in [N \cup {x} -> SUBSET Int],
         \A y \in N : S[y] = span[y], \A v \in Int : v \in S[x] <=> (v \in span[l] /\ v > l)
  PROVE  Spans(K, N \cup {x}, S) /\ S[r] = span[r]
<1>1. /\ span \in [N -> SUBSET Int]
      /\ \A y \in N : y \in span[y] /\ RightLinks(H, N, span, y) /\ LeftLinks(H, N, span, y)
      /\ \A y, z \in N : y # z => Under(span, y, z) \/ Under(span, z, y) \/ Apart(span, y, z)
  BY DEF Spans
<1>2. /\ NULL \notin BlockHash /\ x \in Int /\ N \subseteq Int /\ l \in Int /\ x # NULL /\ x \notin N
  BY HashFacts
<1>3. /\ K[l].right = x /\ K[l].left = H[l].left
      /\ \A y \in N : y # l => K[y].right = H[y].right /\ K[y].left = H[y].left
      /\ K[x].right = NULL /\ K[x].left = NULL
  BY DEF Heaps, Block
<1>4. /\ \A y \in N : S[y] = span[y]
      /\ \A v \in Int : v \in S[x] <=> (v \in span[l] /\ v > l)
      /\ S \in [N \cup {x} -> SUBSET Int]
  BY <1>1, <1>2
<1>5. \A y \in N : y \in span[l] => ~(y > l)
  BY <1>1 DEF RightLinks
<1>6. x \in S[x]
  BY <1>2, <1>4
<1>7. ASSUME NEW y \in N, y # l
      PROVE  /\ x \in span[y] => ~(x > y /\ H[y].right = NULL) /\ ~(x < y /\ H[y].left = NULL)
             /\ Under(S, x, y) \/ Apart(S, x, y)
  <2>0. y \in Int /\ y \in span[y] /\ l \in span[l]
    BY <1>1, <1>2
  <2>1. CASE Under(span, y, l)
    <3>1. \A v \in Int : v \in span[y] => v \in span[l] /\ v < l
      BY <1>5, <2>0, <2>1 DEF Under
    <3>2. Apart(S, x, y)
      BY <1>2, <1>4, <3>1 DEF Apart
    <3> QED
      BY <1>2, <3>1, <3>2
  <2>2. CASE Under(span, l, y)
    <3>1. CASE \A v \in Int : v \in span[l] => v \in span[y] /\ v > y
      <4>1. H[y].right # NULL
        BY <1>1, <1>2, <2>0, <3>1 DEF RightLinks
      <4>2. Under(S, x, y)
        BY <1>2, <1>4, <3>1 DEF Under
      <4> QED
        BY <1>2, <2>0, <3>1, <4>1, <4>2
    <3>2. CASE \A v \in Int : v \in span[l] => v \in span[y] /\ v < y
      <4>1. H[y].left # NULL
        BY <1>1, <1>2, <2>0, <3>2 DEF LeftLinks
      <4>2. Under(S, x, y)
        BY <1>2, <1>4, <3>2 DEF Under
      <4> QED
        BY <1>2, <2>0, <3>2, <4>1, <4>2
    <3> QED
      BY <2>2, <3>1, <3>2 DEF Under
  <2>3. CASE Apart(span, y, l)
    <3>1. x \notin span[y]
      BY <1>2, <2>3 DEF Apart
    <3>2. Apart(S, x, y)
      BY <1>2, <1>4, <2>3 DEF Apart
    <3> QED
      BY <3>1, <3>2
  <2> QED
    BY <1>1, <1>7, <2>1, <2>2, <2>3
<1>8. ASSUME NEW y \in N PROVE RightLinks(K, N \cup {x}, S, y) /\ LeftLinks(K, N \cup {x}, S, y)
  <2>0. y \in Int /\ y \in span[y] /\ RightLinks(H, N, span, y) /\ LeftLinks(H, N, span, y)
    BY <1>1, <1>2
  <2>1. CASE y = l
    <3>1. RightLinks(K, N \cup {x}, S, y)
      BY <1>2, <1>3, <1>4, <2>1 DEF RightLinks
    <3>2. LeftLinks(K, N \cup {x}, S, y)
      <4>1. CASE H[l].left = NULL
        <5>1. \A v \in N \cup {x} : v \in span[l] => ~(v < l)
          BY <1>2, <2>0, <2>1, <4>1 DEF LeftLinks
        <5> QED
          BY <1>3, <1>4, <2>1, <4>1, <5>1 DEF LeftLinks
      <4>2. CASE H[l].left # NULL
        <5> DEFINE q == H[l].left
        <5>1. q \in N /\ \A v \in Int : v \in span[q] <=> (v \in span[l] /\ v < l)
          BY <2>0, <2>1, <4>2 DEF LeftLinks
        <5> QED
          BY <1>3, <1>4, <2>1, <4>2, <5>1 DEF LeftLinks
      <4> QED
        BY <4>1, <4>2
    <3> QED
      BY <3>1, <3>2
  <2>2. CASE y # l
    <3>0. K[y].right = H[y].right /\ K[y].left = H[y].left /\ S[y] = span[y]
      BY <1>3, <1>4, <2>2
    <3>1. RightLinks(K, N \cup {x}, S, y)
      <4>1. CASE H[y].right = NULL
        <5>1. \A v \in N \cup {x} : v \in span[y] => ~(v > y)
          BY <1>2, <1>7, <2>0, <2>2, <4>1 DEF RightLinks
        <5> QED
          BY <3>0, <4>1, <5>1 DEF RightLinks
      <4>2. CASE H[y].right # NULL
        <5> DEFINE q == H[y].right
        <5>1. q \in N /\ \A v \in Int : v \in span[q] <=> (v \in span[y] /\ v > y)
          BY <2>0, <4>2 DEF RightLinks
        <5> QED
          BY <1>4, <3>0, <4>2, <5>1 DEF RightLinks
      <4> QED
        BY <4>1, <4>2
    <3>2. LeftLinks(K, N \cup {x}, S, y)
      <4>1. CASE H[y].left = NULL
        <5>1. \A v \in N \cup {x} : v \in span[y] => ~(v < y)
          BY <1>2, <1>7, <2>0, <2>2, <4>1 DEF LeftLinks
        <5> QED
          BY <3>0, <4>1, <5>1 DEF LeftLinks
      <4>2. CASE H[y].left # NULL
        <5> DEFINE q == H[y].left
        <5>1. q \in N /\ \A v \in Int : v \in span[q] <=> (v \in span[y] /\ v < y)
          BY <2>0, <4>2 DEF LeftLinks
        <5> QED
          BY <1>4, <3>0, <4>2, <5>1 DEF LeftLinks
      <4> QED
        BY <4>1, <4>2
    <3> QED
      BY <3>1, <3>2
  <2> QED
    BY <2>1, <2>2
<1>9. RightLinks(K, N \cup {x}, S, x) /\ LeftLinks(K, N \cup {x}, S, x)
  <2>1. \A v \in N \cup {x} : v \in S[x] => ~(v > x) /\ ~(v < x)
    BY <1>2, <1>4, <1>5
  <2> QED
    BY <1>3, <2>1 DEF RightLinks, LeftLinks
<1>10. Under(S, x, l)
  BY <1>4 DEF Under
<1>11. ASSUME NEW y \in N \cup {x}, NEW z \in N \cup {x}, y # z
       PROVE  Under(S, y, z) \/ Under(S, z, y) \/ Apart(S, y, z)
  <2>1. CASE y \in N /\ z \in N
    <3>1. Under(span, y, z) \/ Under(span, z, y) \/ Apart(span, y, z)
      BY <1>1, <1>11, <2>1
    <3>2. S[y] = span[y] /\ S[z] = span[z]
      BY <1>4, <2>1
    <3> QED
      BY <3>1, <3>2 DEF Under, Apart
  <2>2. CASE y = x /\ z \in N
    BY <1>7, <1>10, <2>2
  <2>3. CASE z = x /\ y \in N
    <3>1. Under(S, x, y) \/ Apart(S, x, y)
      BY <1>7, <1>10, <2>3
    <3> QED
      BY <2>3, <3>1 DEF Apart
  <2> QED
    BY <1>11, <2>1, <2>2, <2>3
<1>12. \A y \in N : y \in S[y]
  BY <1>1, <1>4
<1> QED
  BY <1>4, <1>6, <1>8, <1>9, <1>11, <1>12 DEF Spans

\* A new node is inserted.
LEMMA InsertIs ==
  ASSUME NEW H \in Heaps, NEW r, NEW N, SearchTree(H, r, N),
         NEW x \in BlockHash \ N, H[x].left = NULL, H[x].right = NULL
  PROVE  LET K == InsertOneNode(H, r, x)
         IN  /\ K \in Heaps /\ SearchTree(K, r, N \cup {x}) /\ SameFamily(H, K)
             /\ \A y \in BlockHash \ N : K[y] = H[y]
<1> DEFINE K == InsertOneNode(H, r, x)
<1>1. PICK span : Spans(H, N, span) /\ span[r] = Int
  BY DEF SearchTree
<1>2. r \in N /\ N \in SUBSET BlockHash
  BY DEF SearchTree
<1>3. PICK l \in N : Placed(H, K, span, x, l)
  BY <1>1, <1>2, PlaceIs
<1> HIDE DEF K
<1>4. K \in Heaps /\ SameFamily(H, K) /\ \A y \in BlockHash \ N : K[y] = H[y]
  <2>1. x \in Pointer
    BY HashFacts
  <2> QED
    BY <1>2, <1>3, <2>1 DEF Heaps, Block, SameFamily, Placed
<1>5. \E span2 : Spans(K, N \cup {x}, span2) /\ span2[r] = Int
  <2>1. CASE l > x /\ H[l].left = NULL /\ K = [H EXCEPT ![l].left = x]
    <3> DEFINE S == [y \in N \cup {x} |-> IF y = x THEN {v \in span[l] : v < l} ELSE span[y]]
    <3>0. x \in span[l]
      BY <1>3 DEF Placed
    <3>1. /\ S \in [N \cup {x} -> SUBSET Int] /\ \A y \in N : S[y] = span[y]
          /\ \A v \in Int : v \in S[x] <=> (v \in span[l] /\ v < l)
      BY <1>1 DEF Spans
    <3> HIDE DEF S
    <3>2. Spans(K, N \cup {x}, S) /\ S[r] = span[r]
      BY <1>1, <1>2, <2>1, <3>0, <3>1, InsertLeft
    <3> QED
      BY <1>1, <3>2
  <2>2. CASE l < x /\ H[l].right = NULL /\ K = [H EXCEPT ![l].right = x]
    <3> DEFINE S == [y \in N \cup {x} |-> IF y = x THEN {v \in span[l] : v > l} ELSE span[y]]
    <3>0. x \in span[l]
      BY <1>3 DEF Placed
    <3>1. /\ S \in [N \cup {x} -> SUBSET Int] /\ \A y \in N : S[y] = span[y]
          /\ \A v \in Int : v \in S[x] <=> (v \in span[l] /\ v > l)
      BY <1>1 DEF Spans
    <3> HIDE DEF S
    <3>2. Spans(K, N \cup {x}, S) /\ S[r] = span[r]
      BY <1>1, <1>2, <2>2, <3>0, <3>1, InsertRight
    <3> QED
      BY <1>1, <3>2
  <2> QED
    BY <1>3, <2>1, <2>2 DEF Placed
<1>6. SearchTree(K, r, N \cup {x})
  BY <1>2, <1>5 DEF SearchTree
<1> QED
  BY <1>4, <1>6 DEF K

\* A node alone is a search tree.
LEMMA SingleSearch ==
  ASSUME NEW H, NEW x \in BlockHash, H[x].left = NULL, H[x].right = NULL
  PROVE  SearchTree(H, x, {x})
<1> DEFINE S == [y \in {x} |-> Int]
<1>1. x \in Int
  BY HashFacts
<1>2. Spans(H, {x}, S)
  BY <1>1 DEF Spans, LeftLinks, RightLinks
<1> QED
  BY <1>2 DEF SearchTree

\* q lists the members of X once each.
Lists(q, X) ==
  /\ q \in Seq(BlockHash) /\ X \subseteq BlockHash
  /\ \A k \in 1 .. Len(q) : q[k] \in X
  /\ \A x \in X : \E k \in 1 .. Len(q) : q[k] = x
  /\ \A j, k \in 1 .. Len(q) : q[j] = q[k] => j = k

\* The empty list lists the empty set.
LEMMA ListsEmpty == Lists(<<>>, {})
BY DEF Lists

\* Lists of disjoint sets, one behind the other, list the union.
LEMMA ListsConcat ==
  ASSUME NEW a, NEW A, Lists(a, A), NEW b, NEW B, Lists(b, B), A \cap B = {}
  PROVE  Lists(a \o b, A \cup B)
<1> DEFINE q == a \o b
           m == Len(a)
           n == Len(b)
<1>1. a \in Seq(BlockHash) /\ b \in Seq(BlockHash) /\ m \in Nat /\ n \in Nat
  BY LenProperties DEF Lists
<1>2. /\ q \in Seq(BlockHash) /\ Len(q) = m + n
      /\ \A k \in 1 .. m : q[k] = a[k]
      /\ \A k \in 1 .. n : q[m + k] = b[k]
  <2>1. /\ q \in Seq(BlockHash) /\ Len(q) = m + n
        /\ \A k \in 1 .. m + n : q[k] = IF k <= m THEN a[k] ELSE b[k - m]
    BY <1>1, ConcatProperties
  <2> HIDE DEF q, m, n
  <2>2. \A k \in 1 .. m : q[k] = a[k]
    BY <1>1, <2>1
  <2>3. \A k \in 1 .. n : m + k \in 1 .. m + n /\ (m + k) - m = k /\ ~(m + k <= m)
    BY <1>1
  <2> QED
    BY <2>1, <2>2, <2>3
<1>3. /\ \A k \in 1 .. m : a[k] \in A
      /\ \A x \in A : \E k \in 1 .. m : a[k] = x
      /\ \A j, k \in 1 .. m : a[j] = a[k] => j = k
      /\ \A k \in 1 .. n : b[k] \in B
      /\ \A x \in B : \E k \in 1 .. n : b[k] = x
      /\ \A j, k \in 1 .. n : b[j] = b[k] => j = k
      /\ A \cup B \subseteq BlockHash
  BY DEF Lists
<1> HIDE DEF q, m, n
<1>4. \A k \in 1 .. m + n : k \in 1 .. m \/ (k - m \in 1 .. n /\ m + (k - m) = k)
  BY <1>1
<1>5. \A k \in 1 .. m + n : \/ k \in 1 .. m /\ q[k] = a[k] /\ q[k] \in A
                            \/ k - m \in 1 .. n /\ q[k] = b[k - m] /\ q[k] \in B
  <2> TAKE k \in 1 .. m + n
  <2>1. CASE k \in 1 .. m
    BY <1>2, <1>3, <2>1
  <2>2. CASE k - m \in 1 .. n /\ m + (k - m) = k
    BY <1>2, <1>3, <2>2
  <2> QED
    BY <1>4, <2>1, <2>2
<1>6. \A k \in 1 .. m + n : q[k] \in A \cup B
  BY <1>5
<1>7. \A x \in A \cup B : \E k \in 1 .. m + n : q[k] = x
  <2> TAKE x \in A \cup B
  <2>1. CASE x \in A
    <3>1. PICK k \in 1 .. m : a[k] = x
      BY <1>3, <2>1
    <3> QED
      BY <1>1, <1>2, <3>1
  <2>2. CASE x \in B
    <3>1. PICK k \in 1 .. n : b[k] = x
      BY <1>3, <2>2
    <3>2. m + k \in 1 .. m + n
      BY <1>1
    <3> QED
      BY <1>2, <3>1, <3>2
  <2> QED
    BY <2>1, <2>2
<1>8. \A j, k \in 1 .. m + n : q[j] = q[k] => j = k
  <2> SUFFICES ASSUME NEW j \in 1 .. m + n, NEW k \in 1 .. m + n, q[j] = q[k] PROVE j = k
    OBVIOUS
  <2>1. ~(q[j] \in A /\ q[j] \in B)
    OBVIOUS
  <2>2. CASE q[j] \in A
    <3>1. j \in 1 .. m /\ q[j] = a[j] /\ k \in 1 .. m /\ q[k] = a[k]
      BY <1>5, <2>1, <2>2
    <3> QED
      BY <1>3, <3>1
  <2>3. CASE q[j] \in B
    <3>1. j - m \in 1 .. n /\ q[j] = b[j - m] /\ k - m \in 1 .. n /\ q[k] = b[k - m]
      BY <1>5, <2>1, <2>3
    <3>2. j - m = k - m
      BY <1>3, <3>1
    <3> QED
      BY <1>1, <3>2
  <2> QED
    BY <1>5, <2>2, <2>3
<1> QED
  BY <1>2, <1>3, <1>6, <1>7, <1>8 DEF Lists, q

\* The list of one hash.
LEMMA ListsOne ==
  ASSUME NEW x \in BlockHash PROVE Lists(<<x>>, {x})
BY DEF Lists

\* One level of the order of insert_subtree_by_hash.
OrderStep(H, k, v) ==
  [y \in Pointer |-> IF k = 0 \/ y = NULL THEN <<>>
                     ELSE <<y>> \o v[H[y].left] \o v[H[y].right]]

\* The recursion of PreOrder has the levels it is written with.
LEMMA OrderExists ==
  ASSUME NEW H \in Heaps, NEW s
  PROVE  \E w : /\ PreOrder(H, s) = w[Size][s]
                /\ \A k \in 0 .. Size : w[k] = OrderStep(H, k, w[k - 1])
<1> DEFINE N == Size
           none == <<>>
           S == [Pointer -> Seq(BlockHash)]
           b == [y \in Pointer |-> none]
           f == [k \in 1 .. N |-> [v \in S |-> OrderStep(H, k, v)]]
           R(w) == [k \in 0 .. N |-> OrderStep(H, k, w[k - 1])]
<1>0. N \in Nat /\ \A y \in Pointer : y = NULL \/ y \in BlockHash
  BY HashFacts DEF Pointer
<1>n. none \in Seq(BlockHash)
  OBVIOUS
<1>1. ASSUME NEW k \in 1 .. N, NEW v \in S PROVE OrderStep(H, k, v) \in S
  <2>1. ASSUME NEW y \in Pointer, y # NULL
        PROVE  <<y>> \o v[H[y].left] \o v[H[y].right] \in Seq(BlockHash)
    <3>1. y \in BlockHash /\ H[y].left \in Pointer /\ H[y].right \in Pointer
      BY <1>0, <2>1 DEF Heaps, Block
    <3>2. <<y>> \in Seq(BlockHash) /\ v[H[y].left] \in Seq(BlockHash) /\ v[H[y].right] \in Seq(BlockHash)
      BY <3>1
    <3> QED
      BY <3>2, ConcatProperties
  <2>2. k # 0
    BY <1>0
  <2> QED
    BY <1>n, <2>1, <2>2 DEF OrderStep
<1>2. f \in [1 .. N -> [S -> S]]
  BY <1>1
<1>3. b \in S
  BY <1>n
<1>4. \A k \in 1 .. N : f[k] = [v \in S |-> OrderStep(H, k, v)]
  OBVIOUS
<1>5. \A v : OrderStep(H, 0, v) = b
  BY DEF OrderStep
<1> HIDE DEF f, b, S, N
<1>6. PICK g : Recurs(N, S, b, f, g)
  BY <1>0, <1>2, <1>3, BoundedRecursion
<1>7. g \in [0 .. N -> S] /\ g[0] = b /\ \A k \in 1 .. N : g[k] = f[k][g[k - 1]]
  BY <1>6 DEF Recurs
<1>8. \A k \in 0 .. N : g[k] = OrderStep(H, k, g[k - 1])
  <2> TAKE k \in 0 .. N
  <2>1. CASE k = 0
    BY <1>5, <1>7, <2>1
  <2>2. CASE k # 0
    <3>1. k \in 1 .. N /\ k - 1 \in 0 .. N
      BY <1>0, <2>2
    <3>2. g[k - 1] \in S /\ g[k] = f[k][g[k - 1]]
      BY <1>7, <3>1
    <3> QED
      BY <1>4, <3>1, <3>2
  <2> QED
    BY <2>1, <2>2
<1>9. g = R(g)
  BY <1>7, <1>8
<1> DEFINE w == CHOOSE v : v = R(v)
<1>10. PreOrder(H, s) = w[Size][s]
  BY Zenon DEF PreOrder, OrderStep, N
<1>11. w = R(w)
  BY <1>9, Zenon
<1> HIDE DEF w
<1>12. \A k \in 0 .. N : w[k] = OrderStep(H, k, w[k - 1])
  BY <1>11, Zenon
<1> QED
  BY <1>10, <1>12 DEF N

\* The order names every node of the search tree once.
LEMMA PreOrderLists ==
  ASSUME NEW H \in Heaps, NEW s, NEW M, SearchTree(H, s, M)
  PROVE  Lists(PreOrder(H, s), M)
<1>0. s \in M /\ M \in SUBSET BlockHash
  BY DEF SearchTree
<1>s. PICK span : Spans(H, M, span) /\ span[s] = Int
  BY DEF SearchTree
<1>1. /\ span \in [M -> SUBSET Int]
      /\ \A x \in M : x \in span[x] /\ LeftLinks(H, M, span, x) /\ RightLinks(H, M, span, x)
  BY <1>s DEF Spans
<1>2. PICK w : /\ PreOrder(H, s) = w[Size][s]
               /\ \A k \in 0 .. Size : w[k] = OrderStep(H, k, w[k - 1])
  BY OrderExists
<1>3. Size \in Nat /\ NULL \notin BlockHash /\ M \subseteq Int /\ NULL \in Pointer /\ BlockHash \subseteq Pointer
  BY <1>0, HashFacts
<1>4. \A k \in 0 .. Size : w[k][NULL] = <<>>
  BY <1>2, <1>3 DEF OrderStep
<1> DEFINE m(y) == Cardinality(M \cap span[y])
           A == {k \in 0 .. Size : \A y \in M : m(y) <= k => Lists(w[k][y], M \cap span[y])}
<1>5. \A y \in M : m(y) \in 1 .. Size
  BY <1>0, <1>1, SpanSize
<1>6. 0 \in A
  BY <1>3, <1>5
<1>7. ASSUME NEW k \in 0 .. Size - 1, k \in A PROVE k + 1 \in A
  <2>0. k + 1 \in 0 .. Size /\ (k + 1) - 1 = k /\ k + 1 # 0 /\ k \in 0 .. Size /\ k \in Nat
    BY <1>3
  <2>1. ASSUME NEW y \in M, m(y) <= k + 1 PROVE Lists(w[k + 1][y], M \cap span[y])
    <3> DEFINE a == w[k][H[y].left]
               b == w[k][H[y].right]
               X == {v \in M \cap span[y] : v < y}
               Y == {v \in M \cap span[y] : v > y}
    <3>0. y \in BlockHash /\ y \in Pointer /\ y # NULL /\ y \in Int /\ y \in span[y] /\ m(y) \in Int
      BY <1>0, <1>1, <1>3, <1>5
    <3>1. w[k + 1][y] = <<y>> \o a \o b
      <4>1. w[k + 1] = OrderStep(H, k + 1, w[k])
        BY <1>2, <2>0
      <4> QED
        BY <2>0, <3>0, <4>1 DEF OrderStep
    <3>2. Lists(a, X)
      <4>1. CASE H[y].left = NULL
        <5>1. X = {}
          BY <1>0, <1>1, <4>1 DEF LeftLinks
        <5> QED
          BY <1>4, <2>0, <4>1, <5>1, ListsEmpty
      <4>2. CASE H[y].left # NULL
        <5> DEFINE q == H[y].left
        <5>1. q \in M /\ \A v \in Int : v \in span[q] <=> (v \in span[y] /\ v < y)
          BY <1>1, <4>2 DEF LeftLinks
        <5> HIDE DEF q
        <5>2. y \notin span[q] /\ span[q] \subseteq span[y] /\ M \cap span[q] = X
          BY <1>1, <1>3, <3>0, <5>1
        <5>3. m(q) < m(y) /\ m(q) \in Int
          BY <1>0, <1>1, <1>5, <3>0, <5>1, <5>2, SpanMeasure
        <5>4. m(q) <= k
          BY <2>0, <2>1, <3>0, <5>3
        <5>5. Lists(w[k][q], M \cap span[q])
          BY <1>7, <5>1, <5>4
        <5> QED
          BY <5>2, <5>5 DEF q
      <4> QED
        BY <4>1, <4>2
    <3>3. Lists(b, Y)
      <4>1. CASE H[y].right = NULL
        <5>1. Y = {}
          BY <1>0, <1>1, <4>1 DEF RightLinks
        <5> QED
          BY <1>4, <2>0, <4>1, <5>1, ListsEmpty
      <4>2. CASE H[y].right # NULL
        <5> DEFINE q == H[y].right
        <5>1. q \in M /\ \A v \in Int : v \in span[q] <=> (v \in span[y] /\ v > y)
          BY <1>1, <4>2 DEF RightLinks
        <5> HIDE DEF q
        <5>2. y \notin span[q] /\ span[q] \subseteq span[y] /\ M \cap span[q] = Y
          BY <1>1, <1>3, <3>0, <5>1
        <5>3. m(q) < m(y) /\ m(q) \in Int
          BY <1>0, <1>1, <1>5, <3>0, <5>1, <5>2, SpanMeasure
        <5>4. m(q) <= k
          BY <2>0, <2>1, <3>0, <5>3
        <5>5. Lists(w[k][q], M \cap span[q])
          BY <1>7, <5>1, <5>4
        <5> QED
          BY <5>2, <5>5 DEF q
      <4> QED
        BY <4>1, <4>2
    <3>4. X \cap Y = {} /\ {y} \cap X = {} /\ ({y} \cup X) \cap Y = {} /\ ({y} \cup X) \cup Y = M \cap span[y]
      <4>1. \A v \in X : v \in M /\ v \in span[y] /\ v \in Int /\ v < y
        BY <1>3
      <4>2. \A v \in Y : v \in M /\ v \in span[y] /\ v \in Int /\ v > y
        BY <1>3
      <4>3. \A v \in M : v \in span[y] => v = y \/ v \in X \/ v \in Y
        BY <1>3, <3>0
      <4> HIDE DEF X, Y
      <4>4. X \cap Y = {} /\ {y} \cap X = {} /\ ({y} \cup X) \cap Y = {}
        BY <3>0, <4>1, <4>2
      <4>5. ({y} \cup X) \cup Y = M \cap span[y]
        BY <3>0, <4>1, <4>2, <4>3
      <4> QED
        BY <4>4, <4>5
    <3> HIDE DEF a, b, X, Y
    <3>5. Lists(<<y>> \o a, {y} \cup X)
      BY <3>0, <3>2, <3>4, ListsOne, ListsConcat
    <3>6. Lists((<<y>> \o a) \o b, ({y} \cup X) \cup Y)
      BY <3>3, <3>4, <3>5, ListsConcat
    <3> QED
      BY <3>1, <3>4, <3>6
  <2> QED
    BY <2>0, <2>1
<1> HIDE DEF A
<1>8. \A k \in 0 .. Size : k \in A
  BY <1>3, <1>6, <1>7, InductionUpto
<1>9. Size \in A /\ m(s) <= Size
  BY <1>0, <1>3, <1>5, <1>8
<1>10. Lists(w[Size][s], M \cap span[s])
  BY <1>0, <1>9 DEF A
<1>11. M \cap span[s] = M
  BY <1>3, <1>s
<1> QED
  BY <1>2, <1>10, <1>11

\* One round of insert_subtree_by_hash.
MoveNode(r, x, v) == InsertOneNode(Unlinked(v, x), r, x)

\* Setting left and right of a node to NULL leaves the family tree alone.
LEMMA UnlinkedIs ==
  ASSUME NEW H \in Heaps, NEW x \in BlockHash
  PROVE  LET K == Unlinked(H, x)
         IN  /\ K \in Heaps /\ SameFamily(H, K) /\ K[x].left = NULL /\ K[x].right = NULL
             /\ \A y \in BlockHash : y # x => K[y] = H[y]
<1>1. NULL \in Pointer
  BY HashFacts
<1> QED
  BY <1>1 DEF Heaps, Block, Unlinked, SameFamily

\* What holds after the nodes X have been moved.
Moved(H, r, N, M, X, v) ==
  /\ v \in Heaps /\ SearchTree(v, r, N \cup X) /\ SameFamily(H, v)
  /\ \A y \in BlockHash \ (N \cup M) : v[y] = H[y]

\* One more node is taken out of the moved tree and put into the other one.
LEMMA MoveOne ==
  ASSUME NEW H \in Heaps, NEW r, NEW N \in SUBSET BlockHash, NEW M \in SUBSET BlockHash, N \cap M = {},
         NEW X \in SUBSET M, NEW v, Moved(H, r, N, M, X, v), NEW x \in M \ X
  PROVE  Moved(H, r, N, M, X \cup {x}, MoveNode(r, x, v))
<1> DEFINE u == Unlinked(v, x)
           K == InsertOneNode(u, r, x)
<1>1. v \in Heaps /\ SearchTree(v, r, N \cup X) /\ SameFamily(H, v)
      /\ \A y \in BlockHash \ (N \cup M) : v[y] = H[y]
  BY DEF Moved
<1>2. /\ u \in Heaps /\ SameFamily(v, u) /\ u[x].left = NULL /\ u[x].right = NULL
      /\ \A y \in BlockHash : y # x => u[y] = v[y]
  BY <1>1, UnlinkedIs
<1> HIDE DEF u
<1>3. x \in BlockHash \ (N \cup X) /\ N \cup X \subseteq BlockHash
  OBVIOUS
<1>4. SearchTree(u, r, N \cup X)
  <2>1. \A y \in N \cup X : u[y].left = v[y].left /\ u[y].right = v[y].right
    BY <1>2, <1>3
  <2> QED
    BY <1>1, <2>1, SearchFrame
<1>5. /\ K \in Heaps /\ SearchTree(K, r, (N \cup X) \cup {x}) /\ SameFamily(u, K)
      /\ \A y \in BlockHash \ (N \cup X) : K[y] = u[y] \/ y = x
  BY <1>2, <1>3, <1>4, InsertIs
<1> HIDE DEF K
<1>6. SameFamily(H, K)
  BY <1>1, <1>2, <1>5 DEF SameFamily
<1>7. \A y \in BlockHash \ (N \cup M) : K[y] = H[y]
  BY <1>1, <1>2, <1>3, <1>5
<1>8. (N \cup X) \cup {x} = N \cup (X \cup {x})
  OBVIOUS
<1>9. MoveNode(r, x, v) = K
  BY DEF K, u, MoveNode
<1> QED
  BY <1>5, <1>6, <1>7, <1>8, <1>9 DEF Moved

\* insert_one_node keeps the types, whatever the pointers are.
LEMMA InsertTyped ==
  ASSUME NEW H \in Heaps, NEW r \in BlockHash, NEW x \in BlockHash
  PROVE  InsertOneNode(H, r, x) \in Heaps
<1> DEFINE next == [y \in BlockHash |-> IF y > x /\ H[y].left # NULL THEN H[y].left
                                        ELSE IF y < x /\ H[y].right # NULL THEN H[y].right
                                        ELSE y]
           z == Walk(next, r)[Size]
<1>1. \A y \in BlockHash : next[y] \in BlockHash
  BY DEF Heaps, Block, Pointer
<1>2. InsertOneNode(H, r, x) = IF z > x THEN [H EXCEPT ![z].left = x]
                               ELSE IF z < x THEN [H EXCEPT ![z].right = x]
                               ELSE H
  BY Zenon DEF InsertOneNode
<1> HIDE DEF next
<1>3. Walks(BlockHash, next, r, Walk(next, r))
  BY <1>1, WalkFacts
<1>4. z \in BlockHash
  BY <1>3, HashFacts DEF Walks
<1> HIDE DEF z
<1>5. x \in Pointer
  BY HashFacts
<1> QED
  BY <1>2, <1>4, <1>5 DEF Heaps, Block

\* The nodes of one search tree are moved into another.
LEMMA InsertSubtreeIs ==
  ASSUME NEW H \in Heaps, NEW r, NEW N, SearchTree(H, r, N), NEW s, NEW M, SearchTree(H, s, M),
         N \cap M = {}
  PROVE  Moved(H, r, N, M, M, InsertSubtree(H, r, s))
<1> DEFINE order == PreOrder(H, s)
           n == Len(order)
           f == [k \in 1 .. n |-> [v \in Heaps |-> MoveNode(r, order[k], v)]]
           R(w) == [k \in 0 .. n |-> IF k = 0 THEN H ELSE MoveNode(r, order[k], w[k - 1])]
<1>0. r \in N /\ N \in SUBSET BlockHash /\ M \in SUBSET BlockHash
  BY DEF SearchTree
<1>1. Lists(order, M)
  BY PreOrderLists
<1> HIDE DEF order
<1>2. /\ n \in Nat /\ \A k \in 1 .. n : order[k] \in M
      /\ \A x \in M : \E k \in 1 .. n : order[k] = x
      /\ \A j, k \in 1 .. n : order[j] = order[k] => j = k
  BY <1>1, LenProperties DEF Lists
<1> HIDE DEF n
<1>3. ASSUME NEW k \in 1 .. n, NEW v \in Heaps PROVE MoveNode(r, order[k], v) \in Heaps
  <2>1. order[k] \in BlockHash
    BY <1>0, <1>2
  <2> QED
    BY <1>0, <2>1, UnlinkedIs, InsertTyped DEF MoveNode
<1>4. f \in [1 .. n -> [Heaps -> Heaps]]
  BY <1>3
<1>5. \A k \in 1 .. n : f[k] = [v \in Heaps |-> MoveNode(r, order[k], v)]
  OBVIOUS
<1> HIDE DEF f
<1>6. PICK g : Recurs(n, Heaps, H, f, g)
  BY <1>2, <1>4, BoundedRecursion
<1>7. g \in [0 .. n -> Heaps] /\ g[0] = H /\ \A k \in 1 .. n : g[k] = f[k][g[k - 1]]
  BY <1>6 DEF Recurs
<1>8. \A k \in 0 .. n : g[k] = IF k = 0 THEN H ELSE MoveNode(r, order[k], g[k - 1])
  <2> TAKE k \in 0 .. n
  <2>1. CASE k = 0
    BY <1>7, <2>1
  <2>2. CASE k # 0
    <3>1. k \in 1 .. n /\ k - 1 \in 0 .. n
      BY <1>2, <2>2
    <3>2. g[k - 1] \in Heaps /\ g[k] = f[k][g[k - 1]]
      BY <1>7, <3>1
    <3> QED
      BY <1>5, <2>2, <3>1, <3>2
  <2> QED
    BY <2>1, <2>2
<1>9. g = R(g)
  BY <1>7, <1>8
<1> DEFINE w == CHOOSE v : v = R(v)
<1>10. InsertSubtree(H, r, s) = w[n]
  BY Zenon DEF InsertSubtree, MoveNode, order, n
<1>11. w = R(w)
  BY <1>9, Zenon
<1> HIDE DEF w
<1>12. \A k \in 0 .. n : w[k] = IF k = 0 THEN H ELSE MoveNode(r, order[k], w[k - 1])
  BY <1>11, Zenon
<1> DEFINE X(k) == {order[j] : j \in 1 .. k}
           A == {k \in 0 .. n : Moved(H, r, N, M, X(k), w[k])}
<1>13. 0 \in A
  <2>1. X(0) = {} /\ N \cup X(0) = N
    OBVIOUS
  <2>2. w[0] = H /\ 0 \in 0 .. n
    BY <1>2, <1>12
  <2> HIDE DEF X
  <2>3. Moved(H, r, N, M, X(0), H)
    BY <2>1 DEF Moved, SameFamily
  <2> QED
    BY <2>2, <2>3
<1>14. ASSUME NEW k \in 0 .. n - 1, k \in A PROVE k + 1 \in A
  <2>1. k + 1 \in 1 .. n /\ k + 1 \in 0 .. n /\ (k + 1) - 1 = k /\ k + 1 # 0 /\ k \in Nat /\ k < n
    BY <1>2
  <2>2. X(k) \subseteq M /\ order[k + 1] \in M
    BY <1>2, <2>1
  <2>3. order[k + 1] \notin X(k)
    <3> SUFFICES ASSUME NEW j \in 1 .. k, order[j] = order[k + 1] PROVE FALSE
      OBVIOUS
    <3>1. j \in 1 .. n /\ j # k + 1
      BY <1>2, <2>1
    <3> QED
      BY <1>2, <2>1, <3>1
  <2>4. X(k + 1) = X(k) \cup {order[k + 1]}
    <3>1. \A j \in 1 .. k + 1 : j \in 1 .. k \/ j = k + 1
      BY <2>1
    <3>2. 1 .. k \subseteq 1 .. k + 1 /\ k + 1 \in 1 .. k + 1
      BY <2>1
    <3> QED
      BY <3>1, <3>2
  <2>5. w[k + 1] = MoveNode(r, order[k + 1], w[k])
    BY <1>12, <2>1
  <2>6. Moved(H, r, N, M, X(k), w[k])
    BY <1>14
  <2> HIDE DEF X
  <2>7. Moved(H, r, N, M, X(k) \cup {order[k + 1]}, MoveNode(r, order[k + 1], w[k]))
    BY <1>0, <2>2, <2>3, <2>6, MoveOne
  <2> QED
    BY <2>1, <2>4, <2>5, <2>7
<1>15. n \in A
  <2> HIDE DEF A
  <2> QED
    BY <1>2, <1>13, <1>14, InductionUpto
<1>16. X(n) = M
  BY <1>2
<1> QED
  BY <1>10, <1>15, <1>16

------------------------------------------------------------------------------
(* The family trees. *)

\* A list without repetition is not longer than there are blocks.
LEMMA ListsShort ==
  ASSUME NEW q, NEW X, Lists(q, X)
  PROVE  Len(q) \in 0 .. Size
<1> DEFINE n == Len(q)
           I == 1 .. n
           f == [k \in I |-> q[k]]
<1>1. n \in Nat /\ X \subseteq BlockHash /\ \A k \in 1 .. n : q[k] \in X
  BY LenProperties DEF Lists
<1>2. \A j, k \in 1 .. n : q[j] = q[k] => j = k
  BY DEF Lists
<1> HIDE DEF n
<1>3. f \in [I -> BlockHash] /\ \A j, k \in I : f[j] = f[k] => j = k
  BY <1>1, <1>2
<1> HIDE DEF f
<1>4. f \in Injection(I, BlockHash)
  BY <1>3 DEF Injection, IsInjective
<1>5. Cardinality(I) <= Cardinality(BlockHash)
  <2>1. IsFiniteSet(BlockHash)
    BY HashFacts
  <2> HIDE DEF I
  <2> QED
    BY <1>4, <2>1, FS_Injection
<1>6. Cardinality(I) = n
  BY <1>1, FS_Interval
<1> QED
  BY <1>1, <1>5, <1>6, HashFacts DEF Size, n

\* The child list of p is q, whose members are X.
ChildList(H, p, q, X) ==
  /\ Lists(q, X)
  /\ H[p].child = IF Len(q) = 0 THEN NULL ELSE q[1]
  /\ \A k \in 1 .. Len(q) : H[q[k]].sibling = IF k = Len(q) THEN NULL ELSE q[k + 1]

\* The loop over the siblings runs through the child list and ends at NULL.
LEMMA ChildrenIs ==
  ASSUME NEW H \in Heaps, NEW p \in BlockHash, NEW q, NEW X, ChildList(H, p, q, X)
  PROVE  Children(H, p) = q
<1> DEFINE n == Len(q)
           next == [y \in Pointer |-> IF y = NULL THEN NULL ELSE H[y].sibling]
           w == Walk(next, H[p].child)
<1>0. NULL \notin BlockHash /\ NULL \in Pointer /\ BlockHash \subseteq Pointer /\ Size \in Nat
  BY HashFacts
<1>1. /\ n \in 0 .. Size /\ q \in Seq(BlockHash)
      /\ H[p].child = IF n = 0 THEN NULL ELSE q[1]
      /\ \A k \in 1 .. n : q[k] \in BlockHash /\ H[q[k]].sibling = IF k = n THEN NULL ELSE q[k + 1]
  BY ListsShort DEF ChildList, Lists
<1>2. \A y \in Pointer : next[y] \in Pointer
  BY <1>0 DEF Heaps, Block, Pointer
<1>3. H[p].child \in Pointer
  BY DEF Heaps, Block
<1>4. \A k \in 1 .. n : next[q[k]] = IF k = n THEN NULL ELSE q[k + 1]
  BY <1>0, <1>1
<1>5. Children(H, p) = [k \in 1 .. RoundsTo(NULL, w) |-> w[k - 1]]
  BY Zenon DEF Children
<1>6. q = [k \in 1 .. n |-> q[k]]
  BY <1>1
<1> HIDE DEF next, n
<1>7. Walks(Pointer, next, H[p].child, w)
  BY <1>2, <1>3, WalkFacts
<1> HIDE DEF w
<1>8. w[0] = H[p].child /\ \A k \in 1 .. Size : w[k] = next[w[k - 1]]
  BY <1>7 DEF Walks
<1> DEFINE A == {k \in 0 .. n : w[k] = IF k = n THEN NULL ELSE q[k + 1]}
<1>9. 0 \in A
  BY <1>1, <1>8
<1>10. ASSUME NEW k \in 0 .. n - 1, k \in A PROVE k + 1 \in A
  <2>1. k + 1 \in 1 .. n /\ k + 1 \in 1 .. Size /\ (k + 1) - 1 = k /\ k # n /\ k + 1 \in 0 .. n
    BY <1>0, <1>1
  <2>2. w[k] = q[k + 1] /\ w[k + 1] = next[w[k]]
    BY <1>8, <1>10, <2>1
  <2>3. next[q[k + 1]] = IF k + 1 = n THEN NULL ELSE q[(k + 1) + 1]
    BY <1>4, <2>1
  <2> QED
    BY <2>1, <2>2, <2>3
<1> HIDE DEF A
<1>11. \A k \in 0 .. n : k \in A
  <2>1. n \in Nat
    BY <1>0, <1>1
  <2> QED
    BY <1>9, <1>10, <2>1, InductionUpto
<1>12. \A k \in 0 .. n : w[k] = IF k = n THEN NULL ELSE q[k + 1]
  BY <1>11 DEF A
<1>13. w[n] = NULL /\ \A j \in 0 .. n - 1 : w[j] # NULL
  <2>1. n \in 0 .. n
    BY <1>0, <1>1
  <2>2. ASSUME NEW j \in 0 .. n - 1 PROVE w[j] # NULL
    <3>1. j \in 0 .. n /\ j # n /\ j + 1 \in 1 .. n
      BY <1>0, <1>1
    <3> QED
      BY <1>0, <1>1, <1>12, <3>1
  <2> QED
    BY <1>12, <2>1, <2>2
<1>14. RoundsTo(NULL, w) = n
  BY <1>1, <1>13, RoundsToIs
<1>15. ASSUME NEW k \in 1 .. n PROVE w[k - 1] = q[k]
  <2>1. k - 1 \in 0 .. n /\ k - 1 # n /\ (k - 1) + 1 = k
    BY <1>0, <1>1
  <2> QED
    BY <1>12, <2>1
<1> QED
  BY <1>5, <1>6, <1>14, <1>15

\* The heap in which x has become the last child of p.
Appended(H, p, x, X, K) ==
  /\ K \in Heaps
  /\ \A y \in BlockHash :
        /\ K[y].left = H[y].left /\ K[y].right = H[y].right
        /\ K[y].parent = IF y = x THEN p ELSE H[y].parent
        /\ y # p => K[y].child = H[y].child
        /\ y \notin X => K[y].sibling = H[y].sibling
  /\ \E q : ChildList(K, p, q, X \cup {x})

\* The end of add_block_by_parent_hash makes x the last child of p, whether p
\* had a child or not, and changes no other child list.
LEMMA AppendIs ==
  ASSUME NEW H \in Heaps, NEW p \in BlockHash, NEW x \in BlockHash, NEW q, NEW X,
         ChildList(H, p, q, X), x \notin X, H[x].sibling = NULL
  PROVE  Appended(H, p, x, X, AppendChild(H, p, x))
<1> DEFINE n == Len(q)
           K == AppendChild(H, p, x)
           L == [H EXCEPT ![x].parent = p]
           c == q \o <<x>>
<1>0. NULL \notin BlockHash /\ BlockHash \subseteq Pointer /\ x \in Pointer /\ p \in Pointer /\ NULL \in Pointer
  BY HashFacts
<1>1. /\ n \in Nat /\ q \in Seq(BlockHash) /\ Lists(q, X) /\ X \subseteq BlockHash
      /\ H[p].child = IF n = 0 THEN NULL ELSE q[1]
      /\ \A k \in 1 .. n : q[k] \in X /\ H[q[k]].sibling = IF k = n THEN NULL ELSE q[k + 1]
      /\ \A j, k \in 1 .. n : q[j] = q[k] => j = k
  BY ListsShort, LenProperties DEF ChildList, Lists
<1>2. Lists(c, X \cup {x})
  <2>1. X \cap {x} = {}
    OBVIOUS
  <2> QED
    BY <1>1, <2>1, ListsOne, ListsConcat
<1>3. Len(c) = n + 1 /\ c[n + 1] = x /\ \A k \in 1 .. n : c[k] = q[k]
  <2>1. <<x>> \in Seq(BlockHash) /\ Len(<<x>>) = 1 /\ <<x>>[1] = x
    OBVIOUS
  <2>2. /\ Len(c) = n + 1
        /\ \A k \in 1 .. n + 1 : c[k] = IF k <= n THEN q[k] ELSE <<x>>[k - n]
    BY <1>1, <2>1, ConcatProperties
  <2> HIDE DEF c, n
  <2>3. n + 1 \in 1 .. n + 1 /\ (n + 1) - n = 1 /\ ~(n + 1 <= n)
    BY <1>1
  <2>4. \A k \in 1 .. n : k \in 1 .. n + 1 /\ k <= n
    BY <1>1
  <2> QED
    BY <2>1, <2>2, <2>3, <2>4
<1>4. L \in Heaps /\ \A y \in BlockHash :
        /\ L[y].left = H[y].left /\ L[y].right = H[y].right /\ L[y].child = H[y].child
        /\ L[y].parent = (IF y = x THEN p ELSE H[y].parent) /\ L[y].sibling = H[y].sibling
  BY <1>0 DEF Heaps, Block
<1> HIDE DEF c
<1>5. CASE n = 0
  <2>1. K = [L EXCEPT ![p].child = x]
    BY <1>1, <1>5 DEF AppendChild
  <2> HIDE DEF L, K
  <2>2. K \in Heaps /\ \A y \in BlockHash :
          /\ K[y].left = L[y].left /\ K[y].right = L[y].right /\ K[y].parent = L[y].parent
          /\ K[y].child = (IF y = p THEN x ELSE L[y].child) /\ K[y].sibling = L[y].sibling
    BY <1>0, <1>4, <2>1 DEF Heaps, Block
  <2>3. ChildList(K, p, c, X \cup {x})
    <3>1. \A k \in 1 .. Len(c) : k = 1 /\ k = Len(c) /\ c[k] = x
      BY <1>3, <1>5
    <3> QED
      BY <1>2, <1>3, <1>4, <1>5, <2>2, <3>1 DEF ChildList
  <2>4. \A y \in BlockHash :
        /\ K[y].left = H[y].left /\ K[y].right = H[y].right
        /\ K[y].parent = IF y = x THEN p ELSE H[y].parent
        /\ y # p => K[y].child = H[y].child
        /\ y \notin X => K[y].sibling = H[y].sibling
    BY <1>4, <2>2
  <2> QED
    BY <2>2, <2>3, <2>4 DEF Appended, K
<1>6. CASE n # 0
  <2> DEFINE l == q[n]
  <2>0. n \in 1 .. n
    BY <1>1, <1>6
  <2>1. K = [L EXCEPT ![l].sibling = x]
    <3>1. H[p].child # NULL
      <4>1. 1 \in 1 .. n
        BY <1>1, <1>6
      <4> QED
        BY <1>0, <1>1, <1>6, <4>1
    <3>2. Children(H, p) = q
      BY ChildrenIs
    <3> QED
      BY <3>1, <3>2 DEF AppendChild, Last
  <2>2. l \in X /\ l \in BlockHash
    BY <1>1, <2>0
  <2> HIDE DEF L, K
  <2>3. K \in Heaps /\ \A y \in BlockHash :
          /\ K[y].left = L[y].left /\ K[y].right = L[y].right /\ K[y].parent = L[y].parent
          /\ K[y].child = L[y].child /\ K[y].sibling = (IF y = l THEN x ELSE L[y].sibling)
    BY <1>0, <1>4, <2>1, <2>2 DEF Heaps, Block
  <2>4. ASSUME NEW k \in 1 .. n + 1
        PROVE  K[c[k]].sibling = IF k = n + 1 THEN NULL ELSE c[k + 1]
    <3>1. CASE k = n + 1
      BY <1>3, <1>4, <2>2, <2>3, <3>1
    <3>2. CASE k = n
      <4>1. c[n] = l /\ n # n + 1
        BY <1>1, <1>3, <2>0
      <4> QED
        BY <1>3, <2>2, <2>3, <3>2, <4>1
    <3>3. CASE k # n + 1 /\ k # n
      <4>1. k \in 1 .. n /\ k + 1 \in 1 .. n
        BY <1>1, <3>3
      <4>2. q[k] # l /\ q[k] \in BlockHash
        BY <1>1, <2>0, <3>3, <4>1
      <4> QED
        BY <1>1, <1>3, <1>4, <2>3, <3>3, <4>1, <4>2
    <3> QED
      BY <3>1, <3>2, <3>3
  <2>5. K[p].child = c[1]
    <3>1. 1 \in 1 .. n
      BY <1>1, <1>6
    <3> QED
      BY <1>1, <1>3, <1>4, <1>6, <2>3, <3>1
  <2>6. ChildList(K, p, c, X \cup {x})
    <3>1. Len(c) # 0
      BY <1>1, <1>3
    <3> QED
      BY <1>2, <1>3, <2>4, <2>5, <3>1 DEF ChildList
  <2>7. \A y \in BlockHash :
        /\ K[y].left = H[y].left /\ K[y].right = H[y].right
        /\ K[y].parent = IF y = x THEN p ELSE H[y].parent
        /\ y # p => K[y].child = H[y].child
        /\ y \notin X => K[y].sibling = H[y].sibling
    BY <1>4, <2>2, <2>3
  <2> QED
    BY <2>3, <2>6, <2>7 DEF Appended, K
<1> QED
  BY <1>5, <1>6

\* The family tree of the nodes N below r, for the headers f.
Kids(H, r, N, p) == {y \in N \ {r} : H[y].parent = p}
FamilyTree(f, H, r, N) ==
  /\ r \in N /\ N \subseteq BlockHash
  /\ \A y \in N \ {r} : y # Genesis /\ H[y].parent = f[y] /\ f[y] \in N
  /\ \A p \in N : \E q : ChildList(H, p, q, Kids(H, r, N, p))

\* A child list is read from its first child and the siblings of its members.
LEMMA ListFrame ==
  ASSUME NEW H, NEW K, NEW p, NEW q, NEW X, ChildList(H, p, q, X),
         K[p].child = H[p].child, \A y \in X : K[y].sibling = H[y].sibling
  PROVE  ChildList(K, p, q, X)
BY DEF ChildList, Lists

\* A family tree is not disturbed by changes elsewhere; and a pointer of its
\* root to a parent or a sibling does not belong to it.
LEMMA FamilyFrame ==
  ASSUME NEW f, NEW H, NEW K, NEW r, NEW N, FamilyTree(f, H, r, N),
         \A y \in N : K[y].child = H[y].child,
         \A y \in N \ {r} : K[y].sibling = H[y].sibling /\ K[y].parent = H[y].parent
  PROVE  FamilyTree(f, K, r, N)
<1>1. r \in N /\ N \subseteq BlockHash /\ \A y \in N \ {r} : y # Genesis /\ H[y].parent = f[y] /\ f[y] \in N
  BY DEF FamilyTree
<1>2. ASSUME NEW p \in N PROVE \E q : ChildList(K, p, q, Kids(K, r, N, p))
  <2>1. PICK q : ChildList(H, p, q, Kids(H, r, N, p))
    BY DEF FamilyTree
  <2>2. Kids(K, r, N, p) = Kids(H, r, N, p)
    BY DEF Kids
  <2>3. \A y \in Kids(H, r, N, p) : K[y].sibling = H[y].sibling
    BY DEF Kids
  <2>4. K[p].child = H[p].child
    OBVIOUS
  <2>5. ChildList(K, p, q, Kids(H, r, N, p))
    BY <2>1, <2>3, <2>4, ListFrame
  <2> QED
    BY <2>2, <2>5
<1> QED
  BY <1>1, <1>2 DEF FamilyTree

\* A node without children is a family tree of its own.
LEMMA SingleFamily ==
  ASSUME NEW f, NEW H, NEW x \in BlockHash, H[x].child = NULL
  PROVE  FamilyTree(f, H, x, {x})
<1> DEFINE none == <<>>
<1>1. Kids(H, x, {x}, x) = {}
  BY DEF Kids
<1>2. Len(none) = 0 /\ Lists(none, {})
  BY ListsEmpty
<1> HIDE DEF none
<1>3. ChildList(H, x, none, {})
  BY <1>2 DEF ChildList
<1> QED
  BY <1>1, <1>3 DEF FamilyTree

\* What hanging the tree of b below p, in the tree of r, makes of the heap H; M are the
\* nodes of b.
Hung(f, H, K, r, U, p, b, M) ==
  /\ K \in Heaps /\ FamilyTree(f, K, r, U) /\ FamilyTree(f, K, b, M)
  /\ K[b].parent = p
  /\ \A y \in BlockHash : /\ K[y].left = H[y].left /\ K[y].right = H[y].right
                          /\ y # b => K[y].parent = H[y].parent
  /\ \A y \in BlockHash \ U : K[y] = H[y]
  /\ K[r].sibling = H[r].sibling

\* A tree is hung below a node of another one.
LEMMA FamilyJoin ==
  ASSUME NEW f, NEW H \in Heaps, NEW r, NEW N, FamilyTree(f, H, r, N),
         NEW b, NEW M, FamilyTree(f, H, b, M), N \cap M = {},
         NEW p \in N, f[b] = p, b # Genesis, H[b].sibling = NULL,
         NEW K, K = AppendChild(H, p, b), NEW U, U = N \cup M
  PROVE  Hung(f, H, K, r, U, p, b, M)
<1> DEFINE X == Kids(H, r, N, p)
<1>1. /\ r \in N /\ N \subseteq BlockHash
      /\ \A y \in N \ {r} : y # Genesis /\ H[y].parent = f[y] /\ f[y] \in N
      /\ \A y \in N : \E q : ChildList(H, y, q, Kids(H, r, N, y))
  BY DEF FamilyTree
<1>2. /\ b \in M /\ M \subseteq BlockHash
      /\ \A y \in M \ {b} : y # Genesis /\ H[y].parent = f[y] /\ f[y] \in M
      /\ \A y \in M : \E q : ChildList(H, y, q, Kids(H, b, M, y))
  BY DEF FamilyTree
<1>3. PICK q : ChildList(H, p, q, X)
  BY <1>1
<1>4. b \notin X /\ X \subseteq N \ {r} /\ b \in BlockHash /\ p \in BlockHash /\ b \notin N
  BY <1>1, <1>2 DEF Kids
<1> HIDE DEF X
<1>5. Appended(H, p, b, X, K)
  BY <1>3, <1>4, AppendIs
<1>6. /\ K \in Heaps
      /\ \A y \in BlockHash :
           /\ K[y].left = H[y].left /\ K[y].right = H[y].right
           /\ K[y].parent = IF y = b THEN p ELSE H[y].parent
           /\ y # p => K[y].child = H[y].child
           /\ y \notin X => K[y].sibling = H[y].sibling
      /\ \E c : ChildList(K, p, c, X \cup {b})
  BY <1>5 DEF Appended
<1>7. ASSUME NEW y \in U \ {r} PROVE y # Genesis /\ K[y].parent = f[y] /\ f[y] \in U
  BY <1>1, <1>2, <1>4, <1>6
<1>8. ASSUME NEW y \in U PROVE \E c : ChildList(K, y, c, Kids(K, r, U, y))
  <2>1. CASE y = p
    <3>1. Kids(K, r, U, p) = X \cup {b}
      <4>1. \A z \in N : z # b /\ z \in BlockHash /\ K[z].parent = H[z].parent
        BY <1>1, <1>4, <1>6
      <4>2. \A z \in M : z # b => K[z].parent \in M
        BY <1>2, <1>6
      <4>3. K[b].parent = p /\ p \notin M /\ b \notin N /\ r # b /\ r \notin M
        BY <1>1, <1>4, <1>6
      <4> QED
        BY <1>2, <4>1, <4>2, <4>3 DEF Kids, X
    <3> QED
      BY <1>6, <2>1, <3>1
  <2>2. CASE y \in N /\ y # p
    <3>1. Kids(K, r, U, y) = Kids(H, r, N, y)
      <4>1. \A z \in N : z # b /\ z \in BlockHash /\ K[z].parent = H[z].parent
        BY <1>1, <1>4, <1>6
      <4>2. \A z \in M : K[z].parent # y
        BY <1>2, <1>6, <2>2
      <4> QED
        BY <4>1, <4>2 DEF Kids
    <3>2. PICK c : ChildList(H, y, c, Kids(H, r, N, y))
      BY <1>1, <2>2
    <3>3. \A z \in Kids(H, r, N, y) : z \in BlockHash /\ z \notin X
      BY <1>1, <2>2 DEF Kids, X
    <3>4. K[y].child = H[y].child /\ \A z \in Kids(H, r, N, y) : K[z].sibling = H[z].sibling
      BY <1>1, <1>6, <2>2, <3>3
    <3>5. ChildList(K, y, c, Kids(H, r, N, y))
      BY <3>2, <3>4, ListFrame
    <3> QED
      BY <3>1, <3>5
  <2>3. CASE y \in M
    <3>1. Kids(K, r, U, y) = Kids(H, b, M, y)
      <4>1. \A z \in N : z # r => K[z].parent # y /\ z \notin M
        BY <1>1, <1>4, <1>6, <2>3
      <4>2. \A z \in M : z # b => K[z].parent = H[z].parent
        BY <1>2, <1>6
      <4>3. K[b].parent # y /\ r \notin M
        BY <1>1, <1>4, <1>6, <2>3
      <4> QED
        BY <4>1, <4>2, <4>3 DEF Kids
    <3>2. PICK c : ChildList(H, y, c, Kids(H, b, M, y))
      BY <1>2, <2>3
    <3>3. \A z \in Kids(H, b, M, y) : z \in BlockHash /\ z \notin X
      BY <1>2, <1>4 DEF Kids
    <3>4. K[y].child = H[y].child /\ \A z \in Kids(H, b, M, y) : K[z].sibling = H[z].sibling
      BY <1>2, <1>6, <2>3, <3>3
    <3>5. ChildList(K, y, c, Kids(H, b, M, y))
      BY <3>2, <3>4, ListFrame
    <3> QED
      BY <3>1, <3>5
  <2> QED
    BY <2>1, <2>2, <2>3
<1>9. FamilyTree(f, K, r, U)
  BY <1>1, <1>2, <1>7, <1>8 DEF FamilyTree
<1>10. \A y \in BlockHash \ U : K[y] = H[y]
  <2> TAKE y \in BlockHash \ U
  <2>1. y # b /\ y # p /\ y \notin X
    BY <1>2, <1>4
  <2>2. /\ K[y].left = H[y].left /\ K[y].right = H[y].right /\ K[y].parent = H[y].parent
        /\ K[y].child = H[y].child /\ K[y].sibling = H[y].sibling
    BY <1>6, <2>1
  <2>3. K[y] \in Block /\ H[y] \in Block
    BY <1>6 DEF Heaps
  <2> QED
    BY <2>2, <2>3 DEF Block
<1>11. K[r].sibling = H[r].sibling
  BY <1>1, <1>4, <1>6
<1>12. FamilyTree(f, K, b, M)
  <2>1. \A y \in M : y \in BlockHash /\ y # p /\ y \notin X
    BY <1>2, <1>4
  <2>2. \A y \in M : K[y].child = H[y].child
    BY <1>6, <2>1
  <2>3. \A y \in M \ {b} : K[y].sibling = H[y].sibling /\ K[y].parent = H[y].parent
    BY <1>6, <2>1
  <2> QED
    BY <2>2, <2>3, FamilyFrame
<1> QED
  BY <1>4, <1>6, <1>9, <1>10, <1>11, <1>12 DEF Hung

\* One level of the descent of find_number_of_nodes.
BelowStep(H, k, v) ==
  [y \in BlockHash |->
      {y} \cup UNION {v[c] : c \in IF k = 0 THEN {} ELSE ToSet(Children(H, y))}]

\* The recursion of Family has the levels it is written with.
LEMMA BelowExists ==
  ASSUME NEW H, NEW r
  PROVE  \E w : /\ Family(H, r) = w[Size][r]
                /\ \A k \in 0 .. Size : w[k] = BelowStep(H, k, w[k - 1])
<1> DEFINE N == Size
           Lift(k, v) == BelowStep(H, k, v)
           R(m, w) == [k \in 0 .. m |-> Lift(k, w[k - 1])]
           A == {m \in Nat : \E g : g = R(m, g)}
<1>1. N \in Nat
  BY HashFacts
<1>3. ASSUME NEW v, NEW u PROVE Lift(0, v) = Lift(0, u)
  BY DEF BelowStep
<1> HIDE DEF Lift, N
<1>4. 0 \in A
  <2> DEFINE g == [k \in 0 .. 0 |-> Lift(k, 0)]
  <2>1. g[0] = Lift(0, 0) /\ Lift(0, 0) = Lift(0, g[0 - 1])
    BY <1>3
  <2>2. g = R(0, g)
    <3>1. g = [k \in 0 .. 0 |-> g[k]]
      OBVIOUS
    <3> HIDE DEF g
    <3>2. \A k \in 0 .. 0 : g[k] = Lift(k, g[k - 1])
      BY <2>1
    <3> QED
      BY <3>1, <3>2, Zenon
  <2> HIDE DEF g
  <2> QED
    BY <2>2
<1>5. ASSUME NEW m \in Nat, m \in A PROVE m + 1 \in A
  <2>1. PICK g : g = R(m, g)
    BY <1>5
  <2>2. \A k \in 0 .. m : g[k] = Lift(k, g[k - 1])
    BY <2>1, Zenon
  <2> DEFINE e == [k \in 0 .. m + 1 |-> IF k <= m THEN g[k] ELSE Lift(m + 1, g[m])]
  <2>3. ASSUME NEW k \in 0 .. m + 1 PROVE e[k] = Lift(k, e[k - 1])
    <3>1. CASE k = 0
      <4>1. e[0] = g[0] /\ 0 \in 0 .. m
        OBVIOUS
      <4> HIDE DEF e
      <4>2. e[0] = Lift(0, g[0 - 1])
        BY <2>2, <4>1
      <4>3. Lift(0, g[0 - 1]) = Lift(0, e[0 - 1])
        BY <1>3
      <4> QED
        BY <3>1, <4>2, <4>3
    <3>2. CASE k # 0 /\ k <= m
      <4>1. k \in 0 .. m /\ k - 1 \in 0 .. m + 1 /\ k - 1 <= m
        BY <3>2
      <4>2. e[k] = g[k] /\ e[k - 1] = g[k - 1]
        BY <3>2, <4>1
      <4> HIDE DEF e
      <4> QED
        BY <2>2, <3>2, <4>1, <4>2
    <3>3. CASE k = m + 1
      <4>1. k # 0 /\ ~(k <= m) /\ k - 1 = m /\ m \in 0 .. m + 1
        BY <3>3
      <4>2. e[k] = Lift(m + 1, g[m]) /\ e[m] = g[m]
        BY <4>1
      <4> HIDE DEF e
      <4> QED
        BY <3>3, <4>1, <4>2
    <3> QED
      BY <3>1, <3>2, <3>3
  <2>4. e = [k \in 0 .. m + 1 |-> e[k]]
    OBVIOUS
  <2> HIDE DEF e
  <2>5. e = R(m + 1, e)
    BY <2>3, <2>4, Zenon
  <2> QED
    BY <2>5
<1>6. \A m \in Nat : m \in A
  <2> HIDE DEF A
  <2> QED
    BY <1>4, <1>5, InductionOverSet
<1>7. \E g : g = R(N, g)
  BY <1>1, <1>6
<1> DEFINE w == CHOOSE v : v = R(N, v)
<1>8. Family(H, r) = w[N][r]
  BY Zenon DEF Family, BelowStep, N, Lift
<1>9. w = R(N, w)
  BY <1>7, Zenon
<1> HIDE DEF w
<1>10. \A k \in 0 .. N : w[k] = Lift(k, w[k - 1])
  BY <1>9, Zenon
<1> QED
  BY <1>8, <1>10 DEF N, Lift

\* One level of the descent of find_max_depth.
MaxStep(H, k, v) ==
  [y \in BlockHash |->
      LET c == IF k = 0 THEN <<>> ELSE Children(H, y)
      IN  FirstDeepest(y, [i \in 1 .. Len(c) |-> v[c[i]]])]

\* The recursion of MaxDepth has the levels it is written with.
LEMMA MaxExists ==
  ASSUME NEW H, NEW r
  PROVE  \E w : /\ MaxDepth(H, r) = w[Size][r]
                /\ \A k \in 0 .. Size : w[k] = MaxStep(H, k, w[k - 1])
<1> DEFINE N == Size
           Lift(k, v) == MaxStep(H, k, v)
           R(m, w) == [k \in 0 .. m |-> Lift(k, w[k - 1])]
           A == {m \in Nat : \E g : g = R(m, g)}
<1>1. N \in Nat
  BY HashFacts
<1>3. ASSUME NEW v, NEW u PROVE Lift(0, v) = Lift(0, u)
  <2> DEFINE none == <<>>
             list(x) == [i \in 1 .. Len(none) |-> x[none[i]]]
             F(y, x) == FirstDeepest(y, x)
  <2>1. Len(none) = 0
    OBVIOUS
  <2>2. \A x : MaxStep(H, 0, x) = [y \in BlockHash |-> F(y, list(x))]
    BY DEF MaxStep
  <2> HIDE DEF none
  <2>3. list(v) = list(u)
    BY <2>1
  <2> HIDE DEF list, F
  <2> QED
    BY <2>2, <2>3
<1> HIDE DEF Lift, N
<1>4. 0 \in A
  <2> DEFINE g == [k \in 0 .. 0 |-> Lift(k, 0)]
  <2>1. g[0] = Lift(0, 0) /\ Lift(0, 0) = Lift(0, g[0 - 1])
    BY <1>3
  <2>2. g = R(0, g)
    <3>1. g = [k \in 0 .. 0 |-> g[k]]
      OBVIOUS
    <3> HIDE DEF g
    <3>2. \A k \in 0 .. 0 : g[k] = Lift(k, g[k - 1])
      BY <2>1
    <3> QED
      BY <3>1, <3>2, Zenon
  <2> HIDE DEF g
  <2> QED
    BY <2>2
<1>5. ASSUME NEW m \in Nat, m \in A PROVE m + 1 \in A
  <2>1. PICK g : g = R(m, g)
    BY <1>5
  <2>2. \A k \in 0 .. m : g[k] = Lift(k, g[k - 1])
    BY <2>1, Zenon
  <2> DEFINE e == [k \in 0 .. m + 1 |-> IF k <= m THEN g[k] ELSE Lift(m + 1, g[m])]
  <2>3. ASSUME NEW k \in 0 .. m + 1 PROVE e[k] = Lift(k, e[k - 1])
    <3>1. CASE k = 0
      <4>1. e[0] = g[0] /\ 0 \in 0 .. m
        OBVIOUS
      <4> HIDE DEF e
      <4>2. e[0] = Lift(0, g[0 - 1])
        BY <2>2, <4>1
      <4>3. Lift(0, g[0 - 1]) = Lift(0, e[0 - 1])
        BY <1>3
      <4> QED
        BY <3>1, <4>2, <4>3
    <3>2. CASE k # 0 /\ k <= m
      <4>1. k \in 0 .. m /\ k - 1 \in 0 .. m + 1 /\ k - 1 <= m
        BY <3>2
      <4>2. e[k] = g[k] /\ e[k - 1] = g[k - 1]
        BY <3>2, <4>1
      <4> HIDE DEF e
      <4> QED
        BY <2>2, <3>2, <4>1, <4>2
    <3>3. CASE k = m + 1
      <4>1. k # 0 /\ ~(k <= m) /\ k - 1 = m /\ m \in 0 .. m + 1
        BY <3>3
      <4>2. e[k] = Lift(m + 1, g[m]) /\ e[m] = g[m]
        BY <4>1
      <4> HIDE DEF e
      <4> QED
        BY <3>3, <4>1, <4>2
    <3> QED
      BY <3>1, <3>2, <3>3
  <2>4. e = [k \in 0 .. m + 1 |-> e[k]]
    OBVIOUS
  <2> HIDE DEF e
  <2>5. e = R(m + 1, e)
    BY <2>3, <2>4, Zenon
  <2> QED
    BY <2>5
<1>6. \A m \in Nat : m \in A
  <2> HIDE DEF A
  <2> QED
    BY <1>4, <1>5, InductionOverSet
<1>7. \E g : g = R(N, g)
  BY <1>1, <1>6
<1> DEFINE w == CHOOSE v : v = R(N, v)
<1>8. MaxDepth(H, r) = w[N][r]
  BY Zenon DEF MaxDepth, MaxStep, N, Lift
<1>9. w = R(N, w)
  BY <1>7, Zenon
<1> HIDE DEF w
<1>10. \A k \in 0 .. N : w[k] = Lift(k, w[k - 1])
  BY <1>9, Zenon
<1> QED
  BY <1>8, <1>10 DEF N, Lift

\* Below its root a tree is deeper.
LEMMA FamilyDepth ==
  ASSUME NEW f \in BlockTrees, NEW H, NEW r, NEW N, FamilyTree(f, H, r, N)
  PROVE  \A z \in N \ {r} : DepthOf(f, r) < DepthOf(f, z)
<1> DEFINE D(h) == DepthOf(f, h)
           A == {k \in Nat : \A z \in N \ {r} : D(z) = k => D(r) < k}
<1>0. /\ r \in N /\ N \subseteq BlockHash
      /\ \A z \in N \ {r} : z # Genesis /\ f[z] \in N
  BY DEF FamilyTree
<1>1. /\ \A h \in BlockHash : D(h) \in Nat
      /\ \A h \in Hashes : D(h) = D(f[h]) + 1
      /\ \A z \in N \ {r} : z \in Hashes
  BY <1>0, DepthFacts, HashFacts
<1> HIDE DEF D
<1>2. 0 \in A
  <2> SUFFICES ASSUME NEW z \in N \ {r}, D(z) = 0 PROVE FALSE
    OBVIOUS
  <2>1. D(z) = D(f[z]) + 1 /\ D(f[z]) \in Nat
    BY <1>0, <1>1
  <2> QED
    BY <2>1
<1>3. ASSUME NEW k \in Nat, k \in A PROVE k + 1 \in A
  <2> SUFFICES ASSUME NEW z \in N \ {r}, D(z) = k + 1 PROVE D(r) < k + 1
    OBVIOUS
  <2>1. D(z) = D(f[z]) + 1 /\ D(f[z]) \in Nat /\ f[z] \in N
    BY <1>0, <1>1
  <2>2. D(f[z]) = k /\ D(r) \in Nat
    BY <1>0, <1>1, <2>1
  <2>3. CASE f[z] = r
    BY <2>2, <2>3
  <2>4. CASE f[z] # r
    BY <1>3, <2>1, <2>2, <2>4
  <2> QED
    BY <2>3, <2>4
<1> HIDE DEF A
<1>4. \A k \in Nat : k \in A
  BY <1>2, <1>3, InductionOverSet
<1>5. \A z \in N \ {r} : D(r) < D(z)
  BY <1>0, <1>1, <1>4 DEF A
<1> QED
  BY <1>5 DEF D

\* The members of a list are the set it lists.
LEMMA ListsSet ==
  ASSUME NEW q, NEW X, Lists(q, X) PROVE ToSet(q) = X
<1>1. /\ DOMAIN q = 1 .. Len(q)
      /\ \A k \in 1 .. Len(q) : q[k] \in X
      /\ \A x \in X : \E k \in 1 .. Len(q) : q[k] = x
  BY LenProperties DEF Lists
<1> QED
  BY <1>1, Zenon DEF ToSet

\* What the levels of find_number_of_nodes have found.
LEMMA BelowFacts ==
  ASSUME NEW f \in BlockTrees, NEW H \in Heaps, NEW r, NEW N, FamilyTree(f, H, r, N),
         NEW w, \A k \in 0 .. Size : w[k] = BelowStep(H, k, w[k - 1])
  PROVE  /\ \A y \in N : w[0][y] = {y}
         /\ \A k \in 1 .. Size : \A y \in N :
               w[k][y] = {y} \cup UNION {w[k - 1][c] : c \in Kids(H, r, N, y)}
         /\ w[Size][r] = N
<1>0. /\ r \in N /\ N \subseteq BlockHash
      /\ \A z \in N \ {r} : z # Genesis /\ f[z] \in N /\ H[z].parent = f[z]
      /\ \A p \in N : \E q : ChildList(H, p, q, Kids(H, r, N, p))
      /\ Size \in Nat
  BY HashFacts DEF FamilyTree
<1>1. \A y \in N : ToSet(Children(H, y)) = Kids(H, r, N, y)
  <2> TAKE y \in N
  <2>1. PICK q : ChildList(H, y, q, Kids(H, r, N, y))
    BY <1>0
  <2>2. Children(H, y) = q
    BY <1>0, <2>1, ChildrenIs
  <2>3. ToSet(q) = Kids(H, r, N, y)
    <3>1. Lists(q, Kids(H, r, N, y))
      BY <2>1 DEF ChildList
    <3> QED
      BY <3>1, ListsSet
  <2> QED
    BY <2>2, <2>3
<1> DEFINE kids(y) == Kids(H, r, N, y)
<1>2. \A y \in N : w[0][y] = {y}
  <2>1. PICK v : w[0] = BelowStep(H, 0, v)
    <3>1. 0 \in 0 .. Size
      BY <1>0
    <3> QED
      BY <3>1
  <2>2. \A y \in BlockHash : BelowStep(H, 0, v)[y] = {y}
    BY DEF BelowStep
  <2> QED
    BY <1>0, <2>1, <2>2
<1>3. \A k \in 1 .. Size : \A y \in N : w[k][y] = {y} \cup UNION {w[k - 1][c] : c \in kids(y)}
  <2> TAKE k \in 1 .. Size
  <2> TAKE y \in N
  <2>1. w[k] = BelowStep(H, k, w[k - 1]) /\ k # 0 /\ y \in BlockHash
    BY <1>0
  <2> QED
    BY <1>1, <2>1 DEF BelowStep
<1>4. \A y \in N : kids(y) \subseteq N \ {r} /\ \A z \in kids(y) : f[z] = y
  BY <1>0 DEF Kids
<1>5. \A z \in N \ {r} : z \in kids(f[z])
  BY <1>0 DEF Kids
<1> HIDE DEF kids
<1> DEFINE A == {k \in 0 .. Size : \A y \in N : w[k][y] \subseteq N /\ y \in w[k][y]}
<1>6. \A k \in 0 .. Size : \A y \in N : w[k][y] \subseteq N /\ y \in w[k][y]
  <2>1. 0 \in A
    BY <1>0, <1>2
  <2>2. ASSUME NEW k \in 0 .. Size - 1, k \in A PROVE k + 1 \in A
    <3>1. k + 1 \in 1 .. Size /\ k + 1 \in 0 .. Size /\ (k + 1) - 1 = k
      BY <1>0
    <3>2. \A y \in N : w[k + 1][y] = {y} \cup UNION {w[k][c] : c \in kids(y)}
      BY <1>3, <3>1
    <3>3. \A y \in N : w[k][y] \subseteq N
      BY <2>2
    <3>4. \A y \in N : w[k + 1][y] \subseteq N /\ y \in w[k + 1][y]
      BY <1>4, <3>2, <3>3
    <3> QED
      BY <3>1, <3>4
  <2> HIDE DEF A
  <2>3. \A k \in 0 .. Size : k \in A
    BY <1>0, <2>1, <2>2, InductionUpto
  <2> QED
    BY <2>3 DEF A
\* A descent that comes to z comes to the children of z one level later.
<1> DEFINE B == {k \in 0 .. Size : k + 1 <= Size => \A y \in N : /\ w[k][y] \subseteq w[k + 1][y]
                                                            /\ \A z \in w[k][y] : kids(z) \subseteq w[k + 1][y]}
<1>7. \A k \in 0 .. Size - 1 : \A y \in N : /\ w[k][y] \subseteq w[k + 1][y]
                                            /\ \A z \in w[k][y] : kids(z) \subseteq w[k + 1][y]
  <2>1. 0 \in B
    <3>1. ASSUME 1 <= Size, NEW y \in N
          PROVE  /\ w[0][y] \subseteq w[0 + 1][y] /\ \A z \in w[0][y] : kids(z) \subseteq w[0 + 1][y]
      <4>1. 0 + 1 \in 1 .. Size /\ (0 + 1) - 1 = 0
        BY <1>0, <3>1
      <4>2. w[0 + 1][y] = {y} \cup UNION {w[0][c] : c \in kids(y)}
        BY <1>3, <4>1
      <4>3. \A c \in kids(y) : w[0][c] = {c}
        BY <1>2, <1>4
      <4> QED
        BY <1>2, <4>2, <4>3
    <3> QED
      BY <1>0, <3>1
  <2>2. ASSUME NEW k \in 0 .. Size - 1, k \in B PROVE k + 1 \in B
    <3>1. k + 1 \in 1 .. Size /\ k + 1 \in 0 .. Size /\ (k + 1) - 1 = k /\ k + 1 <= Size
      BY <1>0
    <3>2. \A y \in N : w[k + 1][y] = {y} \cup UNION {w[k][c] : c \in kids(y)}
      BY <1>3, <3>1
    <3>3. \A y \in N : /\ w[k][y] \subseteq w[k + 1][y]
                       /\ \A z \in w[k][y] : kids(z) \subseteq w[k + 1][y]
      BY <2>2, <3>1
    <3>4. ASSUME (k + 1) + 1 <= Size, NEW y \in N
          PROVE  /\ w[k + 1][y] \subseteq w[(k + 1) + 1][y]
                 /\ \A z \in w[k + 1][y] : kids(z) \subseteq w[(k + 1) + 1][y]
      <4>1. (k + 1) + 1 \in 1 .. Size /\ ((k + 1) + 1) - 1 = k + 1
        BY <1>0, <3>1, <3>4
      <4>2. w[(k + 1) + 1][y] = {y} \cup UNION {w[k + 1][c] : c \in kids(y)}
        BY <1>3, <4>1
      <4>3. \A c \in kids(y) : c \in N /\ c \in w[k + 1][c] /\ w[k][c] \subseteq w[k + 1][c]
                               /\ \A z \in w[k][c] : kids(z) \subseteq w[k + 1][c]
        BY <1>4, <1>6, <3>1, <3>3
      <4>4. w[k + 1][y] \subseteq w[(k + 1) + 1][y]
        BY <3>2, <4>2, <4>3
      <4>5. ASSUME NEW z \in w[k + 1][y], NEW x \in kids(z) PROVE x \in w[(k + 1) + 1][y]
        <5>1. CASE z = y
          BY <4>2, <4>3, <4>5, <5>1
        <5>2. CASE z # y
          <6>1. PICK c \in kids(y) : z \in w[k][c]
            BY <3>2, <5>2
          <6>2. x \in w[k + 1][c]
            BY <4>3, <4>5, <6>1
          <6> QED
            BY <4>2, <6>1, <6>2
        <5> QED
          BY <5>1, <5>2
      <4> QED
        BY <4>4, <4>5
    <3> QED
      BY <3>1, <3>4
  <2> HIDE DEF B
  <2>3. \A k \in 0 .. Size : k \in B
    BY <1>0, <2>1, <2>2, InductionUpto
  <2>4. \A k \in 0 .. Size - 1 : k \in B /\ k + 1 <= Size
    BY <1>0, <2>3
  <2> QED
    BY <2>4 DEF B
<1> DEFINE D(h) == DepthOf(f, h)
           C == {k \in 0 .. Size : \A z \in N : D(z) <= k => z \in w[k][r]}
<1>8. /\ \A h \in N : D(h) \in 0 .. Size
      /\ \A h \in N \ {r} : D(h) = D(f[h]) + 1
  BY <1>0, DepthFacts, HashFacts
<1>9. \A z \in N \ {r} : D(r) < D(z)
  BY FamilyDepth
<1> HIDE DEF D
<1>10. 0 \in C
  <2>1. \A z \in N : D(z) <= 0 => z = r
    BY <1>0, <1>8, <1>9
  <2> QED
    BY <1>0, <1>2, <2>1
<1>11. ASSUME NEW k \in 0 .. Size - 1, k \in C PROVE k + 1 \in C
  <2>0. k + 1 \in 0 .. Size /\ k \in Nat
    BY <1>0
  <2>1. ASSUME NEW z \in N, D(z) <= k + 1 PROVE z \in w[k + 1][r]
    <3>1. CASE z = r
      BY <1>0, <1>6, <2>0, <3>1
    <3>2. CASE z # r
      <4>1. D(z) = D(f[z]) + 1 /\ f[z] \in N /\ D(f[z]) \in Nat
        BY <1>0, <1>8, <3>2
      <4>2. D(f[z]) <= k
        BY <2>0, <2>1, <4>1
      <4>3. f[z] \in w[k][r]
        BY <1>11, <4>1, <4>2
      <4>4. z \in kids(f[z])
        BY <1>5, <3>2
      <4> QED
        BY <1>0, <1>7, <4>3, <4>4
    <3> QED
      BY <3>1, <3>2
  <2> QED
    BY <2>0, <2>1
<1> HIDE DEF C
<1>12. Size \in C
  BY <1>0, <1>10, <1>11, InductionUpto
<1>13. \A z \in N : z \in w[Size][r]
  BY <1>0, <1>8, <1>12 DEF C
<1>14. w[Size][r] = N
  <2>1. Size \in 0 .. Size
    BY <1>0
  <2> QED
    BY <1>0, <1>6, <1>13, <2>1
<1> QED
  BY <1>2, <1>3, <1>14 DEF kids

\* find_number_of_nodes and the like come to every node of the tree.
LEMMA FamilyIs ==
  ASSUME NEW f \in BlockTrees, NEW H \in Heaps, NEW r, NEW N, FamilyTree(f, H, r, N)
  PROVE  Family(H, r) = N
<1>1. PICK w : /\ Family(H, r) = w[Size][r]
               /\ \A k \in 0 .. Size : w[k] = BelowStep(H, k, w[k - 1])
  BY BelowExists
<1>2. w[Size][r] = N
  BY <1>1, BelowFacts
<1> QED
  BY <1>1, <1>2

\* The loop of find_max_depth returns one of its blocks that no other is deeper than.
LEMMA FirstDeepestIs ==
  ASSUME from \in BlockTrees, NEW y \in BlockHash, NEW n \in Nat,
         NEW list \in [1 .. n -> BlockHash]
  PROVE  LET d == FirstDeepest(y, list)
         IN  /\ d = y \/ \E i \in 1 .. n : d = list[i]
             /\ Depth(y) <= Depth(d) /\ \A i \in 1 .. n : Depth(list[i]) <= Depth(d)
<1> DEFINE D(h) == Depth(h)
           Choice(i, old) == IF Deeper(list[i], old) THEN list[i] ELSE old
           F == [i \in 1 .. n |-> [v \in BlockHash |-> Choice(i, v)]]
           R(w) == [i \in 0 .. n |-> IF i = 0 THEN y ELSE Choice(i, w[i - 1])]
<1>1. \A h \in BlockHash : D(h) \in Nat
  BY DepthIs, DepthFacts, HashFacts
<1>2. \A i, v : Choice(i, v) = IF D(list[i]) > D(v) THEN list[i] ELSE v
  BY DEF Deeper
<1>3. Len(list) = n
  <2>1. list \in Seq(BlockHash) /\ DOMAIN list = 1 .. n
    OBVIOUS
  <2> QED
    BY <2>1, LenProperties
<1> HIDE DEF D, Choice
<1>4. \A i \in 1 .. n : \A v \in BlockHash : Choice(i, v) \in BlockHash
  BY <1>2
<1>5. F \in [1 .. n -> [BlockHash -> BlockHash]]
  BY <1>4
<1>6. \A i \in 1 .. n : F[i] = [v \in BlockHash |-> Choice(i, v)]
  OBVIOUS
<1> HIDE DEF F
<1>7. PICK g : Recurs(n, BlockHash, y, F, g)
  BY <1>5, BoundedRecursion
<1>8. g \in [0 .. n -> BlockHash] /\ g[0] = y /\ \A i \in 1 .. n : g[i] = F[i][g[i - 1]]
  BY <1>7 DEF Recurs
<1>9. \A i \in 0 .. n : g[i] = IF i = 0 THEN y ELSE Choice(i, g[i - 1])
  <2> TAKE i \in 0 .. n
  <2>1. CASE i # 0
    <3>1. i \in 1 .. n /\ i - 1 \in 0 .. n
      BY <2>1
    <3> QED
      BY <1>6, <1>8, <2>1, <3>1
  <2> QED
    BY <1>8, <2>1
<1>10. g = R(g)
  BY <1>8, <1>9
<1> DEFINE w == CHOOSE v : v = R(v)
<1>11. FirstDeepest(y, list) = w[Len(list)]
  <2>1. FirstDeepest(y, list) =
          LET mx[i \in 0 .. Len(list)] ==
                IF i = 0 THEN y
                ELSE LET old == mx[i - 1] IN IF Deeper(list[i], old) THEN list[i] ELSE old
          IN  mx[Len(list)]
    BY Zenon DEF FirstDeepest
  <2> QED
    BY <1>3, <2>1, Zenon DEF Choice
<1>12. w = R(w)
  BY <1>10, Zenon
<1> HIDE DEF w
<1>13. \A i \in 0 .. n : w[i] = IF i = 0 THEN y ELSE Choice(i, w[i - 1])
  BY <1>12, Zenon
<1> DEFINE A == {i \in 0 .. n : /\ w[i] = y \/ \E j \in 1 .. i : w[i] = list[j]
                                /\ D(y) <= D(w[i]) /\ \A j \in 1 .. i : D(list[j]) <= D(w[i])}
<1>14. 0 \in A
  BY <1>1, <1>13
<1>15. ASSUME NEW i \in 0 .. n - 1, i \in A PROVE i + 1 \in A
  <2>1. i + 1 \in 1 .. n /\ i + 1 \in 0 .. n /\ (i + 1) - 1 = i /\ i + 1 # 0 /\ i \in Nat
    OBVIOUS
  <2>2. \A j \in 1 .. i + 1 : j \in 1 .. i \/ j = i + 1
    BY <2>1
  <2>3. \A j \in 1 .. i : j \in 1 .. i + 1 /\ j \in 1 .. n
    BY <2>1
  <2>4. w[i + 1] = IF D(list[i + 1]) > D(w[i]) THEN list[i + 1] ELSE w[i]
    BY <1>2, <1>13, <2>1
  <2>5. /\ w[i] = y \/ \E j \in 1 .. i : w[i] = list[j]
        /\ D(y) <= D(w[i]) /\ \A j \in 1 .. i : D(list[j]) <= D(w[i])
    BY <1>15
  <2>6. w[i] \in BlockHash /\ list[i + 1] \in BlockHash /\ i + 1 \in 1 .. i + 1
    BY <2>1, <2>3, <2>5
  <2>7. D(w[i]) \in Nat /\ D(list[i + 1]) \in Nat /\ D(y) \in Nat /\ \A j \in 1 .. i : D(list[j]) \in Nat
    BY <1>1, <2>3, <2>6
  <2>8. CASE D(list[i + 1]) > D(w[i])
    <3>1. w[i + 1] = list[i + 1]
      BY <2>4, <2>8
    <3>2. \A j \in 1 .. i + 1 : D(list[j]) <= D(list[i + 1])
      BY <2>2, <2>5, <2>7, <2>8
    <3> QED
      BY <2>1, <2>5, <2>6, <2>7, <2>8, <3>1, <3>2
  <2>9. CASE ~(D(list[i + 1]) > D(w[i]))
    <3>1. w[i + 1] = w[i]
      BY <2>4, <2>9
    <3>2. \A j \in 1 .. i + 1 : D(list[j]) <= D(w[i])
      BY <2>2, <2>5, <2>7, <2>9
    <3> QED
      BY <2>1, <2>3, <2>5, <3>1, <3>2
  <2> QED
    BY <2>8, <2>9
<1> HIDE DEF A
<1>16. n \in A
  <2>1. \A i \in 0 .. n - 1 : i \in A => i + 1 \in A
    BY <1>15
  <2>2. \A i \in 0 .. n : i \in A
    BY <1>14, <2>1, InductionUpto
  <2> QED
    BY <2>2
<1>17. FirstDeepest(y, list) = w[n]
  BY <1>3, <1>11
<1> QED
  BY <1>16, <1>17 DEF A, D

\* find_max_depth returns a deepest node of the tree.
LEMMA MaxDepthIs ==
  ASSUME from \in BlockTrees, NEW H \in Heaps, NEW r, NEW N, FamilyTree(from, H, r, N)
  PROVE  MaxDepth(H, r) \in N /\ \A z \in N : Depth(z) <= Depth(MaxDepth(H, r))
<1>0. /\ r \in N /\ N \subseteq BlockHash /\ Size \in Nat
      /\ \A p \in N : \E q : ChildList(H, p, q, Kids(H, r, N, p))
  BY HashFacts DEF FamilyTree
<1>1. PICK w : /\ Family(H, r) = w[Size][r]
               /\ \A k \in 0 .. Size : w[k] = BelowStep(H, k, w[k - 1])
  BY BelowExists
<1>2. /\ \A y \in N : w[0][y] = {y}
      /\ \A k \in 1 .. Size : \A y \in N :
            w[k][y] = {y} \cup UNION {w[k - 1][c] : c \in Kids(H, r, N, y)}
      /\ w[Size][r] = N
  BY <1>1, BelowFacts
<1>3. PICK m : /\ MaxDepth(H, r) = m[Size][r]
               /\ \A k \in 0 .. Size : m[k] = MaxStep(H, k, m[k - 1])
  BY MaxExists
<1> DEFINE D(h) == Depth(h)
           Best(k, y) == m[k][y] \in w[k][y] /\ \A z \in w[k][y] : D(z) <= D(m[k][y])
           A == {k \in 0 .. Size : \A y \in N : w[k][y] \subseteq N /\ Best(k, y)}
<1>4. \A h \in BlockHash : D(h) \in Nat
  BY DepthIs, DepthFacts, HashFacts
<1>5. \A y \in N : m[0][y] = y
  <2> TAKE y \in N
  <2> DEFINE none == <<>>
             list(x) == [i \in 1 .. Len(none) |-> x[none[i]]]
             F(z, x) == FirstDeepest(z, x)
  <2>0. Len(none) = 0 /\ y \in BlockHash
    BY <1>0
  <2>1. PICK v : m[0] = MaxStep(H, 0, v)
    <3>1. 0 \in 0 .. Size
      BY <1>0
    <3> QED
      BY <1>3, <3>1
  <2>2. MaxStep(H, 0, v) = [z \in BlockHash |-> F(z, list(v))]
    BY DEF MaxStep
  <2> HIDE DEF none
  <2>3. list(v) \in [1 .. 0 -> BlockHash]
    BY <2>0
  <2> HIDE DEF list
  <2>4. F(y, list(v)) = y
    <3>1. LET d == FirstDeepest(y, list(v)) IN d = y \/ \E i \in 1 .. 0 : d = list(v)[i]
      BY <2>0, <2>3, 0 \in Nat, FirstDeepestIs
    <3> QED
      BY <3>1
  <2> QED
    BY <2>0, <2>1, <2>2, <2>4
<1> HIDE DEF D
<1>6. 0 \in A
  BY <1>0, <1>2, <1>4, <1>5
<1>7. ASSUME NEW k \in 0 .. Size - 1, k \in A PROVE k + 1 \in A
  <2>0. k + 1 \in 1 .. Size /\ k + 1 \in 0 .. Size /\ (k + 1) - 1 = k /\ k + 1 # 0
    BY <1>0
  <2>1. ASSUME NEW y \in N PROVE w[k + 1][y] \subseteq N /\ Best(k + 1, y)
    <3> DEFINE kids == Kids(H, r, N, y)
    <3>1. PICK q : ChildList(H, y, q, kids)
      BY <1>0
    <3>2. Children(H, y) = q /\ y \in BlockHash
      BY <1>0, <3>1, ChildrenIs
    <3>3. /\ Len(q) \in Nat /\ kids \subseteq N
          /\ \A i \in 1 .. Len(q) : q[i] \in kids
          /\ \A x \in kids : \E i \in 1 .. Len(q) : q[i] = x
      BY <3>1, LenProperties DEF ChildList, Lists, Kids
    <3> HIDE DEF kids
    <3> DEFINE n == Len(q)
               list == [i \in 1 .. n |-> m[k][q[i]]]
               d == FirstDeepest(y, list)
    <3>4. m[k + 1][y] = d
      <4>1. m[k + 1] = MaxStep(H, k + 1, m[k])
        BY <1>3, <2>0
      <4>2. MaxStep(H, k + 1, m[k])[y] = FirstDeepest(y, [i \in 1 .. Len(q) |-> m[k][q[i]]])
        BY <2>0, <3>2, Zenon DEF MaxStep
      <4> QED
        BY <4>1, <4>2
    <3>5. \A x \in kids : /\ w[k][x] \subseteq N /\ m[k][x] \in w[k][x]
                          /\ \A z \in w[k][x] : D(z) <= D(m[k][x])
      BY <1>7, <3>3
    <3>6. w[k + 1][y] = {y} \cup UNION {w[k][c] : c \in kids}
      BY <1>2, <2>0 DEF kids
    <3> HIDE DEF n
    <3>7. list \in [1 .. n -> BlockHash] /\ n \in Nat
      BY <1>0, <3>3, <3>5 DEF n
    <3>8. \A i \in 1 .. n : list[i] = m[k][q[i]]
      OBVIOUS
    <3> HIDE DEF list
    <3>9. /\ d = y \/ \E i \in 1 .. n : d = list[i]
          /\ Depth(y) <= Depth(d) /\ \A i \in 1 .. n : Depth(list[i]) <= Depth(d)
      BY <3>2, <3>7, FirstDeepestIs
    <3> HIDE DEF d
    <3>10. w[k + 1][y] \subseteq N
      BY <3>3, <3>5, <3>6
    <3>11. d \in w[k + 1][y]
      <4>1. CASE d = y
        BY <3>6, <4>1
      <4>2. CASE d # y
        <5>1. PICK i \in 1 .. n : d = list[i]
          BY <3>9, <4>2
        <5>2. q[i] \in kids /\ d = m[k][q[i]]
          BY <3>3, <3>8, <5>1 DEF n
        <5> QED
          BY <3>5, <3>6, <5>2
      <4> QED
        BY <4>1, <4>2
    <3>12. ASSUME NEW z \in w[k + 1][y] PROVE D(z) <= D(d)
      <4>0. D(z) \in Nat /\ D(d) \in Nat
        BY <1>0, <1>4, <3>10, <3>11
      <4>1. CASE z = y
        BY <3>9, <4>1 DEF D
      <4>2. CASE z # y
        <5>1. PICK x \in kids : z \in w[k][x]
          BY <3>6, <4>2
        <5>2. PICK i \in 1 .. n : q[i] = x
          BY <3>3 DEF n
        <5>3. D(z) <= D(m[k][x]) /\ m[k][x] \in BlockHash
          BY <1>0, <3>5, <5>1
        <5>4. D(m[k][x]) <= D(d) /\ D(m[k][x]) \in Nat
          BY <1>4, <3>8, <3>9, <5>2, <5>3 DEF D
        <5> QED
          BY <4>0, <5>3, <5>4
      <4> QED
        BY <4>1, <4>2
    <3> QED
      BY <3>4, <3>10, <3>11, <3>12
  <2> QED
    BY <2>0, <2>1
<1> HIDE DEF A
<1>8. Size \in A
  BY <1>0, <1>6, <1>7, InductionUpto
<1>9. Best(Size, r)
  BY <1>0, <1>8 DEF A
<1> QED
  BY <1>2, <1>3, <1>9 DEF D

------------------------------------------------------------------------------
(* All trees of a chain, and the list of the incomplete ones. *)

\* A root, its nodes in both trees; nothing points out of it.
Tree(f, H, r, N) ==
  /\ SearchTree(H, r, N) /\ FamilyTree(f, H, r, N)
  /\ H[r].parent = NULL /\ H[r].sibling = NULL

\* The trees with the roots R and the nodes N[r] lie apart, and the nodes outside
\* of them are fresh.
Forest(f, H, R, N) ==
  /\ H \in Heaps /\ R \subseteq BlockHash /\ N \in [R -> SUBSET BlockHash]
  /\ \A r \in R : Tree(f, H, r, N[r])
  /\ \A r, s \in R : r # s => N[r] \cap N[s] = {}
  /\ \A h \in BlockHash : (\A r \in R : h \notin N[r]) => H[h] = Fresh

\* A fresh node has no pointers.
LEMMA FreshFacts ==
  /\ Fresh \in Block /\ Fresh.left = NULL /\ Fresh.right = NULL /\ Fresh.child = NULL
  /\ Fresh.sibling = NULL /\ Fresh.parent = NULL
BY HashFacts DEF Fresh, Block

\* A tree whose nodes are not written to stays as it is.
LEMMA TreeFrame ==
  ASSUME NEW f, NEW H, NEW K, NEW r, NEW N, Tree(f, H, r, N), \A y \in N : K[y] = H[y]
  PROVE  Tree(f, K, r, N)
<1>1. SearchTree(K, r, N)
  BY SearchFrame DEF Tree
<1>2. FamilyTree(f, K, r, N)
  BY FamilyFrame DEF Tree
<1>3. r \in N
  BY DEF Tree, SearchTree
<1> QED
  BY <1>1, <1>2, <1>3 DEF Tree

\* A new tree of a node that is in none.
With(R, N, x) == [r \in R \cup {x} |-> IF r = x THEN {x} ELSE N[r]]

\* A node that is in no tree is one to itself.
LEMMA AddSingle ==
  ASSUME NEW f, NEW H, NEW R, NEW N, Forest(f, H, R, N),
         NEW x \in BlockHash, \A r \in R : x \notin N[r]
  PROVE  Forest(f, H, R \cup {x}, With(R, N, x)) /\ H[x] = Fresh /\ x \notin R
<1> DEFINE M == With(R, N, x)
           S == R \cup {x}
<1>1. /\ H \in Heaps /\ R \subseteq BlockHash /\ N \in [R -> SUBSET BlockHash]
      /\ \A r \in R : Tree(f, H, r, N[r]) /\ r \in N[r]
      /\ \A r, s \in R : r # s => N[r] \cap N[s] = {}
      /\ \A h \in BlockHash : (\A r \in R : h \notin N[r]) => H[h] = Fresh
  BY DEF Forest, Tree, SearchTree
<1>2. H[x] = Fresh /\ x \notin R
  BY <1>1
<1>3. M \in [S -> SUBSET BlockHash] /\ M[x] = {x} /\ \A r \in R : M[r] = N[r]
  BY <1>1, <1>2 DEF With
<1> HIDE DEF M
<1>4. Tree(f, H, x, {x})
  BY <1>2, FreshFacts, SingleSearch, SingleFamily DEF Tree
<1>5. \A r \in S : Tree(f, H, r, M[r])
  BY <1>1, <1>3, <1>4
<1>6. \A r, s \in S : r # s => M[r] \cap M[s] = {}
  BY <1>1, <1>3
<1>7. \A h \in BlockHash : (\A r \in S : h \notin M[r]) => H[h] = Fresh
  BY <1>1, <1>3
<1>8. Forest(f, H, S, M)
  BY <1>1, <1>3, <1>5, <1>6, <1>7 DEF Forest
<1> QED
  BY <1>2, <1>8 DEF M

\* What the heap H has become: a forest in which the nodes C hang below p, with
\* c on top of them.
Becomes(f, H, K, R, M, c, p, C) ==
  /\ Forest(f, K, R, M) /\ FamilyTree(f, K, c, C)
  /\ \A y \in BlockHash : K[y].parent = IF y = c THEN p ELSE H[y].parent

\* A tree whose nodes were moved into the search tree of r and whose root b became
\* a child of p, a node of r's tree, is part of that tree; the others stay.
LEMMA Join ==
  ASSUME NEW f, NEW H, NEW R, NEW N, Forest(f, H, R, N),
         NEW r \in R, NEW b \in R, r # b, NEW p \in N[r], f[b] = p, b # Genesis,
         NEW G, Moved(H, r, N[r], N[b], N[b], G), NEW K, K = AppendChild(G, p, b),
         NEW S, S = R \ {b}, NEW M \in [S -> SUBSET BlockHash], M[r] = N[r] \cup N[b],
         \A s \in S : s # r => M[s] = N[s]
  PROVE  Becomes(f, H, K, S, M, b, p, N[b])
<1> DEFINE U == N[r] \cup N[b]
<1>1. /\ H \in Heaps /\ R \subseteq BlockHash /\ N \in [R -> SUBSET BlockHash]
      /\ \A s \in R : Tree(f, H, s, N[s]) /\ s \in N[s]
      /\ \A s, t \in R : s # t => N[s] \cap N[t] = {}
      /\ \A h \in BlockHash : (\A s \in R : h \notin N[s]) => H[h] = Fresh
  BY DEF Forest, Tree, SearchTree
<1>2. /\ G \in Heaps /\ SearchTree(G, r, U) /\ SameFamily(H, G)
      /\ \A y \in BlockHash \ U : G[y] = H[y]
  BY DEF Moved
<1>3. \A y \in BlockHash : /\ G[y].child = H[y].child /\ G[y].sibling = H[y].sibling
                           /\ G[y].parent = H[y].parent
  BY <1>2 DEF SameFamily
<1>4. FamilyTree(f, G, r, N[r]) /\ FamilyTree(f, G, b, N[b])
  <2>1. FamilyTree(f, H, r, N[r]) /\ FamilyTree(f, H, b, N[b]) /\ N[r] \subseteq BlockHash /\ N[b] \subseteq BlockHash
    BY <1>1 DEF Tree
  <2>2. FamilyTree(f, G, r, N[r])
    BY <1>3, <2>1, FamilyFrame
  <2>3. FamilyTree(f, G, b, N[b])
    BY <1>3, <2>1, FamilyFrame
  <2> QED
    BY <2>2, <2>3
<1>5. /\ N[r] \cap N[b] = {} /\ G[b].sibling = NULL /\ G[r].sibling = NULL /\ G[r].parent = NULL
      /\ U \subseteq BlockHash /\ b \in BlockHash /\ r \in BlockHash /\ r \in U
  BY <1>1, <1>3 DEF Tree
<1>6. /\ K \in Heaps /\ FamilyTree(f, K, r, U) /\ FamilyTree(f, K, b, N[b])
      /\ K[b].parent = p
      /\ \A y \in BlockHash : /\ K[y].left = G[y].left /\ K[y].right = G[y].right
                              /\ y # b => K[y].parent = G[y].parent
      /\ \A y \in BlockHash \ U : K[y] = G[y]
      /\ K[r].sibling = G[r].sibling
  <2>1. K = AppendChild(G, p, b) /\ U = N[r] \cup N[b] /\ f[b] = p /\ b # Genesis /\ p \in N[r]
    OBVIOUS
  <2> HIDE DEF U
  <2>2. Hung(f, G, K, r, U, p, b, N[b])
    BY <1>2, <1>4, <1>5, <2>1, FamilyJoin
  <2> QED
    BY <2>2 DEF Hung
<1> HIDE DEF U
<1>7. Tree(f, K, r, U)
  <2>1. SearchTree(K, r, U)
    <3>1. \A y \in U : K[y].left = G[y].left /\ K[y].right = G[y].right
      BY <1>5, <1>6
    <3> QED
      BY <1>2, <3>1, SearchFrame
  <2>2. K[r].parent = NULL /\ K[r].sibling = NULL
    BY <1>5, <1>6
  <2> QED
    BY <1>6, <2>1, <2>2 DEF Tree
<1>8. M \in [S -> SUBSET BlockHash] /\ M[r] = U /\ \A s \in S : s # r => M[s] = N[s]
  BY DEF U
<1>9. \A y \in BlockHash \ U : K[y] = H[y]
  BY <1>2, <1>6
<1>10. \A s \in S : s # r => N[s] \cap U = {} /\ N[s] \subseteq BlockHash /\ s \in R
  BY <1>1 DEF U
<1>11. ASSUME NEW s \in S PROVE Tree(f, K, s, M[s])
  <2>1. CASE s = r
    BY <1>7, <1>8, <2>1
  <2>2. CASE s # r
    <3>1. \A y \in N[s] : K[y] = H[y]
      BY <1>9, <1>10, <2>2
    <3>2. Tree(f, H, s, N[s])
      BY <1>1
    <3>3. Tree(f, K, s, N[s])
      BY <3>1, <3>2, TreeFrame
    <3> QED
      BY <1>8, <2>2, <3>3
  <2> QED
    BY <2>1, <2>2
<1>12. ASSUME NEW s \in S, NEW t \in S, s # t PROVE M[s] \cap M[t] = {}
  <2>1. CASE s = r
    BY <1>8, <1>10, <1>12, <2>1
  <2>2. CASE t = r
    BY <1>8, <1>10, <1>12, <2>2
  <2>3. CASE s # r /\ t # r
    BY <1>1, <1>8, <1>12, <2>3
  <2> QED
    BY <2>1, <2>2, <2>3
<1>13. ASSUME NEW h \in BlockHash, \A s \in S : h \notin M[s] PROVE K[h] = Fresh
  <2>1. h \notin U
    BY <1>8, <1>13
  <2>2. \A s \in R : h \notin N[s]
    <3> TAKE s \in R
    <3>1. CASE s = b \/ s = r
      BY <2>1, <3>1 DEF U
    <3>2. CASE s # b /\ s # r
      BY <1>8, <1>13, <3>2
    <3> QED
      BY <3>1, <3>2
  <2> QED
    BY <1>1, <1>9, <2>1, <2>2
<1>14. Forest(f, K, S, M)
  BY <1>1, <1>6, <1>8, <1>11, <1>12, <1>13 DEF Forest
<1>15. \A y \in BlockHash : K[y].parent = IF y = b THEN p ELSE H[y].parent
  BY <1>3, <1>6
<1> QED
  BY <1>6, <1>14, <1>15 DEF Becomes

\* Whole trees are given up.
Freed(H, gone) == [h \in BlockHash |-> IF h \in gone THEN Fresh ELSE H[h]]

\* Freeing all nodes of some trees leaves the other trees as they are.
LEMMA DropTrees ==
  ASSUME NEW f, NEW H, NEW R, NEW N, Forest(f, H, R, N), NEW D \in SUBSET R, NEW gone,
         \A h : h \in gone <=> \E d \in D : h \in N[d],
         NEW K, K = Freed(H, gone), NEW S, S = R \ D,
         NEW M \in [S -> SUBSET BlockHash], \A r \in S : M[r] = N[r]
  PROVE  Forest(f, K, S, M)
<1>1. /\ H \in Heaps /\ R \subseteq BlockHash /\ N \in [R -> SUBSET BlockHash]
      /\ \A r \in R : Tree(f, H, r, N[r])
      /\ \A r, s \in R : r # s => N[r] \cap N[s] = {}
      /\ \A h \in BlockHash : (\A r \in R : h \notin N[r]) => H[h] = Fresh
  BY DEF Forest
<1>2. M \in [S -> SUBSET BlockHash] /\ \A r \in S : M[r] = N[r]
  OBVIOUS
<1>7. K = [h \in BlockHash |-> IF h \in gone THEN Fresh ELSE H[h]]
  BY DEF Freed
<1>3. K \in Heaps
  BY <1>1, <1>7, FreshFacts DEF Heaps
<1>4. ASSUME NEW r \in S PROVE Tree(f, K, r, M[r])
  <2>1. \A y \in N[r] : y \in BlockHash /\ y \notin gone
    BY <1>1
  <2>2. \A y \in N[r] : K[y] = H[y]
    BY <1>7, <2>1
  <2>3. Tree(f, K, r, N[r])
    BY <1>1, <2>2, TreeFrame
  <2> QED
    BY <1>2, <2>3
<1>5. ASSUME NEW h \in BlockHash, \A r \in S : h \notin M[r] PROVE K[h] = Fresh
  <2>1. CASE h \in gone
    BY <1>7, <2>1
  <2>2. CASE h \notin gone
    <3>1. \A r \in R : h \notin N[r]
      BY <1>2, <1>5, <2>2
    <3> QED
      BY <1>1, <1>7, <2>2, <3>1
  <2> QED
    BY <2>1, <2>2
<1>6. \A r, s \in S : r # s => M[r] \cap M[s] = {}
  BY <1>1, <1>2
<1> QED
  BY <1>1, <1>2, <1>3, <1>4, <1>5, <1>6 DEF Forest

\* The list of incomplete trees: no two entries name the same root, and none
\* is the main tree.
Entry == [b : BlockHash, no_asks : 0 .. NO_ASKS_BEFORE_REMOVING]
Listed(q) ==
  /\ q \in Seq(Entry) /\ \A i \in 1 .. Len(q) : q[i].b # Genesis
  /\ \A i, j \in 1 .. Len(q) : i # j => q[i].b # q[j].b

\* Its entries, and all roots.
Entries(q) == {q[i] : i \in 1 .. Len(q)}
RootsOf(q) == {Genesis} \cup {q[i].b : i \in 1 .. Len(q)}

\* What SelectInSeq selects.
LEMMA FirstIs ==
  ASSUME NEW n \in Nat, NEW I \in SUBSET (1 .. n),
         NEW i, i = IF I # {} THEN Min(I) ELSE 0
  PROVE  (i = 0 /\ I = {}) \/ (i \in I /\ i # 0)
<1>1. CASE I = {}
  BY <1>1
<1>2. CASE I # {}
  <2>0. I \subseteq Nat
    OBVIOUS
  <2>1. PICK m \in I : \A k \in I : m <= k
    BY <1>2, <2>0, LeastNat, Zenon
  <2>2. Min(I) \in I
    BY <2>1, Zenon DEF Min
  <2>3. i = Min(I) /\ i \in I
    BY <1>2, <2>2, Zenon
  <2>4. \A k \in I : k # 0
    OBVIOUS
  <2> QED
    BY <2>3, <2>4
<1> QED
  BY <1>1, <1>2

\* Removing the entry at a place removes it and its root, and nothing else.
LEMMA RemovedIs ==
  ASSUME NEW q, Listed(q), NEW i \in 1 .. Len(q), NEW k, k = RemoveAt(q, i)
  PROVE  /\ Listed(k) /\ Entries(k) = Entries(q) \ {q[i]}
         /\ RootsOf(k) = RootsOf(q) \ {q[i].b}
<1> DEFINE s == SubSeq(q, 1, i - 1)
           t == SubSeq(q, i + 1, Len(q))
           n == Len(q)
<1>1. /\ q \in Seq(Entry) /\ n \in Nat /\ \A j \in 1 .. n : q[j] \in Entry /\ q[j].b # Genesis
      /\ \A j, l \in 1 .. n : j # l => q[j].b # q[l].b
  BY DEF Listed
<1>2. /\ s \in Seq(Entry) /\ Len(s) = i - 1 /\ \A j \in 1 .. i - 1 : s[j] = q[j]
      /\ t \in Seq(Entry) /\ Len(t) = n - i /\ \A j \in 1 .. n - i : t[j] = q[i + j]
  BY <1>1, SubSeqProperties
<1>3. k = s \o t
  BY Zenon DEF RemoveAt
<1> HIDE DEF s, t
<1>4. /\ k \in Seq(Entry) /\ Len(k) = n - 1
      /\ \A j \in 1 .. n - 1 : k[j] = q[IF j < i THEN j ELSE j + 1]
  <2>1. k \in Seq(Entry) /\ Len(k) = Len(s) + Len(t)
    BY <1>2, <1>3, ConcatProperties, Zenon
  <2>2. \A j \in 1 .. n - 1 : k[j] = IF j <= i - 1 THEN s[j] ELSE t[j - (i - 1)]
    BY <1>1, <1>2, <1>3, ConcatProperties
  <2>3. ASSUME NEW j \in 1 .. n - 1 PROVE k[j] = q[IF j < i THEN j ELSE j + 1]
    <3>1. CASE j < i
      <4>1. j \in 1 .. i - 1 /\ j <= i - 1
        BY <1>1, <3>1
      <4>2. k[j] = s[j]
        BY <2>2, <4>1
      <4>3. s[j] = q[j]
        BY <1>2, <4>1
      <4> QED
        BY <3>1, <4>2, <4>3
    <3>2. CASE ~(j < i)
      <4>1. j - (i - 1) \in 1 .. n - i /\ ~(j <= i - 1) /\ i + (j - (i - 1)) = j + 1
        BY <1>1, <3>2
      <4>2. k[j] = t[j - (i - 1)]
        BY <2>2, <4>1
      <4> QED
        BY <1>2, <3>2, <4>1, <4>2
    <3> QED
      BY <3>1, <3>2
  <2> QED
    BY <1>1, <1>2, <2>1, <2>3
<1>11. i \in 1 .. n /\ Len(q) = n
  OBVIOUS
<1> HIDE DEF n
<1>5. \A j \in 1 .. n - 1 : (IF j < i THEN j ELSE j + 1) \in 1 .. n /\ (IF j < i THEN j ELSE j + 1) # i
  BY <1>1, <1>11
<1>6. \A j, l \in 1 .. n - 1 : j # l => (IF j < i THEN j ELSE j + 1) # (IF l < i THEN l ELSE l + 1)
  BY <1>1
<1>7. \A j \in 1 .. n : j # i => \E l \in 1 .. n - 1 : (IF l < i THEN l ELSE l + 1) = j
  <2> TAKE j \in 1 .. n
  <2> HAVE j # i
  <2>1. CASE j < i
    <3>1. j \in 1 .. n - 1
      BY <1>1, <1>11, <2>1
    <3> QED
      BY <2>1, <3>1
  <2>2. CASE ~(j < i)
    <3>1. j - 1 \in 1 .. n - 1 /\ ~(j - 1 < i) /\ (j - 1) + 1 = j
      BY <1>1, <1>11, <2>2
    <3> QED
      BY <3>1
  <2> QED
    BY <2>1, <2>2
<1> DEFINE at == [j \in 1 .. n - 1 |-> IF j < i THEN j ELSE j + 1]
<1>14. /\ \A j \in 1 .. n - 1 : k[j] = q[at[j]] /\ at[j] \in 1 .. n /\ at[j] # i
       /\ \A j, l \in 1 .. n - 1 : j # l => at[j] # at[l]
  BY <1>4, <1>5, <1>6
<1> HIDE DEF at
<1>8. Listed(k)
  <2>1. \A j \in 1 .. n - 1 : k[j].b # Genesis
    BY <1>1, <1>14
  <2>2. \A j, l \in 1 .. n - 1 : j # l => k[j].b # k[l].b
    <3> TAKE j, l \in 1 .. n - 1
    <3> HAVE j # l
    <3>1. k[j] = q[at[j]] /\ k[l] = q[at[l]] /\ at[j] \in 1 .. n /\ at[l] \in 1 .. n /\ at[j] # at[l]
      BY <1>14
    <3>2. q[at[j]].b # q[at[l]].b
      BY <1>1, <3>1
    <3> QED
      BY <3>1, <3>2
  <2> QED
    BY <1>4, <2>1, <2>2 DEF Listed
<1>9. ASSUME NEW j \in 1 .. n - 1 PROVE k[j] \in Entries(q) /\ k[j] # q[i] /\ k[j].b # q[i].b
  BY <1>1, <1>11, <1>14 DEF Entries
<1>10. ASSUME NEW j \in 1 .. n, j # i PROVE \E l \in 1 .. n - 1 : k[l] = q[j]
  BY <1>4, <1>7, <1>10
<1>12. Entries(k) = Entries(q) \ {q[i]}
  <2>1. \A e : e \in Entries(k) <=> \E j \in 1 .. n - 1 : k[j] = e
    BY <1>4 DEF Entries
  <2>2. \A e : e \in Entries(q) <=> \E j \in 1 .. n : q[j] = e
    BY <1>11 DEF Entries
  <2>3. \A e : e \in Entries(q) /\ e # q[i] => e \in Entries(k)
    BY <1>10, <2>1, <2>2
  <2>4. \A e : e \in Entries(k) => e \in Entries(q) /\ e # q[i]
    BY <1>9, <2>1
  <2> QED
    BY <2>3, <2>4
<1>13. RootsOf(k) = RootsOf(q) \ {q[i].b}
  <2>1. \A e : e \in RootsOf(k) <=> e = Genesis \/ \E j \in 1 .. n - 1 : k[j].b = e
    BY <1>4 DEF RootsOf
  <2>2. \A e : e \in RootsOf(q) <=> e = Genesis \/ \E j \in 1 .. n : q[j].b = e
    BY <1>11 DEF RootsOf
  <2>3. \A e : e \in RootsOf(q) /\ e # q[i].b => e \in RootsOf(k)
    BY <1>10, <2>1, <2>2
  <2>4. \A e : e \in RootsOf(k) => e \in RootsOf(q) /\ e # q[i].b
    BY <1>1, <1>4, <1>5, <1>9, <1>11, <2>1, <2>2
  <2> QED
    BY <2>3, <2>4
<1> QED
  BY <1>8, <1>12, <1>13

\* An appended entry is added with its root.
LEMMA AppendedIs ==
  ASSUME NEW q, Listed(q), NEW t \in Entry, t.b \notin RootsOf(q), NEW k, k = Append(q, t)
  PROVE  /\ Listed(k) /\ Entries(k) = Entries(q) \cup {t}
         /\ RootsOf(k) = RootsOf(q) \cup {t.b}
<1> DEFINE n == Len(q)
<1>1. /\ q \in Seq(Entry) /\ n \in Nat /\ \A j \in 1 .. n : q[j] \in Entry /\ q[j].b # Genesis
      /\ \A j, l \in 1 .. n : j # l => q[j].b # q[l].b
  BY DEF Listed
<1>2. /\ k \in Seq(Entry) /\ Len(k) = n + 1 /\ k[n + 1] = t /\ \A j \in 1 .. n : k[j] = q[j]
  BY <1>1, AppendProperties
<1>3. t.b # Genesis /\ \A j \in 1 .. n : t.b # q[j].b
  BY DEF RootsOf
<1>4. \A e : e \in Entries(q) <=> \E j \in 1 .. n : q[j] = e
  BY DEF Entries
<1>5. \A e : e \in RootsOf(q) <=> e = Genesis \/ \E j \in 1 .. n : q[j].b = e
  BY DEF RootsOf
<1> HIDE DEF n
<1>6. \A j \in 1 .. n + 1 : j \in 1 .. n \/ j = n + 1
  BY <1>1
<1>7. n + 1 \in 1 .. n + 1 /\ \A j \in 1 .. n : j \in 1 .. n + 1
  BY <1>1
<1>8. Listed(k)
  <2>1. \A j \in 1 .. n + 1 : k[j].b # Genesis
    BY <1>1, <1>2, <1>3, <1>6
  <2>2. \A j, l \in 1 .. n + 1 : j # l => k[j].b # k[l].b
    BY <1>1, <1>2, <1>3, <1>6
  <2> QED
    BY <1>2, <2>1, <2>2 DEF Listed
<1>9. \A e : e \in Entries(k) <=> \E j \in 1 .. n + 1 : k[j] = e
  BY <1>2 DEF Entries
<1>10. \A e : e \in RootsOf(k) <=> e = Genesis \/ \E j \in 1 .. n + 1 : k[j].b = e
  BY <1>2 DEF RootsOf
<1>11. \A e : e \in Entries(k) <=> e \in Entries(q) \/ e = t
  BY <1>2, <1>4, <1>6, <1>7, <1>9
<1>12. \A e : e \in RootsOf(k) <=> e \in RootsOf(q) \/ e = t.b
  BY <1>2, <1>5, <1>6, <1>7, <1>10
<1> QED
  BY <1>8, <1>11, <1>12

\* A list with one entry written over.
Reset(q, i, t) == [q EXCEPT ![i] = t]

\* An entry written over another one takes its place, and the root its root's.
LEMMA ReplacedIs ==
  ASSUME NEW q, Listed(q), NEW i \in 1 .. Len(q), NEW t \in Entry, t.b \notin RootsOf(q) \ {q[i].b},
         NEW k, k = Reset(q, i, t)
  PROVE  /\ Listed(k) /\ Entries(k) = (Entries(q) \ {q[i]}) \cup {t}
         /\ RootsOf(k) = (RootsOf(q) \ {q[i].b}) \cup {t.b}
<1> DEFINE n == Len(q)
<1>1. /\ q \in Seq(Entry) /\ n \in Nat /\ \A j \in 1 .. n : q[j] \in Entry /\ q[j].b # Genesis
      /\ \A j, l \in 1 .. n : j # l => q[j].b # q[l].b
  BY DEF Listed
<1>2. /\ k \in Seq(Entry) /\ Len(k) = n /\ k[i] = t /\ \A j \in 1 .. n : j # i => k[j] = q[j]
  BY <1>1 DEF Reset
<1>3. t.b # Genesis /\ \A j \in 1 .. n : j # i => t.b # q[j].b
  <2>1. Genesis \in RootsOf(q) \ {q[i].b}
    BY <1>1 DEF RootsOf
  <2>2. \A j \in 1 .. n : j # i => q[j].b \in RootsOf(q) \ {q[i].b}
    BY <1>1 DEF RootsOf
  <2> QED
    BY <2>1, <2>2
<1>4. \A e : e \in Entries(q) <=> \E j \in 1 .. n : q[j] = e
  BY DEF Entries
<1>5. \A e : e \in RootsOf(q) <=> e = Genesis \/ \E j \in 1 .. n : q[j].b = e
  BY DEF RootsOf
<1>6. i \in 1 .. n
  OBVIOUS
<1> HIDE DEF n
<1>8. Listed(k)
  <2>1. \A j \in 1 .. n : k[j].b # Genesis
    BY <1>1, <1>2, <1>3
  <2>2. \A j, l \in 1 .. n : j # l => k[j].b # k[l].b
    BY <1>1, <1>2, <1>3
  <2> QED
    BY <1>2, <2>1, <2>2 DEF Listed
<1>9. \A e : e \in Entries(k) <=> \E j \in 1 .. n : k[j] = e
  BY <1>2 DEF Entries
<1>10. \A e : e \in RootsOf(k) <=> e = Genesis \/ \E j \in 1 .. n : k[j].b = e
  BY <1>2 DEF RootsOf
<1>11. \A e : e \in Entries(k) <=> (e \in Entries(q) /\ e # q[i]) \/ e = t
  <2>1. \A j \in 1 .. n : j # i => q[j] # q[i]
    BY <1>1, <1>6
  <2>2. \A e : e \in Entries(k) => (e \in Entries(q) /\ e # q[i]) \/ e = t
    BY <1>2, <1>4, <1>9, <2>1
  <2>3. \A e : e \in Entries(q) /\ e # q[i] => e \in Entries(k)
    <3> TAKE e
    <3> HAVE e \in Entries(q) /\ e # q[i]
    <3>1. PICK j \in 1 .. n : q[j] = e
      BY <1>4
    <3>2. j # i /\ k[j] = e
      BY <1>2, <3>1
    <3> QED
      BY <1>9, <3>2
  <2>4. t \in Entries(k)
    BY <1>2, <1>6, <1>9
  <2> QED
    BY <2>2, <2>3, <2>4
<1>12. \A e : e \in RootsOf(k) <=> (e \in RootsOf(q) /\ e # q[i].b) \/ e = t.b
  <2>1. q[i].b # Genesis /\ \A j \in 1 .. n : j # i => q[j].b # q[i].b
    BY <1>1, <1>6
  <2>2. \A e : e \in RootsOf(k) => (e \in RootsOf(q) /\ e # q[i].b) \/ e = t.b
    BY <1>2, <1>5, <1>10, <2>1
  <2>3. \A e : e \in RootsOf(q) /\ e # q[i].b => e \in RootsOf(k)
    <3> TAKE e
    <3> HAVE e \in RootsOf(q) /\ e # q[i].b
    <3>1. CASE e = Genesis
      BY <1>10, <3>1
    <3>2. CASE e # Genesis
      <4>1. PICK j \in 1 .. n : q[j].b = e
        BY <1>5, <3>2
      <4>2. j # i /\ k[j].b = e
        BY <1>2, <4>1
      <4> QED
        BY <1>10, <4>2
    <3> QED
      BY <3>1, <3>2
  <2>4. t.b \in RootsOf(k)
    BY <1>2, <1>6, <1>10
  <2> QED
    BY <2>2, <2>3, <2>4
<1> QED
  BY <1>8, <1>11, <1>12

\* A node starts with an empty list, and the main tree only.
LEMMA ListedEmpty ==
  /\ Listed(<<>>) /\ Entries(<<>>) = {} /\ RootsOf(<<>>) = {Genesis}
BY DEF Listed, Entries, RootsOf

\* The roots, by the entries of the list.
LEMMA RootsAre ==
  ASSUME NEW q PROVE RootsOf(q) = {Genesis} \cup {t.b : t \in Entries(q)}
<1>1. \A h : h \in RootsOf(q) <=> h = Genesis \/ \E i \in 1 .. Len(q) : h = q[i].b
  BY DEF RootsOf
<1>2. \A t : t \in Entries(q) <=> \E i \in 1 .. Len(q) : t = q[i]
  BY DEF Entries
<1> QED
  BY <1>1, <1>2

\* The list of which the trees asked for too often are dropped.
Asked == [b : BlockHash, no_asks : Nat]

\* The loop that drops them, as the recursion it is, and its result.
LeftStep(asked, n, v) ==
  [i \in 0 .. n |-> IF i = 0 THEN <<>>
                    ELSE IF Stays(asked[i]) THEN Append(v[i - 1], asked[i]) ELSE v[i - 1]]

LeftOf(asked, n) == (CHOOSE v : v = LeftStep(asked, n, v))[n]

\* A list with the requests counted, and what is left of it.
AskedList(asked, n) ==
  /\ asked \in [1 .. n -> Asked] /\ \A i \in 1 .. n : asked[i].b # Genesis
  /\ \A i, j \in 1 .. n : i # j => asked[i].b # asked[j].b
StayedIn(asked, n, q) ==
  /\ Listed(q)
  /\ \A e : e \in Entries(q) <=> \E j \in 1 .. n : Stays(asked[j]) /\ e = asked[j]

\* The loop that drops the trees asked for too often keeps exactly the others.
LEMMA LeftIs ==
  ASSUME NEW n \in Nat, NEW asked, AskedList(asked, n), NEW q, q = LeftOf(asked, n)
  PROVE  StayedIn(asked, n, q)
<1> DEFINE left == CHOOSE v : v = LeftStep(asked, n, v)
<1>0. /\ q = left[n] /\ asked \in [1 .. n -> Asked] /\ \A i \in 1 .. n : asked[i].b # Genesis
      /\ \A i, j \in 1 .. n : i # j => asked[i].b # asked[j].b
      /\ left = CHOOSE v : v = LeftStep(asked, n, v)
  BY Zenon DEF AskedList, LeftOf
<1> HIDE DEF left
<1> DEFINE none == <<>>
           S == Seq(Asked)
           f == [i \in 1 .. n |-> [v \in S |-> IF Stays(asked[i]) THEN Append(v, asked[i]) ELSE v]]
<1>1. none \in S
  OBVIOUS
<1>2. f \in [1 .. n -> [S -> S]]
  <2>1. \A i \in 1 .. n : \A v \in S : Append(v, asked[i]) \in S
    BY <1>0
  <2> QED
    BY <2>1
<1>3. \A i \in 1 .. n : \A v \in S : f[i][v] = IF Stays(asked[i]) THEN Append(v, asked[i]) ELSE v
  OBVIOUS
<1>4. \A v : LeftStep(asked, n, v) =
        [i \in 0 .. n |-> IF i = 0 THEN none
                          ELSE IF Stays(asked[i]) THEN Append(v[i - 1], asked[i]) ELSE v[i - 1]]
  BY DEF LeftStep
<1>5. Listed(none) /\ Entries(none) = {}
  BY ListedEmpty
<1> HIDE DEF f, none
<1>6. PICK g : Recurs(n, S, none, f, g)
  BY <1>1, <1>2, BoundedRecursion
<1>7. g = LeftStep(asked, n, g)
  <2>1. g \in [0 .. n -> S] /\ g[0] = none /\ \A k \in 1 .. n : g[k] = f[k][g[k - 1]]
    BY <1>6 DEF Recurs
  <2>2. ASSUME NEW k \in 1 .. n
        PROVE  g[k] = IF Stays(asked[k]) THEN Append(g[k - 1], asked[k]) ELSE g[k - 1]
    <3>1. k - 1 \in 0 .. n /\ g[k - 1] \in S
      BY <2>1
    <3>2. f[k][g[k - 1]] = IF Stays(asked[k]) THEN Append(g[k - 1], asked[k]) ELSE g[k - 1]
      BY <1>3, <3>1, Zenon
    <3> QED
      BY <2>1, <3>2
  <2>3. \A k \in 0 .. n : k # 0 => k \in 1 .. n
    OBVIOUS
  <2>4. \A k \in 0 .. n :
          g[k] = IF k = 0 THEN none
                 ELSE IF Stays(asked[k]) THEN Append(g[k - 1], asked[k]) ELSE g[k - 1]
    BY <2>1, <2>2, <2>3, Zenon
  <2>5. g = [i \in 0 .. n |-> IF i = 0 THEN none
                              ELSE IF Stays(asked[i]) THEN Append(g[i - 1], asked[i]) ELSE g[i - 1]]
    <3>1. g = [k \in 0 .. n |-> g[k]]
      BY <2>1
    <3> QED
      BY <2>4, <3>1, Zenon
  <2> QED
    BY <1>4, <2>5, Zenon
<1>8. left = LeftStep(asked, n, left)
  BY <1>0, <1>7, Zenon
<1>9. /\ left[0] = none
      /\ \A k \in 1 .. n : left[k] = IF Stays(asked[k]) THEN Append(left[k - 1], asked[k]) ELSE left[k - 1]
  <2>1. \A k \in 0 .. n :
          left[k] = IF k = 0 THEN none
                    ELSE IF Stays(asked[k]) THEN Append(left[k - 1], asked[k]) ELSE left[k - 1]
    <3>1. left = [i \in 0 .. n |-> IF i = 0 THEN none
                                  ELSE IF Stays(asked[i]) THEN Append(left[i - 1], asked[i])
                                  ELSE left[i - 1]]
      BY <1>4, <1>8, Zenon
    <3> QED
      BY <3>1, Zenon
  <2> QED
    BY <2>1
<1> DEFINE A == {k \in 0 .. n :
                   /\ Listed(left[k])
                   /\ \A e : e \in Entries(left[k]) <=> \E j \in 1 .. k : Stays(asked[j]) /\ e = asked[j]}
<1>10. 0 \in A
  <2>1. \A j \in 1 .. 0 : FALSE
    OBVIOUS
  <2>2. Listed(left[0]) /\ Entries(left[0]) = {}
    BY <1>5, <1>9
  <2>3. 0 \in 0 .. n
    OBVIOUS
  <2> QED
    BY <2>1, <2>2, <2>3
<1>11. ASSUME NEW k \in 0 .. n - 1, k \in A PROVE k + 1 \in A
  <2> DEFINE m == k + 1
             t == asked[m]
  <2>1. /\ Listed(left[k])
        /\ \A e : e \in Entries(left[k]) <=> \E j \in 1 .. k : Stays(asked[j]) /\ e = asked[j]
    BY <1>11
  <2>2. /\ m \in 1 .. n /\ m - 1 = k /\ m \in 0 .. n
        /\ \A j \in 1 .. k : j \in 1 .. n /\ j # m /\ j \in 1 .. m
        /\ \A j \in 1 .. m : j \in 1 .. k \/ j = m
        /\ m \in 1 .. m
    OBVIOUS
  <2> HIDE DEF m, A
  <2>3. left[m] = IF Stays(t) THEN Append(left[k], t) ELSE left[k]
    BY <1>9, <2>2
  <2>4. t \in Asked /\ t.b # Genesis /\ \A j \in 1 .. k : asked[j].b # t.b
    BY <1>0, <2>2
  <2>5. /\ Listed(left[m])
        /\ \A e : e \in Entries(left[m]) <=> e \in Entries(left[k]) \/ (Stays(t) /\ e = t)
    <3> HIDE DEF t
    <3>1. CASE ~Stays(t)
      BY <2>1, <2>3, <3>1
    <3>2. CASE Stays(t)
      <4>1. t \in Entry
        <5>1. t.no_asks \in 0 .. NO_ASKS_BEFORE_REMOVING
          BY <2>4, <3>2, AsksAssumption DEF Stays, Asked
        <5> QED
          BY <2>4, <5>1 DEF Asked, Entry
      <4>2. t.b \notin RootsOf(left[k])
        <5>1. ASSUME NEW e \in Entries(left[k]) PROVE e.b # t.b
          <6>1. PICK j \in 1 .. k : e = asked[j]
            BY <2>1
          <6> QED
            BY <2>4, <6>1
        <5> QED
          BY <2>4, <5>1, RootsAre
      <4>3. left[m] = Append(left[k], t)
        BY <2>3, <3>2
      <4> DEFINE sofar == left[k]
                 longer == left[m]
      <4> HIDE DEF sofar, longer
      <4>4. Listed(sofar) /\ t.b \notin RootsOf(sofar) /\ longer = Append(sofar, t)
        BY <2>1, <4>2, <4>3 DEF sofar, longer
      <4>5. Listed(longer) /\ Entries(longer) = Entries(sofar) \cup {t}
        BY <4>1, <4>4, AppendedIs
      <4> QED
        BY <3>2, <4>5 DEF sofar, longer
    <3> QED
      BY <3>1, <3>2
  <2>6. \A e : e \in Entries(left[m]) <=> \E j \in 1 .. m : Stays(asked[j]) /\ e = asked[j]
    BY <2>1, <2>2, <2>5
  <2>7. m \in A
    BY <2>2, <2>5, <2>6 DEF A
  <2> QED
    BY <2>7 DEF m
<1> HIDE DEF A
<1>12. \A k \in 0 .. n : k \in A
  BY <1>10, <1>11, InductionUpto
<1> USE DEF A
<1>13. n \in 0 .. n
  OBVIOUS
<1> QED
  BY <1>0, <1>12, <1>13 DEF StayedIn

------------------------------------------------------------------------------
(* The invariant, and what add_received_block does to it. *)

\* add_block_by_parent_hash: the new node h is hung below p.
LEMMA AttachNew ==
  ASSUME NEW f, NEW H, NEW R, NEW N, Forest(f, H, R, N),
         NEW r \in R, NEW p \in N[r], NEW h \in Hashes, f[h] = p, \A s \in R : h \notin N[s],
         NEW K, K = AddByParent(H, r, p, h),
         NEW M \in [R -> SUBSET BlockHash], M[r] = N[r] \cup {h}, \A s \in R : s # r => M[s] = N[s]
  PROVE  Becomes(f, H, K, R, M, h, p, {h})
<1> DEFINE P == R \cup {h}
           L == With(R, N, h)
           G == InsertOneNode(H, r, h)
<1>1. h \in BlockHash /\ h # Genesis
  BY HashFacts
<1>2. Forest(f, H, P, L) /\ H[h] = Fresh /\ h \notin R
  BY <1>1, AddSingle
<1>3. L[h] = {h} /\ \A s \in R : L[s] = N[s]
  BY <1>2 DEF With
<1> HIDE DEF L, G
<1>4. /\ H \in Heaps /\ N[r] \subseteq BlockHash /\ SearchTree(H, r, N[r])
      /\ H[h].left = NULL /\ H[h].right = NULL
  BY <1>2, FreshFacts DEF Forest, Tree
<1>5. /\ G \in Heaps /\ SearchTree(G, r, N[r] \cup {h}) /\ SameFamily(H, G)
      /\ \A y \in BlockHash \ N[r] : y # h => G[y] = H[y]
  <2>1. h \in BlockHash \ N[r]
    BY <1>1
  <2> DEFINE I(g) == /\ g \in Heaps /\ SearchTree(g, r, N[r] \cup {h}) /\ SameFamily(H, g)
                     /\ \A y \in BlockHash \ N[r] : g[y] = H[y]
  <2>2. I(InsertOneNode(H, r, h))
    BY <1>4, <2>1, InsertIs
  <2> QED
    BY <2>2 DEF G
<1>6. \A y \in BlockHash \ N[r] : G[y] = H[y]
  <2>1. h \in BlockHash \ N[r]
    BY <1>1
  <2> QED
    BY <1>4, <2>1, InsertIs DEF G
<1>7. Moved(H, r, L[r], L[h], L[h], G)
  BY <1>3, <1>5, <1>6 DEF Moved
<1>8. K = AppendChild(G, p, h)
  <2>1. [H EXCEPT ![h] = Fresh] = H
    BY <1>1, <1>2, <1>4 DEF Heaps
  <2> QED
    BY <2>1 DEF AddByParent, G
<1>9. R = P \ {h} /\ r \in P /\ h \in P /\ r # h /\ p \in L[r]
  BY <1>2, <1>3
<1>10. M[r] = L[r] \cup L[h] /\ \A s \in R : s # r => M[s] = L[s]
  BY <1>3
<1> HIDE DEF P
<1>11. Becomes(f, H, K, R, M, h, p, L[h])
  BY <1>1, <1>2, <1>7, <1>8, <1>9, <1>10, Join
<1> QED
  BY <1>3, <1>11

\* insert_subtree_by_hash and the rest of add_block_by_parent_hash: the tree of
\* b is hung below p.
LEMMA AttachTree ==
  ASSUME NEW f, NEW H, NEW R, NEW N, Forest(f, H, R, N),
         NEW r \in R, NEW p \in N[r], NEW b \in R, b # r, b # Genesis, f[b] = p,
         NEW K, K = AppendChild(InsertSubtree(H, r, b), p, b), NEW S, S = R \ {b},
         NEW M \in [S -> SUBSET BlockHash], M[r] = N[r] \cup N[b], \A s \in S : s # r => M[s] = N[s]
  PROVE  Becomes(f, H, K, S, M, b, p, N[b])
<1> DEFINE G == InsertSubtree(H, r, b)
<1>1. /\ H \in Heaps /\ SearchTree(H, r, N[r]) /\ SearchTree(H, b, N[b]) /\ N[r] \cap N[b] = {}
  BY DEF Forest, Tree
<1>2. Moved(H, r, N[r], N[b], N[b], G)
  BY <1>1, InsertSubtreeIs
<1>3. K = AppendChild(G, p, b)
  OBVIOUS
<1> HIDE DEF G
<1> QED
  BY <1>2, <1>3, Join

\* add_block_to_incomplete links the new root to its child by itself.
LEMMA FirstChild ==
  ASSUME NEW G \in Heaps, NEW p \in BlockHash, NEW b \in BlockHash, b # p, G[p].child = NULL
  PROVE  [G EXCEPT ![p].child = b, ![b].parent = p] = AppendChild(G, p, b)
<1>1. AppendChild(G, p, b) = [[G EXCEPT ![b].parent = p] EXCEPT ![p].child = b]
  BY DEF AppendChild
<1>2. [G EXCEPT ![p].child = b, ![b].parent = p] = [[G EXCEPT ![b].parent = p] EXCEPT ![p].child = b]
  BY DEF Heaps, Block
<1> QED
  BY <1>1, <1>2

\* A missing parent p becomes the root above b; p has no other child yet.
LEMMA RaiseTree ==
  ASSUME NEW f, NEW H, NEW R, NEW N, Forest(f, H, R, N), NEW p \in BlockHash, \A s \in R : p \notin N[s],
         NEW b \in R, b # Genesis, f[b] = p,
         NEW G, G = InsertSubtree(H, p, b), NEW K, K = AppendChild(G, p, b),
         NEW S, S = (R \cup {p}) \ {b},
         NEW M \in [S -> SUBSET BlockHash], M[p] = {p} \cup N[b], \A s \in S : s # p => M[s] = N[s]
  PROVE  Becomes(f, H, K, S, M, b, p, N[b]) /\ G \in Heaps /\ G[p].child = NULL /\ b # p
<1> DEFINE P == R \cup {p}
           L == With(R, N, p)
<1>1. Forest(f, H, P, L) /\ H[p] = Fresh /\ p \notin R
  <2>1. p \in BlockHash /\ \A s \in R : p \notin N[s]
    OBVIOUS
  <2> QED
    BY <2>1, AddSingle
<1>2. L[p] = {p} /\ \A s \in R : L[s] = N[s]
  BY <1>1 DEF With
<1> HIDE DEF L
<1>3. p \in P /\ p \in L[p] /\ b \in P /\ b # p /\ S = P \ {b}
  BY <1>1, <1>2
<1>4. M[p] = L[p] \cup L[b] /\ \A s \in S : s # p => M[s] = L[s]
  BY <1>2
<1> HIDE DEF P
<1>5. /\ H \in Heaps /\ SearchTree(H, p, L[p]) /\ SearchTree(H, b, L[b]) /\ L[p] \cap L[b] = {} /\ b \in BlockHash
  BY <1>1, <1>3 DEF Forest, Tree
<1>6. Moved(H, p, L[p], L[b], L[b], G)
  BY <1>5, InsertSubtreeIs
<1>7. G \in Heaps /\ G[p].child = NULL
  BY <1>1, <1>6, FreshFacts DEF Moved, SameFamily
<1>13. Becomes(f, H, K, S, M, b, p, L[b])
  BY <1>1, <1>3, <1>4, <1>6, Join
<1> QED
  BY <1>2, <1>3, <1>7, <1>13

\* N[r] are the nodes of the tree of the root r, in both of its trees.
View(N) == Forest(from, heap, RootsOf(inchain), N)

\* The inductive invariant.
HeapInv ==
  /\ HeapTypeOK /\ from \in BlockTrees /\ Listed(inchain)
  /\ \E N : View(N)

\* What the proofs about the steps use of the invariant.
LEMMA ViewFacts ==
  ASSUME HeapInv, NEW N, View(N)
  PROVE  /\ heap \in Heaps /\ RootsOf(inchain) \subseteq BlockHash /\ Genesis \in RootsOf(inchain)
         /\ N \in [RootsOf(inchain) -> SUBSET BlockHash]
         /\ \A r \in RootsOf(inchain) :
              /\ SearchTree(heap, r, N[r]) /\ FamilyTree(from, heap, r, N[r]) /\ r \in N[r]
              /\ heap[r].parent = NULL
              /\ \A y \in N[r] \ {r} : y # Genesis /\ heap[y].parent = from[y] /\ from[y] \in N[r]
         /\ \A r, s \in RootsOf(inchain) : r # s => N[r] \cap N[s] = {}
         /\ \A t \in Entries(inchain) : t.b \in RootsOf(inchain) \ {Genesis} /\ t \in Entry
         /\ \A r \in RootsOf(inchain) \ {Genesis} : \E t \in Entries(inchain) : t.b = r
         /\ \A i \in 1 .. Len(inchain) : inchain[i] \in Entries(inchain)
         /\ \A t, u \in Entries(inchain) : t # u => t.b # u.b
<1>1. /\ heap \in Heaps /\ RootsOf(inchain) \subseteq BlockHash
      /\ N \in [RootsOf(inchain) -> SUBSET BlockHash]
      /\ \A r \in RootsOf(inchain) : Tree(from, heap, r, N[r])
      /\ \A r, s \in RootsOf(inchain) : r # s => N[r] \cap N[s] = {}
  BY DEF View, Forest
<1>2. \A r \in RootsOf(inchain) :
              /\ SearchTree(heap, r, N[r]) /\ FamilyTree(from, heap, r, N[r]) /\ r \in N[r]
              /\ heap[r].parent = NULL
              /\ \A y \in N[r] \ {r} : y # Genesis /\ heap[y].parent = from[y] /\ from[y] \in N[r]
  BY <1>1 DEF Tree, FamilyTree
<1>3. /\ inchain \in Seq(Entry) /\ \A i \in 1 .. Len(inchain) : inchain[i].b # Genesis
      /\ \A i, j \in 1 .. Len(inchain) : i # j => inchain[i].b # inchain[j].b
  BY DEF HeapInv, Listed
<1>4. \A i \in 1 .. Len(inchain) : inchain[i] \in Entry
  BY <1>3
<1>5. \A t : t \in Entries(inchain) <=> \E i \in 1 .. Len(inchain) : t = inchain[i]
  BY DEF Entries
<1>6. \A r : r \in RootsOf(inchain) <=> r = Genesis \/ \E i \in 1 .. Len(inchain) : r = inchain[i].b
  BY DEF RootsOf
<1>7. \A t \in Entries(inchain) : t.b \in RootsOf(inchain) \ {Genesis} /\ t \in Entry
  BY <1>3, <1>4, <1>5, <1>6
<1>8. \A r \in RootsOf(inchain) \ {Genesis} : \E t \in Entries(inchain) : t.b = r
  BY <1>5, <1>6
<1>9. \A i \in 1 .. Len(inchain) : inchain[i] \in Entries(inchain)
  BY <1>5
<1>10. \A t, u \in Entries(inchain) : t # u => t.b # u.b
  BY <1>3, <1>5
<1> QED
  BY <1>1, <1>2, <1>6, <1>7, <1>8, <1>9, <1>10

\* What the searches of add_received_block find.
LEMMA LookedUp ==
  ASSUME HeapInv, NEW N, View(N), NEW h \in BlockHash
  PROVE  /\ IsKnown(h) <=> h \in N[Genesis]
         /\ \/ PlaceOf(h) = 0 /\ \A t \in Entries(inchain) : h \notin N[t.b]
            \/ PlaceOf(h) # 0 /\ PlaceOf(h) \in 1 .. Len(inchain) /\ h \in N[inchain[PlaceOf(h)].b]
         /\ IsInIncomplete(h) <=> \E t \in Entries(inchain) : h \in N[t.b] /\ heap[h].parent = from[h]
<1>1. /\ heap \in Heaps /\ Genesis \in RootsOf(inchain)
      /\ \A r \in RootsOf(inchain) : SearchTree(heap, r, N[r])
      /\ \A t \in Entries(inchain) : t.b \in RootsOf(inchain)
  BY ViewFacts
<1>2. \A r \in RootsOf(inchain) : Find(heap, r, h) # NULL <=> h \in N[r]
  BY <1>1, FindIs, HashFacts
<1>3. IsKnown(h) <=> h \in N[Genesis]
  BY <1>1, <1>2 DEF IsKnown
<1>4. \A i \in 1 .. Len(inchain) : inchain[i] \in Entries(inchain) /\ inchain[i].b \in RootsOf(inchain)
  BY <1>1 DEF Entries
<1>5. \A t : t \in Entries(inchain) <=> \E i \in 1 .. Len(inchain) : t = inchain[i]
  BY DEF Entries
<1> DEFINE n == Len(inchain)
           I == {i \in 1 .. n : Find(heap, inchain[i].b, h) # NULL}
           k == PlaceOf(h)
<1>6. k = IF I # {} THEN Min(I) ELSE 0
  BY DEF PlaceOf, SelectInSeq
<1>7. n \in Nat /\ I \in SUBSET (1 .. n)
  BY DEF HeapInv, Listed
<1>8. \A i : i \in I <=> i \in 1 .. n /\ h \in N[inchain[i].b]
  BY <1>2, <1>4
<1>9. IsInIncomplete(h) <=> \E i \in I : heap[h].parent = from[h]
  BY DEF IsInIncomplete
<1>10. Len(inchain) = n /\ PlaceOf(h) = k
  OBVIOUS
<1> HIDE DEF I, k, n
<1>11. (k = 0 /\ I = {}) \/ (k \in I /\ k # 0)
  BY <1>6, <1>7, FirstIs
<1>12. IsInIncomplete(h) <=> \E t \in Entries(inchain) : h \in N[t.b] /\ heap[h].parent = from[h]
  BY <1>5, <1>8, <1>9, <1>10
<1>13. I = {} <=> \A t \in Entries(inchain) : h \notin N[t.b]
  BY <1>5, <1>8, <1>10
<1> QED
  BY <1>3, <1>8, <1>10, <1>11, <1>12, <1>13

\* The nodes C, with h on top of them, have come into the main tree.
Grafted(N, M, C, h) ==
  /\ Becomes(from, heap, heap', RootsOf(inchain'), M, h, from[h], C)
  /\ Listed(inchain') /\ Entries(inchain') = {t \in Entries(inchain) : t.b # h}
  /\ h \in C /\ C \subseteq BlockHash /\ M[Genesis] = N[Genesis] \cup C
  /\ \A t \in Entries(inchain') : M[t.b] = N[t.b]
  /\ \/ C = {h} /\ \A t \in Entries(inchain) : t.b # h
     \/ \E t \in Entries(inchain) : t.b = h /\ C = N[h]
  /\ h \notin N[Genesis] /\ from[h] \in N[Genesis]
  /\ nb' = nb \cup {h} /\ from' = from
  /\ \E d \in C : /\ \A z \in C : DepthOf(from, z) <= DepthOf(from, d)
                  /\ deepest' = IF DepthOf(from, d) > DepthOf(from, deepest) THEN d ELSE deepest

\* If every root but genesis keeps its nodes, so do the entries that stay.
LEMMA RootsStay ==
  ASSUME HeapInv, NEW N, View(N), NEW h, NEW M,
         Entries(inchain') = {t \in Entries(inchain) : t.b # h},
         \A s \in RootsOf(inchain') : s # Genesis => M[s] = N[s]
  PROVE  \A t \in Entries(inchain') : M[t.b] = N[t.b]
<1> TAKE t \in Entries(inchain')
<1>1. t.b # Genesis
  BY ViewFacts
<1>2. t.b \in RootsOf(inchain')
  BY RootsAre
<1> QED
  BY <1>1, <1>2

\* Case h is in no tree.
LEMMA GraftNode ==
  ASSUME HeapInv, NEW N, View(N), NEW h \in Hashes, h \notin N[Genesis], from[h] \in N[Genesis],
         \A t \in Entries(inchain) : t.b # h,
         heap' = AddByParent(heap, Genesis, from[h], h), inchain' = inchain
  PROVE  \E M : /\ Becomes(from, heap, heap', RootsOf(inchain'), M, h, from[h], {h})
                /\ M[Genesis] = N[Genesis] \cup {h}
                /\ \A s \in RootsOf(inchain') : s # Genesis => M[s] = N[s]
<1> DEFINE R == RootsOf(inchain)
           M == [s \in R |-> IF s = Genesis THEN N[Genesis] \cup {h} ELSE N[s]]
           K == heap'
           p == from[h]
<1>1. /\ Genesis \in R /\ R \subseteq BlockHash /\ N \in [R -> SUBSET BlockHash]
      /\ \A r \in R : \A y \in N[r] \ {r} : from[y] \in N[r]
      /\ \A r, s \in R : r # s => N[r] \cap N[s] = {}
      /\ \A r \in R \ {Genesis} : \E t \in Entries(inchain) : t.b = r
      /\ \A r \in R : r \in N[r]
  BY ViewFacts
<1>2. h \in BlockHash /\ h # Genesis /\ h \notin R
  BY <1>1, HashFacts
<1>3. \A s \in R : h \notin N[s]
  BY <1>1, <1>2
<1>4. M \in [R -> SUBSET BlockHash] /\ M[Genesis] = N[Genesis] \cup {h} /\ \A s \in R : s # Genesis => M[s] = N[s]
  BY <1>1, <1>2
<1>5. Forest(from, heap, R, N) /\ RootsOf(inchain') = R /\ p \in N[Genesis] /\ from[h] = p
  BY DEF View
<1>6. K = AddByParent(heap, Genesis, p, h)
  OBVIOUS
<1> HIDE DEF R, M, K, p
<1>7. Becomes(from, heap, K, R, M, h, p, {h})
  BY <1>1, <1>3, <1>4, <1>5, <1>6, AttachNew
<1> QED
  BY <1>4, <1>5, <1>7 DEF K

\* Case h is the missing root of a tree.
LEMMA GraftTree ==
  ASSUME HeapInv, NEW N, View(N), NEW h \in Hashes, from[h] \in N[Genesis],
         NEW i \in 1 .. Len(inchain), inchain[i].b = h,
         heap' = AppendChild(InsertSubtree(heap, Genesis, h), from[h], h),
         inchain' = RemoveAt(inchain, i)
  PROVE  \E M : /\ Becomes(from, heap, heap', RootsOf(inchain'), M, h, from[h], N[h])
                /\ M[Genesis] = N[Genesis] \cup N[h]
                /\ \A s \in RootsOf(inchain') : s # Genesis => M[s] = N[s]
<1> DEFINE R == RootsOf(inchain)
           S == RootsOf(inchain')
           M == [s \in S |-> IF s = Genesis THEN N[Genesis] \cup N[h] ELSE N[s]]
           K == heap'
           p == from[h]
<1>1. /\ Genesis \in R /\ R \subseteq BlockHash /\ N \in [R -> SUBSET BlockHash]
      /\ inchain[i] \in Entries(inchain) /\ inchain[i].b \in R
  BY ViewFacts
<1>2. h \in BlockHash /\ h # Genesis /\ h \in R
  BY <1>1, HashFacts
<1>3. S = R \ {h}
  <2>1. Listed(inchain)
    BY DEF HeapInv
  <2> QED
    BY <2>1, RemovedIs
<1>4. M \in [S -> SUBSET BlockHash] /\ M[Genesis] = N[Genesis] \cup N[h] /\ \A s \in S : s # Genesis => M[s] = N[s]
  BY <1>1, <1>2, <1>3
<1>5. Forest(from, heap, R, N) /\ p \in N[Genesis] /\ from[h] = p
  BY DEF View
<1>6. K = AppendChild(InsertSubtree(heap, Genesis, h), p, h)
  OBVIOUS
<1> HIDE DEF R, S, M, K, p
<1>7. Becomes(from, heap, K, S, M, h, p, N[h])
  BY <1>1, <1>2, <1>3, <1>4, <1>5, <1>6, AttachTree
<1> QED
  BY <1>4, <1>7 DEF K, S, p

\* find_max_depth on the grafted blocks.
LEMMA DeepestFound ==
  ASSUME HeapInv, NEW h, NEW K \in Heaps, NEW C, FamilyTree(from, K, h, C),
         NEW deep, deep = MaxDepth(K, h),
         deepest' = IF Deeper(deep, deepest) THEN deep ELSE deepest
  PROVE  \E d \in C : /\ \A z \in C : DepthOf(from, z) <= DepthOf(from, d)
                      /\ deepest' = IF DepthOf(from, d) > DepthOf(from, deepest) THEN d ELSE deepest
<1>1. deep \in C /\ \A z \in C : Depth(z) <= Depth(deep)
  BY MaxDepthIs DEF HeapInv
<1>2. Deeper(deep, deepest) <=> DepthOf(from, deep) > DepthOf(from, deepest)
  BY DepthIs DEF Deeper
<1>3. \A z \in C : DepthOf(from, z) <= DepthOf(from, deep)
  BY <1>1, DepthIs
<1> QED
  BY <1>1, <1>2, <1>3

\* add_received_block with the parent in the main tree.
LEMMA GraftedIs ==
  ASSUME HeapInv, NEW N, View(N), NEW h \in Hashes, AddToMain(h)
  PROVE  \E M, C : Grafted(N, M, C, h)
<1> DEFINE n == Len(inchain)
           I == {j \in 1 .. n : inchain[j].b = h}
           i == SelectInSeq(inchain, LAMBDA t : t.b = h)
           grown == IF i = 0 THEN AddByParent(heap, Genesis, from[h], h)
                    ELSE AppendChild(InsertSubtree(heap, Genesis, h), from[h], h)
           deep  == MaxDepth(grown, h)
<1>1. /\ ~IsKnown(h) /\ IsKnown(from[h])
      /\ heap' = grown
      /\ inchain' = IF i = 0 THEN inchain ELSE RemoveAt(inchain, i)
      /\ nb' = nb \cup {h} /\ from' = from
      /\ deepest' = IF Deeper(deep, deepest) THEN deep ELSE deepest
  BY DEF AddToMain
<1>2. i = IF I # {} THEN Min(I) ELSE 0
  BY DEF SelectInSeq
<1>3. h \in BlockHash /\ from[h] \in BlockHash
  <2>1. from \in BlockTrees
    BY DEF HeapInv
  <2> QED
    BY <2>1, HashFacts, DepthFacts
<1>4. h \notin N[Genesis] /\ from[h] \in N[Genesis]
  BY <1>1, <1>3, LookedUp
<1>5. n \in Nat /\ I \in SUBSET (1 .. n)
  BY DEF HeapInv, Listed
<1>6. \A j : j \in I <=> j \in 1 .. n /\ inchain[j].b = h
  OBVIOUS
<1>7. /\ heap' = IF i = 0 THEN AddByParent(heap, Genesis, from[h], h)
                 ELSE AppendChild(InsertSubtree(heap, Genesis, h), from[h], h)
      /\ deep = MaxDepth(heap', h) /\ n = Len(inchain)
  BY <1>1
<1> HIDE DEF I, i, n, deep, grown
<1>8. (i = 0 /\ I = {}) \/ (i \in I /\ i # 0)
  BY <1>2, <1>5, FirstIs
<1>9. Listed(inchain) /\ \A t : t \in Entries(inchain) <=> \E j \in 1 .. n : t = inchain[j]
  BY <1>7 DEF HeapInv, Entries
<1>10. \E M, C : /\ Becomes(from, heap, heap', RootsOf(inchain'), M, h, from[h], C)
                 /\ h \in C /\ C \subseteq BlockHash /\ M[Genesis] = N[Genesis] \cup C
                 /\ \A s \in RootsOf(inchain') : s # Genesis => M[s] = N[s]
                 /\ Listed(inchain') /\ Entries(inchain') = {t \in Entries(inchain) : t.b # h}
                 /\ \/ C = {h} /\ \A t \in Entries(inchain) : t.b # h
                    \/ \E t \in Entries(inchain) : t.b = h /\ C = N[h]
  <2>1. CASE i = 0
    <3>1. \A t \in Entries(inchain) : t.b # h
      BY <1>6, <1>8, <1>9, <2>1
    <3>2. heap' = AddByParent(heap, Genesis, from[h], h) /\ inchain' = inchain
      BY <1>1, <1>7, <2>1
    <3>3. PICK M : /\ Becomes(from, heap, heap', RootsOf(inchain'), M, h, from[h], {h})
                   /\ M[Genesis] = N[Genesis] \cup {h}
                   /\ \A s \in RootsOf(inchain') : s # Genesis => M[s] = N[s]
      BY <1>4, <3>1, <3>2, GraftNode
    <3>4. Listed(inchain') /\ Entries(inchain') = {t \in Entries(inchain) : t.b # h}
      BY <1>9, <3>1, <3>2
    <3>5. h \in {h} /\ {h} \subseteq BlockHash
      BY <1>3
    <3> QED
      BY <3>1, <3>3, <3>4, <3>5
  <2>2. CASE i # 0
    <3>1. i \in 1 .. n /\ inchain[i].b = h
      BY <1>6, <1>8, <2>2
    <3>2. heap' = AppendChild(InsertSubtree(heap, Genesis, h), from[h], h) /\ inchain' = RemoveAt(inchain, i)
      BY <1>1, <1>7, <2>2
    <3>3. i \in 1 .. Len(inchain)
      BY <1>7, <3>1
    <3>4. PICK M : /\ Becomes(from, heap, heap', RootsOf(inchain'), M, h, from[h], N[h])
                   /\ M[Genesis] = N[Genesis] \cup N[h]
                   /\ \A s \in RootsOf(inchain') : s # Genesis => M[s] = N[s]
      BY <1>4, <3>1, <3>2, <3>3, GraftTree
    <3>5. Listed(inchain') /\ Entries(inchain') = Entries(inchain) \ {inchain[i]}
      BY <1>9, <3>2, <3>3, RemovedIs
    <3>6. inchain[i] \in Entries(inchain) /\ \A t \in Entries(inchain) : t.b = h <=> t = inchain[i]
      BY <3>1, <3>3, ViewFacts
    <3>7. Entries(inchain') = {t \in Entries(inchain) : t.b # h}
      BY <3>5, <3>6
    <3>8. h \in N[h] /\ N[h] \subseteq BlockHash
      BY <3>1, <3>6, ViewFacts
    <3> QED
      BY <3>1, <3>4, <3>5, <3>6, <3>7, <3>8
  <2> QED
    BY <2>1, <2>2
<1>11. PICK M, C : /\ Becomes(from, heap, heap', RootsOf(inchain'), M, h, from[h], C)
                   /\ h \in C /\ C \subseteq BlockHash /\ M[Genesis] = N[Genesis] \cup C
                   /\ \A s \in RootsOf(inchain') : s # Genesis => M[s] = N[s]
                   /\ Listed(inchain') /\ Entries(inchain') = {t \in Entries(inchain) : t.b # h}
                   /\ \/ C = {h} /\ \A t \in Entries(inchain) : t.b # h
                      \/ \E t \in Entries(inchain) : t.b = h /\ C = N[h]
  BY <1>10
<1>12. \A t \in Entries(inchain') : M[t.b] = N[t.b]
  <2>1. /\ Entries(inchain') = {t \in Entries(inchain) : t.b # h}
        /\ \A s \in RootsOf(inchain') : s # Genesis => M[s] = N[s]
    BY <1>11
  <2> QED
    BY <2>1, RootsStay
<1>13. \E d \in C : /\ \A z \in C : DepthOf(from, z) <= DepthOf(from, d)
                    /\ deepest' = IF DepthOf(from, d) > DepthOf(from, deepest) THEN d ELSE deepest
  <2>1. heap' \in Heaps /\ FamilyTree(from, heap', h, C)
    BY <1>11 DEF Becomes, Forest
  <2> QED
    BY <1>1, <1>7, <2>1, DeepestFound
<1>14. Grafted(N, M, C, h)
  BY <1>1, <1>4, <1>11, <1>12, <1>13 DEF Grafted
<1> QED
  BY <1>14

\* The nodes C, with h on top of them, hang below the parent of h in the tree new,
\* which has the nodes B now and stands for the trees old.
Hooked(N, M, h, C, old, new, B) ==
  /\ Becomes(from, heap, heap', RootsOf(inchain'), M, h, from[h], C)
  /\ Listed(inchain') /\ Entries(inchain') = (Entries(inchain) \ old) \cup {new}
  /\ M[Genesis] = N[Genesis] /\ M[new.b] = B
  /\ \A t \in Entries(inchain) \ old : M[t.b] = N[t.b]

\* What the four cases have in common.
OffMain(N, h) ==
  /\ HeapInv /\ View(N) /\ h \in Hashes
  /\ h \notin N[Genesis] /\ from[h] \notin N[Genesis]
  /\ from[h] # h /\ from[h] \in BlockHash

\* The assignments of add_block_to_incomplete.
Cleared(H, p) == [H EXCEPT ![p] = Fresh]
Linked(H, p, b) == [H EXCEPT ![p].child = b, ![b].parent = p]

\* Making a fresh node for p changes nothing.
LEMMA ClearedIs ==
  ASSUME NEW H \in Heaps, NEW p \in BlockHash, H[p] = Fresh
  PROVE  Cleared(H, p) = H
BY DEF Heaps, Cleared

\* The two assignments for a new root do what appending a first child does.
LEMMA LinkedIs ==
  ASSUME NEW G \in Heaps, NEW p \in BlockHash, NEW b \in BlockHash, b # p, G[p].child = NULL
  PROVE  Linked(G, p, b) = AppendChild(G, p, b)
BY FirstChild, Zenon DEF Linked

\* The first case: neither h nor p is in an incomplete tree.
NewCase(N, h, p, new) ==
  /\ OffMain(N, h) /\ p = from[h] /\ new = [b |-> p, no_asks |-> 0]
  /\ \A t \in Entries(inchain) : h \notin N[t.b] /\ p \notin N[t.b]
  /\ heap' = AddByParent(Cleared(heap, p), p, p, h) /\ inchain' = Append(inchain, new)

\* Neither h nor its parent is in an incomplete tree.
LEMMA NewTreeIs ==
  ASSUME NEW N, NEW h, NEW p, NEW new, NewCase(N, h, p, new)
  PROVE  \E M : Hooked(N, M, h, {h}, {}, new, {p, h})
<1> DEFINE R == RootsOf(inchain)
           S == R \cup {p}
           L == With(R, N, p)
           M == [s \in S |-> IF s = p THEN {p, h} ELSE N[s]]
           K == heap'
<1>0. /\ OffMain(N, h) /\ p = from[h]
      /\ \A t \in Entries(inchain) : h \notin N[t.b] /\ p \notin N[t.b]
  BY DEF NewCase
<1>1. /\ heap \in Heaps /\ Genesis \in R /\ R \subseteq BlockHash /\ N \in [R -> SUBSET BlockHash]
      /\ \A r \in R \ {Genesis} : \E t \in Entries(inchain) : t.b = r
      /\ \A t \in Entries(inchain) : t.b \in R \ {Genesis}
  BY <1>0, ViewFacts DEF OffMain
<1>2. h \in Hashes /\ h \in BlockHash /\ p \in BlockHash /\ p # h /\ from[h] = p
  BY <1>0, HashFacts DEF OffMain
<1>3. \A s \in R : h \notin N[s] /\ p \notin N[s]
  BY <1>0, <1>1 DEF OffMain
<1>4. Forest(from, heap, R, N) /\ Listed(inchain)
  BY <1>0 DEF OffMain, View, HeapInv
<1> HIDE DEF R
<1>5. Forest(from, heap, S, L) /\ heap[p] = Fresh /\ p \notin R
  <2>1. p \in BlockHash /\ \A s \in R : p \notin N[s]
    BY <1>2, <1>3
  <2> QED
    BY <1>4, <2>1, AddSingle
<1>6. L[p] = {p} /\ \A s \in R : L[s] = N[s]
  BY <1>5 DEF With
<1>7. M \in [S -> SUBSET BlockHash] /\ M[p] = {p, h} /\ \A s \in R : M[s] = N[s]
  BY <1>1, <1>2, <1>5
<1>8. K = AddByParent(heap, p, p, h)
  <2>1. Cleared(heap, p) = heap
    BY <1>1, <1>2, <1>5, ClearedIs
  <2> QED
    BY <2>1, Zenon DEF NewCase
<1>9. p \in S /\ \A s \in S : s \in R \/ s = p
  OBVIOUS
<1> HIDE DEF L, M, K, S
<1>10. M[p] = L[p] \cup {h} /\ (\A s \in S : s # p => M[s] = L[s]) /\ p \in L[p] /\ \A s \in S : h \notin L[s]
  BY <1>2, <1>3, <1>6, <1>7, <1>9
<1>11. Becomes(from, heap, K, S, M, h, p, {h})
  BY <1>2, <1>5, <1>7, <1>8, <1>9, <1>10, AttachNew
<1>12. new \in Entry /\ new.b = p /\ new.b \notin R
  BY <1>2, <1>5, AsksAssumption DEF Entry, NewCase
<1>13. Listed(inchain') /\ Entries(inchain') = Entries(inchain) \cup {new} /\ RootsOf(inchain') = S
  <2>1. new.b \notin RootsOf(inchain)
    BY <1>12 DEF R
  <2> DEFINE k == inchain'
  <2>2. k = Append(inchain, new)
    BY Zenon DEF NewCase
  <2> HIDE DEF k, S
  <2>3. Listed(k) /\ Entries(k) = Entries(inchain) \cup {new} /\ RootsOf(k) = RootsOf(inchain) \cup {new.b}
    BY <1>4, <1>12, <2>1, <2>2, AppendedIs
  <2> QED
    BY <1>12, <2>3 DEF k, R, S
<1>14. Hooked(N, M, h, {h}, {}, new, {p, h})
  <2>1. M[Genesis] = N[Genesis] /\ M[new.b] = {p, h} /\ \A t \in Entries(inchain) : M[t.b] = N[t.b]
    BY <1>1, <1>7, <1>12
  <2>2. Entries(inchain') = (Entries(inchain) \ {}) \cup {new}
    BY <1>13
  <2>3. Becomes(from, heap, heap', RootsOf(inchain'), M, h, from[h], {h})
    BY <1>2, <1>11, <1>13 DEF K
  <2> QED
    BY <1>13, <2>1, <2>2, <2>3 DEF Hooked
<1> QED
  BY <1>14

\* Only the parent of h is in an incomplete tree.
LEMMA GrowTreeIs ==
  ASSUME NEW N, NEW h, OffMain(N, h), NEW p, p = from[h], NEW e \in Entries(inchain), p \in N[e.b],
         \A t \in Entries(inchain) : h \notin N[t.b],
         heap' = AddByParent(heap, e.b, p, h), inchain' = inchain
  PROVE  \E M : Hooked(N, M, h, {h}, {e}, e, N[e.b] \cup {h})
<1> DEFINE R == RootsOf(inchain)
           r == e.b
           M == [s \in R |-> IF s = r THEN N[r] \cup {h} ELSE N[s]]
           K == heap'
<1>1. /\ Genesis \in R /\ R \subseteq BlockHash /\ N \in [R -> SUBSET BlockHash]
      /\ \A s \in R \ {Genesis} : \E t \in Entries(inchain) : t.b = s
      /\ \A t \in Entries(inchain) : t.b \in R \ {Genesis}
      /\ \A t, u \in Entries(inchain) : t # u => t.b # u.b
  BY ViewFacts DEF OffMain
<1>2. h \in Hashes /\ h \in BlockHash /\ from[h] = p
  BY HashFacts DEF OffMain
<1>3. \A s \in R : h \notin N[s]
  BY <1>1 DEF OffMain
<1>4. Forest(from, heap, R, N) /\ Listed(inchain) /\ RootsOf(inchain') = R
  BY DEF OffMain, View, HeapInv
<1>5. r \in R /\ r # Genesis /\ p \in N[r] /\ K = AddByParent(heap, r, p, h)
  BY <1>1
<1> HIDE DEF R, r
<1>6. M \in [R -> SUBSET BlockHash] /\ M[r] = N[r] \cup {h} /\ \A s \in R : s # r => M[s] = N[s]
  BY <1>1, <1>2, <1>5
<1> HIDE DEF M, K
<1>7. Becomes(from, heap, K, R, M, h, p, {h})
  BY <1>2, <1>3, <1>4, <1>5, <1>6, AttachNew
<1>8. Hooked(N, M, h, {h}, {e}, e, N[r] \cup {h})
  <2>1. M[Genesis] = N[Genesis] /\ M[e.b] = N[r] \cup {h} /\ \A t \in Entries(inchain) \ {e} : M[t.b] = N[t.b]
    BY <1>1, <1>5, <1>6 DEF r
  <2>2. Entries(inchain') = (Entries(inchain) \ {e}) \cup {e}
    OBVIOUS
  <2>3. Becomes(from, heap, heap', RootsOf(inchain'), M, h, from[h], {h})
    BY <1>2, <1>4, <1>7 DEF K
  <2>4. Listed(inchain')
    BY <1>4
  <2> QED
    BY <2>1, <2>2, <2>3, <2>4 DEF Hooked
<1> QED
  BY <1>8 DEF r

\* The third case: h is the root of the tree at place i, p is in none.
RaiseCase(N, h, p, new, i, G) ==
  /\ OffMain(N, h) /\ p = from[h] /\ new = [b |-> p, no_asks |-> 0]
  /\ i \in 1 .. Len(inchain) /\ inchain[i].b = h
  /\ \A t \in Entries(inchain) : p \notin N[t.b]
  /\ G = InsertSubtree(Cleared(heap, p), p, h)
  /\ heap' = Linked(G, p, h) /\ inchain' = Reset(inchain, i, new)

\* Only h is in an incomplete tree, as its root: the parent becomes the root.
LEMMA RaiseRootIs ==
  ASSUME NEW N, NEW h, NEW p, NEW new, NEW i, NEW G, RaiseCase(N, h, p, new, i, G)
  PROVE  \E M : Hooked(N, M, h, N[h], {inchain[i]}, new, {p} \cup N[h])
<1> DEFINE R == RootsOf(inchain)
           S == (R \cup {p}) \ {h}
           M == [s \in S |-> IF s = p THEN {p} \cup N[h] ELSE N[s]]
           e == inchain[i]
           A == AppendChild(G, p, h)
<1>0. /\ OffMain(N, h) /\ p = from[h] /\ i \in 1 .. Len(inchain) /\ inchain[i].b = h
      /\ \A t \in Entries(inchain) : p \notin N[t.b]
  BY DEF RaiseCase
<1>1. /\ heap \in Heaps /\ Genesis \in R /\ R \subseteq BlockHash /\ N \in [R -> SUBSET BlockHash]
      /\ \A r \in R \ {Genesis} : \E t \in Entries(inchain) : t.b = r
      /\ \A t \in Entries(inchain) : t.b \in R \ {Genesis}
      /\ e \in Entries(inchain)
      /\ \A t, u \in Entries(inchain) : t # u => t.b # u.b
  BY <1>0, ViewFacts DEF OffMain
<1>2. h \in Hashes /\ h \in BlockHash /\ h # Genesis /\ p \in BlockHash /\ p # h /\ from[h] = p
  BY <1>0, HashFacts DEF OffMain
<1>3. \A s \in R : p \notin N[s]
  BY <1>0, <1>1 DEF OffMain
<1>4. Forest(from, heap, R, N) /\ Listed(inchain)
  BY <1>0 DEF OffMain, View, HeapInv
<1>5. e.b = h /\ h \in R /\ e = inchain[i]
  BY <1>0, <1>1
<1> HIDE DEF e, R, M, S, A
<1>6. heap[p] = Fresh /\ p \notin R
  <2>1. p \in BlockHash /\ \A s \in R : p \notin N[s]
    BY <1>2, <1>3
  <2>2. Forest(from, heap, R \cup {p}, With(R, N, p)) /\ heap[p] = Fresh /\ p \notin R
    BY <1>4, <2>1, AddSingle
  <2> QED
    BY <2>2
<1>7. M \in [S -> SUBSET BlockHash] /\ M[p] = {p} \cup N[h] /\ \A s \in S : s # p => M[s] = N[s]
  BY <1>1, <1>2, <1>5, <1>6 DEF M, S
<1>8. p \in S /\ (\A s \in R : s # h => s \in S) /\ (\A s \in S : s # p => s \in R)
  BY <1>2 DEF S
<1>9. G = InsertSubtree(heap, p, h)
  <2>1. Cleared(heap, p) = heap
    BY <1>1, <1>2, <1>6, ClearedIs
  <2> QED
    BY <2>1, Zenon DEF RaiseCase
<1>10. A = AppendChild(G, p, h) /\ S = (R \cup {p}) \ {h}
  BY Zenon DEF A, S
<1>11. Becomes(from, heap, A, S, M, h, p, N[h]) /\ G \in Heaps /\ G[p].child = NULL /\ h # p
  BY <1>2, <1>3, <1>4, <1>5, <1>7, <1>9, <1>10, RaiseTree
<1>12. heap' = A
  BY <1>2, <1>10, <1>11, LinkedIs DEF RaiseCase
<1>13. new \in Entry /\ new.b = p
  BY <1>2, AsksAssumption DEF Entry, RaiseCase
<1>14. Listed(inchain') /\ Entries(inchain') = (Entries(inchain) \ {e}) \cup {new} /\ RootsOf(inchain') = S
  <2>1. new.b \notin RootsOf(inchain) \ {inchain[i].b} /\ i \in 1 .. Len(inchain)
    BY <1>0, <1>6, <1>13 DEF R
  <2> DEFINE q == inchain'
  <2>2. q = Reset(inchain, i, new)
    BY DEF RaiseCase
  <2> HIDE DEF q
  <2>3. Listed(q) /\ Entries(q) = (Entries(inchain) \ {inchain[i]}) \cup {new}
        /\ RootsOf(q) = (RootsOf(inchain) \ {inchain[i].b}) \cup {new.b}
    BY <1>4, <1>13, <2>1, <2>2, ReplacedIs
  <2>4. (R \ {h}) \cup {p} = S
    BY <1>2, <1>10
  <2> QED
    BY <1>5, <1>13, <2>3, <2>4 DEF q, R
<1>15. Hooked(N, M, h, N[h], {e}, new, {p} \cup N[h])
  <2>1. M[Genesis] = N[Genesis]
    BY <1>1, <1>2, <1>6, <1>7, <1>8
  <2>2. \A t \in Entries(inchain) \ {e} : t.b \in R /\ t.b # h /\ t.b # p
    BY <1>1, <1>5, <1>6
  <2>3. \A t \in Entries(inchain) \ {e} : M[t.b] = N[t.b]
    BY <1>7, <1>8, <2>2
  <2>4. Becomes(from, heap, heap', RootsOf(inchain'), M, h, from[h], N[h])
    BY <1>2, <1>11, <1>12, <1>14
  <2>5. M[new.b] = {p} \cup N[h]
    BY <1>7, <1>13
  <2> QED
    BY <1>14, <2>1, <2>3, <2>4, <2>5 DEF Hooked
<1> QED
  BY <1>15 DEF e

\* Both are in incomplete trees: the one below h is joined to the other.
LEMMA JoinTreesIs ==
  ASSUME NEW N, NEW h, OffMain(N, h), NEW p, p = from[h],
         NEW i \in 1 .. Len(inchain), inchain[i].b = h,
         NEW d \in Entries(inchain), p \in N[d.b],
         heap' = AppendChild(InsertSubtree(heap, d.b, h), p, h),
         inchain' = RemoveAt(inchain, i)
  PROVE  d # inchain[i] /\ \E M : Hooked(N, M, h, N[h], {inchain[i], d}, d, N[d.b] \cup N[h])
<1> DEFINE R == RootsOf(inchain)
           S == RootsOf(inchain')
           r == d.b
           M == [s \in S |-> IF s = r THEN N[r] \cup N[h] ELSE N[s]]
           e == inchain[i]
           K == heap'
<1>1. /\ heap \in Heaps /\ Genesis \in R /\ R \subseteq BlockHash /\ N \in [R -> SUBSET BlockHash]
      /\ \A t \in Entries(inchain) : t.b \in R \ {Genesis}
      /\ e \in Entries(inchain)
      /\ \A t, u \in Entries(inchain) : t # u => t.b # u.b
      /\ \A s \in R : FamilyTree(from, heap, s, N[s])
  BY ViewFacts DEF OffMain
<1>2. h \in Hashes /\ h \in BlockHash /\ h # Genesis /\ p \in BlockHash /\ p # h /\ from[h] = p
  BY HashFacts DEF OffMain
<1>4. Forest(from, heap, R, N) /\ Listed(inchain) /\ from \in BlockTrees
  BY DEF OffMain, View, HeapInv
<1>5. e.b = h /\ h \in R /\ e = inchain[i]
  BY <1>1
<1>6. r \in R /\ r # Genesis /\ p \in N[r] /\ d.b = r
  BY <1>1
<1>7. K = AppendChild(InsertSubtree(heap, r, h), p, h)
  OBVIOUS
<1> HIDE DEF e, R, r, K
<1>8. r # h
  <2>1. ASSUME r = h PROVE FALSE
    <3>1. p \in N[h] \ {h} /\ FamilyTree(from, heap, h, N[h])
      BY <1>1, <1>2, <1>5, <1>6, <2>1
    <3>2. DepthOf(from, h) < DepthOf(from, p)
      BY <1>4, <3>1, FamilyDepth
    <3>3. DepthOf(from, h) = DepthOf(from, p) + 1 /\ DepthOf(from, p) \in 0 .. Size /\ Size \in Nat
      BY <1>2, <1>4, DepthFacts, HashFacts
    <3> QED
      BY <3>2, <3>3
  <2> QED
    BY <2>1
<1>9. S = R \ {h} /\ Listed(inchain') /\ Entries(inchain') = Entries(inchain) \ {e}
  <2>1. i \in 1 .. Len(inchain) /\ inchain' = RemoveAt(inchain, i)
    OBVIOUS
  <2> DEFINE q == inchain'
  <2> HIDE DEF q
  <2>2. Listed(q) /\ Entries(q) = Entries(inchain) \ {inchain[i]} /\ RootsOf(q) = RootsOf(inchain) \ {inchain[i].b}
    BY <1>4, <2>1, RemovedIs DEF q
  <2> QED
    BY <1>5, <2>2 DEF q, R
<1> HIDE DEF S
<1>10. M \in [S -> SUBSET BlockHash] /\ M[r] = N[r] \cup N[h] /\ \A s \in S : s # r => M[s] = N[s]
  BY <1>1, <1>5, <1>6, <1>8, <1>9
<1> HIDE DEF M
<1>11. Becomes(from, heap, K, S, M, h, p, N[h])
  BY <1>2, <1>4, <1>5, <1>6, <1>7, <1>8, <1>9, <1>10, AttachTree
<1>12. d # e
  BY <1>5, <1>6, <1>8
<1>13. Hooked(N, M, h, N[h], {e, d}, d, N[r] \cup N[h])
  <2>1. M[Genesis] = N[Genesis]
    BY <1>1, <1>2, <1>6, <1>9, <1>10
  <2>2. \A t \in Entries(inchain) \ {e, d} : t.b \in S /\ t.b # r
    BY <1>1, <1>5, <1>6, <1>9
  <2>3. \A t \in Entries(inchain) \ {e, d} : M[t.b] = N[t.b]
    BY <1>10, <2>2
  <2>4. Becomes(from, heap, heap', RootsOf(inchain'), M, h, from[h], N[h])
    BY <1>2, <1>11 DEF K, S
  <2>5. M[d.b] = N[r] \cup N[h]
    BY <1>6, <1>10
  <2>6. Entries(inchain') = (Entries(inchain) \ {e, d}) \cup {d}
    BY <1>9, <1>12
  <2> QED
    BY <1>9, <2>1, <2>3, <2>4, <2>5, <2>6 DEF Hooked
<1> QED
  BY <1>12, <1>13 DEF e, r

\* The four cases of add_block_to_incomplete.
HookedNew(N, h) ==
  /\ \A t \in Entries(inchain) : h \notin N[t.b] /\ from[h] \notin N[t.b]
  /\ \E M : Hooked(N, M, h, {h}, {}, [b |-> from[h], no_asks |-> 0], {from[h], h})
HookedGrow(N, h) ==
  /\ \A t \in Entries(inchain) : h \notin N[t.b]
  /\ \E e \in Entries(inchain) :
        /\ from[h] \in N[e.b]
        /\ \E M : Hooked(N, M, h, {h}, {e}, e, N[e.b] \cup {h})
HookedRaise(N, h) ==
  /\ \A t \in Entries(inchain) : from[h] \notin N[t.b]
  /\ \E e \in Entries(inchain) :
        /\ e.b = h
        /\ \E M : Hooked(N, M, h, N[h], {e}, [b |-> from[h], no_asks |-> 0], {from[h]} \cup N[h])
HookedJoin(N, h) ==
  \E e, d \in Entries(inchain) :
     /\ e.b = h /\ from[h] \in N[d.b] /\ d # e
     /\ \E M : Hooked(N, M, h, N[h], {e, d}, d, N[d.b] \cup N[h])

\* Every call of add_block_to_incomplete is one of the four cases.
LEMMA HookedIs ==
  ASSUME HeapInv, NEW N, View(N), NEW h \in Hashes, AddToIncomplete(h)
  PROVE  /\ OffMain(N, h) /\ nb' = nb \cup {h} /\ from' = from /\ deepest' = deepest
         /\ ~ \E t \in Entries(inchain) : h \in N[t.b] /\ heap[h].parent = from[h]
         /\ HookedNew(N, h) \/ HookedGrow(N, h) \/ HookedRaise(N, h) \/ HookedJoin(N, h)
<1> DEFINE p == from[h]
           ch == PlaceOf(h)
           ph == PlaceOf(p)
<1>1. /\ ~IsKnown(h) /\ ~IsKnown(p) /\ ~IsInIncomplete(h)
      /\ nb' = nb \cup {h} /\ from' = from /\ deepest' = deepest
  BY Zenon DEF AddToIncomplete
<1>2. from \in BlockTrees /\ h \in BlockHash /\ h # Genesis
  BY HashFacts DEF HeapInv
<1>3. p \in BlockHash /\ p # h
  <2>1. /\ DepthOf(from, h) = DepthOf(from, p) + 1 /\ p \in BlockHash
        /\ DepthOf(from, h) \in 0 .. Size /\ Size \in Nat
    BY <1>2, DepthFacts, HashFacts
  <2> QED
    BY <2>1
<1>4. /\ h \notin N[Genesis] /\ p \notin N[Genesis]
      /\ \/ ch = 0 /\ \A t \in Entries(inchain) : h \notin N[t.b]
         \/ ch # 0 /\ ch \in 1 .. Len(inchain) /\ h \in N[inchain[ch].b]
      /\ \/ ph = 0 /\ \A t \in Entries(inchain) : p \notin N[t.b]
         \/ ph # 0 /\ ph \in 1 .. Len(inchain) /\ p \in N[inchain[ph].b]
      /\ ~ \E t \in Entries(inchain) : h \in N[t.b] /\ heap[h].parent = p
  BY <1>1, <1>2, <1>3, LookedUp
<1>5. OffMain(N, h)
  BY <1>3, <1>4 DEF OffMain
<1>6. \A i \in 1 .. Len(inchain) : inchain[i] \in Entries(inchain)
  BY ViewFacts
<1>7. ch # 0 => inchain[ch].b = h
  <2> HAVE ch # 0
  <2>1. inchain[ch] \in Entries(inchain) /\ h \in N[inchain[ch].b]
    BY <1>4, <1>6
  <2>2. heap[h].parent # p
    BY <1>4, <2>1
  <2> QED
    BY <2>1, <2>2, ViewFacts
<1>8. /\ ch = 0 /\ ph = 0 => /\ heap' = AddByParent(Cleared(heap, p), p, p, h)
                             /\ inchain' = Append(inchain, [b |-> p, no_asks |-> 0])
      /\ ch = 0 /\ ph # 0 => /\ heap' = AddByParent(heap, inchain[ph].b, p, h)
                             /\ inchain' = inchain
      /\ ch # 0 /\ ph = 0 =>
           /\ heap' = Linked(InsertSubtree(Cleared(heap, p), p, inchain[ch].b), p, inchain[ch].b)
           /\ inchain' = Reset(inchain, ch, [b |-> p, no_asks |-> 0])
      /\ ch # 0 /\ ph # 0 =>
           /\ heap' = AppendChild(InsertSubtree(heap, inchain[ph].b, inchain[ch].b), p, inchain[ch].b)
           /\ inchain' = RemoveAt(inchain, ch)
  <2>1. CASE ch = 0 /\ ph = 0
    BY <2>1 DEF AddToIncomplete, Cleared
  <2>2. CASE ch = 0 /\ ph # 0
    BY <2>2 DEF AddToIncomplete
  <2>3. CASE ch # 0 /\ ph = 0
    BY <2>3 DEF AddToIncomplete, Cleared, Linked, Reset
  <2>4. CASE ch # 0 /\ ph # 0
    BY <2>4 DEF AddToIncomplete
  <2> QED
    BY <2>1, <2>2, <2>3, <2>4
<1>9. p = from[h]
  OBVIOUS
<1> HIDE DEF p, ch, ph
<1>10. CASE ch = 0 /\ ph = 0
  <2> DEFINE new == [b |-> p, no_asks |-> 0]
  <2>1. NewCase(N, h, p, new)
    BY <1>4, <1>5, <1>8, <1>9, <1>10 DEF NewCase
  <2>2. \E M : Hooked(N, M, h, {h}, {}, new, {p, h})
    <3> HIDE DEF new
    <3> QED
      BY <2>1, NewTreeIs
  <2>3. HookedNew(N, h)
    BY <1>4, <1>9, <1>10, <2>2, Zenon DEF HookedNew
  <2> QED
    BY <1>1, <1>4, <1>5, <1>9, <2>3
<1>11. CASE ch = 0 /\ ph # 0
  <2> DEFINE e == inchain[ph]
  <2>1. e \in Entries(inchain) /\ p \in N[e.b] /\ \A t \in Entries(inchain) : h \notin N[t.b]
    BY <1>4, <1>6, <1>11
  <2>2. heap' = AddByParent(heap, e.b, p, h) /\ inchain' = inchain
    BY <1>8, <1>11
  <2> HIDE DEF e
  <2>3. \E M : Hooked(N, M, h, {h}, {e}, e, N[e.b] \cup {h})
    BY <1>5, <1>9, <2>1, <2>2, GrowTreeIs
  <2>4. HookedGrow(N, h)
    BY <1>9, <2>1, <2>3, Zenon DEF HookedGrow
  <2> QED
    BY <1>1, <1>4, <1>5, <1>9, <2>4
<1>12. CASE ch # 0 /\ ph = 0
  <2> DEFINE e == inchain[ch]
             new == [b |-> p, no_asks |-> 0]
             G == InsertSubtree(Cleared(heap, p), p, h)
  <2>1. e \in Entries(inchain) /\ e.b = h /\ \A t \in Entries(inchain) : p \notin N[t.b]
    BY <1>4, <1>6, <1>7, <1>12
  <2>2. RaiseCase(N, h, p, new, ch, G)
    BY <1>4, <1>5, <1>7, <1>8, <1>9, <1>12 DEF RaiseCase
  <2>3. \E M : Hooked(N, M, h, N[h], {e}, new, {p} \cup N[h])
    <3> HIDE DEF new, G
    <3> QED
      BY <2>2, RaiseRootIs
  <2>4. HookedRaise(N, h)
    <3> HIDE DEF e
    <3> QED
      BY <1>9, <2>1, <2>3, Zenon DEF HookedRaise
  <2> QED
    BY <1>1, <1>4, <1>5, <1>9, <2>4
<1>13. CASE ch # 0 /\ ph # 0
  <2> DEFINE e == inchain[ch]
             d == inchain[ph]
  <2>1. e \in Entries(inchain) /\ e.b = h /\ d \in Entries(inchain) /\ p \in N[d.b] /\ ch \in 1 .. Len(inchain)
    BY <1>4, <1>6, <1>7, <1>13
  <2>2. heap' = AppendChild(InsertSubtree(heap, d.b, h), p, h) /\ inchain' = RemoveAt(inchain, ch)
    BY <1>8, <1>13, <2>1
  <2> HIDE DEF d
  <2>3. d # inchain[ch] /\ \E M : Hooked(N, M, h, N[h], {inchain[ch], d}, d, N[d.b] \cup N[h])
    BY <1>5, <1>9, <2>1, <2>2, JoinTreesIs
  <2>4. HookedJoin(N, h)
    <3>1. d # e /\ \E M : Hooked(N, M, h, N[h], {e, d}, d, N[d.b] \cup N[h])
      BY <2>3
    <3> HIDE DEF e
    <3> QED
      BY <1>9, <2>1, <3>1, Zenon DEF HookedJoin
  <2> QED
    BY <1>1, <1>4, <1>5, <1>9, <2>4
<1> QED
  BY <1>10, <1>11, <1>12, <1>13

------------------------------------------------------------------------------
(* get_incomplete_chain_hashes. *)

\* The list once the trees due have been asked for.
AskedOf(due) == [i \in 1 .. Len(inchain) |->
                   IF i \in due THEN [inchain[i] EXCEPT !.no_asks = @ + 1] ELSE inchain[i]]

AskedFacts(due, asked) ==
  /\ AskedList(asked, Len(inchain)) /\ Len(inchain) \in Nat
  /\ \A i \in 1 .. Len(inchain) :
       /\ asked[i].b = inchain[i].b
       /\ i \in due => asked[i] = [b |-> inchain[i].b, no_asks |-> inchain[i].no_asks + 1]
       /\ i \notin due => asked[i] = inchain[i] /\ Stays(asked[i])

\* Asking adds one to the requests of the trees due and changes nothing else.
LEMMA AskedIs ==
  ASSUME HeapInv, NEW due \in SUBSET (1 .. Len(inchain)), NEW asked, asked = AskedOf(due)
  PROVE  AskedFacts(due, asked)
<1> DEFINE n == Len(inchain)
<1>1. /\ inchain \in Seq(Entry) /\ n \in Nat /\ \A i \in 1 .. n : inchain[i].b # Genesis
      /\ \A i, j \in 1 .. n : i # j => inchain[i].b # inchain[j].b
  BY DEF HeapInv, Listed
<1>2. \A i \in 1 .. n : inchain[i] \in Entry
  BY <1>1
<1>3. \A i \in 1 .. n : asked[i] = IF i \in due THEN [inchain[i] EXCEPT !.no_asks = @ + 1] ELSE inchain[i]
  BY DEF AskedOf
<1>4. asked = [i \in 1 .. n |-> asked[i]]
  BY DEF AskedOf
<1> HIDE DEF n
<1>5. ASSUME NEW i \in 1 .. n
      PROVE  /\ asked[i] \in Asked /\ asked[i].b = inchain[i].b
             /\ i \in due => asked[i] = [b |-> inchain[i].b, no_asks |-> inchain[i].no_asks + 1]
             /\ i \notin due => asked[i] = inchain[i] /\ Stays(asked[i])
  <2>1. /\ inchain[i] \in [b : BlockHash, no_asks : 0 .. NO_ASKS_BEFORE_REMOVING]
        /\ inchain[i].b \in BlockHash /\ inchain[i].no_asks \in Nat
        /\ inchain[i].no_asks <= NO_ASKS_BEFORE_REMOVING
    BY <1>2, AsksAssumption DEF Entry
  <2>2. CASE i \in due
    <3>1. asked[i] = [b |-> inchain[i].b, no_asks |-> inchain[i].no_asks + 1]
      BY <1>3, <2>1, <2>2
    <3> QED
      BY <2>1, <2>2, <3>1 DEF Asked
  <2>3. CASE i \notin due
    <3>1. asked[i] = inchain[i]
      BY <1>3, <2>3
    <3> QED
      BY <2>1, <2>3, <3>1, AsksAssumption DEF Asked, Stays
  <2> QED
    BY <2>2, <2>3
<1>6. asked \in [1 .. n -> Asked]
  BY <1>4, <1>5
<1>7. \A i, j \in 1 .. n : i # j => asked[i].b # asked[j].b
  <2> TAKE i, j \in 1 .. n
  <2>1. asked[i].b = inchain[i].b /\ asked[j].b = inchain[j].b
    BY <1>5
  <2>2. i # j => inchain[i].b # inchain[j].b
    BY <1>1
  <2> QED
    BY <2>1, <2>2, Zenon
<1> QED
  BY <1>1, <1>5, <1>6, <1>7 DEF n, AskedFacts, AskedList

\* The trees asked for too often are gone, and every other one is as it was.
GoneWith(N, due, asked) == UNION {N[asked[i].b] : i \in {j \in due : ~Stays(asked[j])}}
Pruned(N, M, due, asked, gone) ==
  /\ Forest(from, heap', RootsOf(inchain'), M) /\ Listed(inchain')
  /\ \A r \in RootsOf(inchain') : M[r] = N[r]
  /\ \A e : e \in Entries(inchain') <=> \E j \in 1 .. Len(inchain) : Stays(asked[j]) /\ e = asked[j]
  /\ due # {} /\ gone \cap N[Genesis] = {}
  /\ heap' = Freed(heap, gone)
  /\ nb' = nb \ gone /\ from' = from /\ deepest' = deepest

\* get_incomplete_chain_hashes drops the trees asked for too often with their nodes.
LEMMA PrunedIs ==
  ASSUME HeapInv, NEW N, View(N), NEW due \in SUBSET (1 .. Len(inchain)), AskForIncomplete(due)
  PROVE  \E M : Pruned(N, M, due, AskedOf(due), GoneWith(N, due, AskedOf(due)))
<1> DEFINE asked == AskedOf(due)
           n == Len(inchain)
           gone == GoneWith(N, due, asked)
           R == RootsOf(inchain)
           D == {asked[i].b : i \in {j \in due : ~Stays(asked[j])}}
           S == R \ D
           M == [r \in S |-> N[r]]
           K == heap'
<1>1. /\ Genesis \in R /\ R \subseteq BlockHash /\ N \in [R -> SUBSET BlockHash]
      /\ \A r \in R : FamilyTree(from, heap, r, N[r])
      /\ \A r, s \in R : r # s => N[r] \cap N[s] = {}
      /\ heap \in Heaps /\ from \in BlockTrees
      /\ \A t \in Entries(inchain) : t.b \in R
      /\ \A i \in 1 .. n : inchain[i] \in Entries(inchain)
      /\ \A r \in R : r = Genesis \/ \E i \in 1 .. n : r = inchain[i].b
  BY ViewFacts DEF HeapInv, RootsOf
<1>2. /\ asked \in [1 .. n -> Asked] /\ n \in Nat
      /\ \A i \in 1 .. n : asked[i].b = inchain[i].b /\ asked[i].b # Genesis /\ (i \notin due => Stays(asked[i]))
      /\ \A i, j \in 1 .. n : i # j => asked[i].b # asked[j].b
  <2>1. asked = AskedOf(due)
    OBVIOUS
  <2> HIDE DEF asked
  <2>2. AskedFacts(due, asked)
    BY <2>1, AskedIs
  <2> QED
    BY <2>2 DEF AskedFacts, AskedList
<1>3. /\ due # {} /\ nb' = nb \ UNION {Family(heap, asked[i].b) : i \in {j \in due : ~Stays(asked[j])}}
      /\ heap' = [h \in BlockHash |->
                    IF h \in UNION {Family(heap, asked[i].b) : i \in {j \in due : ~Stays(asked[j])}}
                    THEN Fresh ELSE heap[h]]
      /\ from' = from /\ deepest' = deepest
  BY DEF AskForIncomplete, AskedOf
<1>4. inchain' = LeftOf(asked, n)
  BY Zenon DEF AskForIncomplete, AskedOf, LeftStep, LeftOf
<1>5. \A h : h \in gone <=> \E d \in D : h \in N[d]
  BY DEF GoneWith
<1>6. \A d : d \in D <=> \E i \in due : ~Stays(asked[i]) /\ d = asked[i].b
  OBVIOUS
<1>7. \A i \in due : i \in 1 .. n
  OBVIOUS
<1>9. n = Len(inchain) /\ asked = AskedOf(due) /\ S = R \ D /\ M = [r \in S |-> N[r]] /\ K = heap'
      /\ Forest(from, heap, R, N) /\ R = RootsOf(inchain) /\ gone = GoneWith(N, due, asked)
  BY DEF View
<1>10. UNION {Family(heap, asked[i].b) : i \in {j \in due : ~Stays(asked[j])}} = gone
  <2>1. ASSUME NEW i \in due PROVE Family(heap, asked[i].b) = N[asked[i].b]
    <3>1. asked[i].b \in R
      BY <1>1, <1>2, <1>7
    <3> QED
      BY <1>1, <3>1, FamilyIs
  <2> QED
    BY <2>1 DEF GoneWith
<1> HIDE DEF asked, n, gone, R, D, S, M, K
<1>11. /\ Listed(inchain')
       /\ \A e : e \in Entries(inchain') <=> \E j \in 1 .. n : Stays(asked[j]) /\ e = asked[j]
  <2> DEFINE q == inchain'
  <2>1. n \in Nat /\ AskedList(asked, n) /\ q = LeftOf(asked, n)
    BY <1>2, <1>4 DEF AskedList
  <2> HIDE DEF q
  <2>2. StayedIn(asked, n, q)
    BY <2>1, LeftIs
  <2> QED
    BY <2>2 DEF q, StayedIn
<1>12. RootsOf(inchain') = S
  <2>1. \A r : r \in RootsOf(inchain') <=> r = Genesis \/ \E t \in Entries(inchain') : t.b = r
    BY RootsAre
  <2>2. \A r : r \in RootsOf(inchain') <=> r = Genesis \/ \E j \in 1 .. n : Stays(asked[j]) /\ asked[j].b = r
    BY <1>11, <2>1
  <2>3. \A j \in 1 .. n : asked[j].b \in R /\ (asked[j].b \in D <=> ~Stays(asked[j]))
    BY <1>1, <1>2, <1>6, <1>7
  <2>4. Genesis \notin D
    BY <1>2, <1>6, <1>7
  <2>5. \A r : r \in RootsOf(inchain') => r \in S
    BY <1>1, <1>9, <2>2, <2>3, <2>4
  <2>6. \A r : r \in S => r \in RootsOf(inchain')
    BY <1>1, <1>2, <1>9, <2>2, <2>3
  <2> QED
    BY <2>5, <2>6
<1>13. D \in SUBSET R
  BY <1>1, <1>2, <1>6, <1>7
<1>14. K = Freed(heap, gone)
  BY <1>3, <1>9, <1>10 DEF Freed
<1>21. M \in [S -> SUBSET BlockHash] /\ \A r \in S : M[r] = N[r]
  BY <1>1, <1>9
<1>15. Forest(from, K, S, M)
  BY <1>5, <1>9, <1>13, <1>14, <1>21, DropTrees
<1>16. Forest(from, heap', RootsOf(inchain'), M)
  BY <1>9, <1>12, <1>15
<1>17. \A r \in RootsOf(inchain') : M[r] = N[r]
  BY <1>12, <1>21
<1>18. gone \cap N[Genesis] = {}
  <2>1. Genesis \notin D
    BY <1>2, <1>6, <1>7
  <2> QED
    BY <1>1, <1>5, <1>13, <2>1
<1>19. nb' = nb \ gone
  BY <1>3, <1>10
<1>20. Pruned(N, M, due, asked, gone)
  BY <1>3, <1>9, <1>11, <1>14, <1>16, <1>17, <1>18, <1>19 DEF Pruned
<1> QED
  BY <1>9, <1>20

------------------------------------------------------------------------------
(* The pointers agree. *)

\* The invariant holds with the genesis block alone.
LEMMA HeapInitInv ==
  ASSUME HeapInit PROVE HeapInv
<1> DEFINE N == [r \in {Genesis} |-> {Genesis}]
           none == <<>>
<1>1. /\ from \in BlockTrees /\ heap = [h \in BlockHash |-> Fresh] /\ inchain = none
      /\ nb = {Genesis} /\ deepest = Genesis
  BY DEF HeapInit
<1>2. Listed(none) /\ Entries(none) = {} /\ RootsOf(none) = {Genesis}
  BY ListedEmpty
<1>3. Len(none) = 0
  OBVIOUS
<1> HIDE DEF none
<1>4. heap \in Heaps /\ Genesis \in BlockHash
  BY <1>1, FreshFacts, HashFacts DEF Heaps
<1>5. Tree(from, heap, Genesis, {Genesis})
  BY <1>1, <1>4, FreshFacts, SingleSearch, SingleFamily DEF Tree
<1>6. Forest(from, heap, {Genesis}, N)
  BY <1>1, <1>4, <1>5 DEF Forest
<1>7. View(N)
  BY <1>1, <1>2, <1>6 DEF View
<1>8. HeapTypeOK
  <2>1. from \in [Hashes -> BlockHash]
    BY <1>1 DEF BlockTrees
  <2> QED
    BY <1>1, <1>3, <1>4, <2>1 DEF HeapTypeOK, Heaps
<1> QED
  BY <1>1, <1>2, <1>7, <1>8 DEF HeapInv

\* The invariant after a step, from the trees after it.
LEMMA HeapNextInv ==
  ASSUME HeapInv, NEW M, Forest(from, heap', RootsOf(inchain'), M), Listed(inchain'), from' = from,
         nb' \subseteq BlockHash, deepest' \in BlockHash
  PROVE  HeapInv'
<1>1. View(M)'
  BY DEF View
<1>2. \A i \in 1 .. Len(inchain') :
         inchain'[i] \in [b : BlockHash, no_asks : 0 .. NO_ASKS_BEFORE_REMOVING]
  <2>1. inchain' \in Seq(Entry)
    BY DEF Listed
  <2>2. \A i \in 1 .. Len(inchain') : inchain'[i] \in Entry
    BY <2>1
  <2> QED
    BY <2>2 DEF Entry
<1>3. from \in [Hashes -> BlockHash] /\ from \in BlockTrees
  BY DEF HeapInv, HeapTypeOK
<1>4. heap' \in [BlockHash -> Block]
  BY DEF Forest, Heaps
<1>5. HeapTypeOK'
  BY <1>2, <1>3, <1>4 DEF HeapTypeOK
<1> QED
  BY <1>1, <1>3, <1>5 DEF HeapInv

\* add_block_to_incomplete keeps the invariant.
LEMMA HookedInv ==
  ASSUME HeapInv, NEW N, NEW h \in Hashes, nb' = nb \cup {h}, from' = from, deepest' = deepest,
         HookedNew(N, h) \/ HookedGrow(N, h) \/ HookedRaise(N, h) \/ HookedJoin(N, h)
  PROVE  HeapInv'
<1>1. PICK M, C, old, new, B : Hooked(N, M, h, C, old, new, B)
  BY Zenon DEF HookedNew, HookedGrow, HookedRaise, HookedJoin
<1>2. Forest(from, heap', RootsOf(inchain'), M) /\ Listed(inchain')
  BY <1>1 DEF Hooked, Becomes
<1>3. nb' \subseteq BlockHash /\ deepest' \in BlockHash
  BY HashFacts DEF HeapInv, HeapTypeOK
<1> QED
  BY <1>2, <1>3, HeapNextInv

\* The invariant is inductive.
LEMMA HeapStepInv == HeapInv /\ [HeapNext]_heapVars => HeapInv'
<1> SUFFICES ASSUME HeapInv, [HeapNext]_heapVars PROVE HeapInv'
  OBVIOUS
<1>1. PICK N : View(N)
  BY DEF HeapInv
<1>2. nb \subseteq BlockHash /\ deepest \in BlockHash
  BY DEF HeapInv, HeapTypeOK
<1>3. ASSUME NEW h \in Hashes, AddToMain(h) PROVE HeapInv'
  <2>1. PICK M, C : Grafted(N, M, C, h)
    BY <1>1, <1>3, GraftedIs
  <2>2. /\ Forest(from, heap', RootsOf(inchain'), M) /\ Listed(inchain')
        /\ nb' = nb \cup {h} /\ from' = from /\ C \subseteq BlockHash
        /\ \E d \in C : deepest' = d \/ deepest' = deepest
    BY <2>1 DEF Grafted, Becomes
  <2>3. nb' \subseteq BlockHash /\ deepest' \in BlockHash
    BY <1>2, <2>2, HashFacts
  <2> QED
    BY <2>2, <2>3, HeapNextInv
<1>4. ASSUME NEW h \in Hashes, AddToIncomplete(h) PROVE HeapInv'
  <2>1. /\ nb' = nb \cup {h} /\ from' = from /\ deepest' = deepest
        /\ HookedNew(N, h) \/ HookedGrow(N, h) \/ HookedRaise(N, h) \/ HookedJoin(N, h)
    BY <1>1, <1>4, HookedIs
  <2> QED
    BY <2>1, HookedInv
<1>5. ASSUME NEW due \in SUBSET (1 .. Len(inchain)), AskForIncomplete(due) PROVE HeapInv'
  <2>1. PICK M : Pruned(N, M, due, AskedOf(due), GoneWith(N, due, AskedOf(due)))
    BY <1>1, <1>5, PrunedIs
  <2>2. /\ Forest(from, heap', RootsOf(inchain'), M) /\ Listed(inchain') /\ from' = from
        /\ nb' \subseteq BlockHash /\ deepest' \in BlockHash
    BY <1>2, <2>1 DEF Pruned
  <2> QED
    BY <2>2, HeapNextInv
<1>6. CASE UNCHANGED heapVars
  <2>1. from' = from /\ heap' = heap /\ inchain' = inchain /\ nb' = nb /\ deepest' = deepest
    BY <1>6 DEF heapVars
  <2> QED
    BY <2>1 DEF HeapInv, HeapTypeOK, View
<1> QED
  BY <1>3, <1>4, <1>5, <1>6 DEF HeapNext

\* Under the invariant the search finds the family, and the child lists are exact.
LEMMA HeapInvPointers == HeapInv => PointersAgree
<1> SUFFICES ASSUME HeapInv PROVE PointersAgree
  OBVIOUS
<1>1. PICK N : View(N)
  BY DEF HeapInv
<1>2. /\ heap \in Heaps /\ Roots = RootsOf(inchain) /\ from \in BlockTrees
      /\ \A r \in Roots : /\ SearchTree(heap, r, N[r]) /\ FamilyTree(from, heap, r, N[r])
                          /\ heap[r].parent = NULL /\ N[r] \subseteq BlockHash
  <2>1. Roots = RootsOf(inchain) /\ from \in BlockTrees
    BY DEF Roots, RootsOf, HeapInv
  <2>2. /\ heap \in Heaps /\ N \in [RootsOf(inchain) -> SUBSET BlockHash]
        /\ \A r \in RootsOf(inchain) : /\ SearchTree(heap, r, N[r]) /\ FamilyTree(from, heap, r, N[r])
                                       /\ heap[r].parent = NULL
    BY <1>1, ViewFacts
  <2> QED
    BY <2>1, <2>2
<1>3. \A r \in Roots : Family(heap, r) = N[r]
  BY <1>2, FamilyIs
<1>4. SearchFindsFamily
  <2>1. ASSUME NEW r \in Roots, NEW h \in BlockHash PROVE Find(heap, r, h) = h <=> h \in N[r]
    <3>1. Find(heap, r, h) = IF h \in N[r] THEN h ELSE NULL
      BY <1>2, FindIs
    <3> QED
      BY <3>1, HashFacts
  <2>2. ASSUME NEW r \in Roots PROVE {h \in BlockHash : Find(heap, r, h) = h} = Family(heap, r)
    BY <1>2, <1>3, <2>1
  <2> QED
    BY <2>2 DEF SearchFindsFamily
<1>5. ChildListsExact
  <2>1. ASSUME NEW r \in Roots, NEW p \in Family(heap, r)
        PROVE  /\ ToSet(Children(heap, p)) = {h \in Family(heap, r) : heap[h].parent = p}
               /\ IsInjective(Children(heap, p))
    <3>1. p \in N[r] /\ p \in BlockHash
      BY <1>2, <1>3, <2>1
    <3>2. PICK q : ChildList(heap, p, q, Kids(heap, r, N[r], p))
      BY <1>2, <3>1 DEF FamilyTree
    <3>3. Children(heap, p) = q
      BY <1>2, <3>1, <3>2, ChildrenIs
    <3>4. Lists(q, Kids(heap, r, N[r], p))
      BY <3>2 DEF ChildList
    <3>5. ToSet(q) = Kids(heap, r, N[r], p)
      BY <3>4, ListsSet
    <3>6. IsInjective(q)
      BY <3>4 DEF Lists, IsInjective
    <3>7. Kids(heap, r, N[r], p) = {h \in N[r] : heap[h].parent = p}
      BY <1>2, <3>1, HashFacts DEF Kids
    <3> QED
      BY <1>3, <3>3, <3>5, <3>6, <3>7
  <2> QED
    BY <2>1 DEF ChildListsExact
<1> QED
  BY <1>4, <1>5 DEF PointersAgree, HeapInv

\* After any sequence of received headers and requests, for any blocks: in every
\* tree a search finds exactly what hangs below the root, and the child lists hold
\* every block below its parent once (insert_subtree_by_hash,
\* add_block_by_parent_hash, add_received_block).
THEOREM PointerSafety == HeapSpec => []PointersAgree
<1>1. HeapInit => HeapInv
  BY HeapInitInv
<1> QED
  BY <1>1, HeapStepInv, HeapInvPointers, PTL DEF HeapSpec

------------------------------------------------------------------------------
(* Every step is one of BlockTree. *)

\* The header that the refinement gives to a block.
HeaderOf(f, h) ==
  [chain_id |-> 0, parent |-> IF h = Genesis THEN NULL ELSE f[h], trailing |-> NULL,
   trailing_id |-> 0, depth |-> DepthOf(f, h), rank |-> 0, next_rank |-> 0]
OneNode(x) == [n \in {1} |-> x]
ParentsIn(H) == [h \in BlockHash |-> H[h].parent]

\* All headers.
HeadersOf(f) == [h \in BlockHash |-> HeaderOf(f, h)]

\* The state of the one node that is modelled, and a change of it.
LEMMA OneNodeIs ==
  /\ \A x : OneNode(x)[1] = x
  /\ \A x, y : [OneNode(x) EXCEPT ![1] = y] = OneNode(y)
BY DEF OneNode

\* The headers of the refinement, in words of its definitions.
LEMMA HeadersAre ==
  /\ \A x : Depth(x) = DepthOf(from, x) /\ Depth(x)' = DepthOf(from', x)
  /\ [h \in BlockHash |->
        [chain_id |-> 0, parent |-> IF h = Genesis THEN NULL ELSE from[h],
         trailing |-> NULL, trailing_id |-> 0, depth |-> Depth(h),
         rank |-> 0, next_rank |-> 0]] = HeadersOf(from)
  /\ [h \in BlockHash |->
        [chain_id |-> 0, parent |-> IF h = Genesis THEN NULL ELSE from[h],
         trailing |-> NULL, trailing_id |-> 0, depth |-> Depth(h),
         rank |-> 0, next_rank |-> 0]]' = HeadersOf(from')
<1>1. \A x : Depth(x) = DepthOf(from, x)
  BY Zenon DEF Depth, DepthOf
<1>2. \A x : Depth(x)' = DepthOf(from', x)
  BY Zenon DEF Depth, DepthOf
<1> QED
  BY <1>1, <1>2 DEF HeadersOf, HeaderOf

\* The deepest block of the one chain, and a function changed at one place.
TipIs(x) == [c \in {0} |-> x]
At(a, k, x) == [a EXCEPT ![1][k] = x]

\* One parent pointer was changed.
LEMMA ParentChanged ==
  ASSUME NEW H, NEW K, NEW h \in BlockHash, NEW p, NEW a, NEW z,
         a = OneNode(ParentsIn(H)), z = OneNode(ParentsIn(K)),
         \A y \in BlockHash : K[y].parent = IF y = h THEN p ELSE H[y].parent
  PROVE  z = At(a, h, p)
BY DEF OneNode, ParentsIn, At

\* The deepest block was changed.
LEMMA TipChanged ==
  ASSUME NEW x, NEW y, NEW a, NEW z, a = OneNode(TipIs(x)), z = OneNode(TipIs(y))
  PROVE  z = At(a, 0, y) /\ a[1][0] = x
BY DEF OneNode, TipIs, At

\* The chain and the parent in the header of a block.
LEMMA HeaderIs ==
  ASSUME NEW f, NEW x \in BlockHash, x # Genesis
  PROVE  HeadersOf(f)[x].chain_id = 0 /\ HeadersOf(f)[x].parent = f[x]
BY DEF HeadersOf, HeaderOf

\* The depth in the header of a block.
LEMMA HeaderDepth ==
  ASSUME NEW f, NEW x \in BlockHash
  PROVE  HeadersOf(f)[x].depth = DepthOf(f, x)
BY DEF HeadersOf, HeaderOf

\* AddToMain of BlockTree, on the sets that the pointers stand for.
LEMMA AbstractMain ==
  ASSUME NEW h \in Hashes, from' = from, nb' = nb \cup {h},
         from[h] \in Family(heap, Genesis), h \notin Family(heap, Genesis),
         NEW C, C = {h} \cup UNION {t.nodes : t \in {u \in Trees : u.b = h}}, C \subseteq BlockHash,
         Family(heap', Genesis) = Family(heap, Genesis) \cup C,
         Trees' = Trees \ {u \in Trees : u.b = h},
         \A y \in BlockHash : heap'[y].parent = IF y = h THEN from[h] ELSE heap[y].parent,
         NEW d \in C, \A z \in C : DepthOf(from, z) <= DepthOf(from, d), deepest \in BlockHash,
         deepest' = IF DepthOf(from, d) > DepthOf(from, deepest) THEN d ELSE deepest
  PROVE  Abstract!AddToMain(1, h)
<1> DEFINE hdr == [x \in BlockHash |->
                    [chain_id |-> 0, parent |-> IF x = Genesis THEN NULL ELSE from[x],
                     trailing |-> NULL, trailing_id |-> 0, depth |-> Depth(x),
                     rank |-> 0, next_rank |-> 0]]
           chains   == [n \in {1} |-> Family(heap, Genesis)]
           inchains == [n \in {1} |-> Trees]
           parent   == [n \in {1} |-> [x \in BlockHash |-> heap[x].parent]]
           known    == [n \in {1} |-> nb]
           tips     == [n \in {1} |-> [c \in {0} |-> deepest]]
           bi       == Abstract!RootedAt(1, h)
           moved    == {h} \cup UNION {t.nodes : t \in bi}
<1>0. /\ chains = OneNode(Family(heap, Genesis)) /\ chains' = OneNode(Family(heap', Genesis))
      /\ inchains = OneNode(Trees) /\ inchains' = OneNode(Trees')
      /\ parent = OneNode(ParentsIn(heap)) /\ parent' = OneNode(ParentsIn(heap'))
      /\ known = OneNode(nb) /\ known' = OneNode(nb')
      /\ tips = OneNode(TipIs(deepest)) /\ tips' = OneNode(TipIs(deepest'))
  BY Zenon DEF OneNode, ParentsIn, TipIs
<1>1. hdr = HeadersOf(from) /\ hdr' = HeadersOf(from')
  BY HeadersAre
<1>2. bi = {u \in inchains[1] : u.b = h}
  BY Zenon DEF Abstract!RootedAt
<1>3. Abstract!Arrives(1, h) <=> h \in DOMAIN hdr \ Abstract!Chain /\ h \notin chains[1]
  BY Zenon DEF Abstract!Arrives
<1>4. Abstract!Chain = {0}
  BY DEF Abstract!Chain
<1>5. \A x : Abstract!IsMaxDepth(x, moved) <=> x \in moved /\ \A z \in moved : hdr[z].depth <= hdr[x].depth
  BY Zenon DEF Abstract!IsMaxDepth
<1>6. \A x, y : Abstract!Deeper(x, y) <=> hdr[x].depth > hdr[y].depth
  BY Zenon DEF Abstract!Deeper
<1>7. h \in BlockHash /\ h # Genesis /\ h # 0
  BY HashFacts DEF Genesis
<1>8. DOMAIN hdr = BlockHash
  OBVIOUS
<1> HIDE DEF bi, moved
<1>9. Trees' = Trees \ bi /\ bi = {u \in Trees : u.b = h}
  BY <1>0, <1>2, OneNodeIs
<1>10. moved = C
  BY <1>9 DEF moved
<1> DEFINE arrives == Abstract!Arrives(1, h)
<1>11. /\ hdr[h].chain_id = 0 /\ hdr[h].parent = from[h] /\ hdr' = hdr
       /\ \A x \in BlockHash : hdr[x].depth = DepthOf(from, x)
  <2> HIDE DEF hdr
  <2> QED
    BY <1>1, <1>7, HeaderIs, HeaderDepth
<1> HIDE DEF hdr, chains, inchains, parent, known, tips, arrives
<1>12. arrives /\ hdr[h].parent \in chains[1]
  BY <1>0, <1>3, <1>4, <1>7, <1>8, <1>11, OneNodeIs DEF arrives
<1>13. chains' = [chains EXCEPT ![1] = chains[1] \cup moved]
  BY <1>0, <1>10, OneNodeIs
<1>14. inchains' = [inchains EXCEPT ![1] = inchains[1] \ bi]
  BY <1>0, <1>9, OneNodeIs
<1>15. parent' = [parent EXCEPT ![1][h] = hdr[h].parent]
  <2> DEFINE p == hdr[h].parent
  <2>1. p = from[h]
    BY <1>11
  <2> HIDE DEF p
  <2>2. \A y \in BlockHash : heap'[y].parent = IF y = h THEN p ELSE heap[y].parent
    BY <2>1
  <2>3. parent' = At(parent, h, p)
    BY <1>0, <1>7, <2>2, ParentChanged
  <2> QED
    BY <2>3, Zenon DEF p, At
<1>16. known' = [known EXCEPT ![1] = known[1] \cup {h}]
  BY <1>0, OneNodeIs
<1>17. tips[1][0] = deepest
  BY <1>0, TipChanged
<1>18. tips' = [tips EXCEPT ![1][0] = IF Abstract!Deeper(d, tips[1][0]) THEN d ELSE tips[1][0]]
  <2>1. Abstract!Deeper(d, deepest) <=> DepthOf(from, d) > DepthOf(from, deepest)
    BY <1>6, <1>11
  <2>2. deepest' = IF Abstract!Deeper(d, tips[1][0]) THEN d ELSE tips[1][0]
    BY <1>17, <2>1
  <2> DEFINE y == IF Abstract!Deeper(d, tips[1][0]) THEN d ELSE tips[1][0]
  <2>3. deepest' = y
    BY <2>2
  <2> HIDE DEF y
  <2>4. tips' = At(tips, 0, y)
    BY <1>0, <2>3, TipChanged
  <2> QED
    BY <2>4, Zenon DEF y, At
<1>19. tips' = [tips EXCEPT ![1][hdr[h].chain_id] = IF Abstract!Deeper(d, tips[1][hdr[h].chain_id])
                                                   THEN d ELSE tips[1][hdr[h].chain_id]]
  BY <1>11, <1>18
<1>20. d \in moved /\ Abstract!IsMaxDepth(d, moved)
  BY <1>5, <1>10, <1>11
<1>21. \E x \in moved :
         /\ Abstract!IsMaxDepth(x, moved)
         /\ tips' = [tips EXCEPT ![1][hdr[h].chain_id] = IF Abstract!Deeper(x, tips[1][hdr[h].chain_id])
                                                         THEN x ELSE tips[1][hdr[h].chain_id]]
  BY <1>19, <1>20, Zenon
<1>22. hdr' = hdr
  BY <1>11
<1> QED
  BY <1>12, <1>13, <1>14, <1>15, <1>16, <1>21, <1>22, Zenon
     DEF Abstract!AddToMain, hdr, chains, inchains, parent, known, tips, arrives, bi, moved

\* What a call of add_block_to_incomplete changes and needs, in BlockTree's terms.
HookFacts(h) ==
  /\ h \in Hashes /\ from' = from /\ nb' = nb \cup {h} /\ deepest' = deepest
  /\ from[h] \notin Family(heap, Genesis) /\ h \notin Family(heap, Genesis)
  /\ Family(heap', Genesis) = Family(heap, Genesis)
  /\ ~ \E t \in Trees : h \in t.nodes /\ heap[h].parent = from[h]
  /\ \A y \in BlockHash : heap'[y].parent = IF y = h THEN from[h] ELSE heap[y].parent

\* What the four cases of add_block_to_incomplete have in common in BlockTree.
LEMMA AbstractHook ==
  ASSUME NEW h, HookFacts(h), NEW old, NEW new, Trees' = (Trees \ old) \cup {new}
  PROVE  Abstract!AddToIncomplete(1, h, old, new)
<1> DEFINE hdr == [x \in BlockHash |->
                    [chain_id |-> 0, parent |-> IF x = Genesis THEN NULL ELSE from[x],
                     trailing |-> NULL, trailing_id |-> 0, depth |-> Depth(x),
                     rank |-> 0, next_rank |-> 0]]
           chains   == [n \in {1} |-> Family(heap, Genesis)]
           inchains == [n \in {1} |-> Trees]
           parent   == [n \in {1} |-> [x \in BlockHash |-> heap[x].parent]]
           known    == [n \in {1} |-> nb]
           tips     == [n \in {1} |-> [c \in {0} |-> deepest]]
<1>0. /\ chains = OneNode(Family(heap, Genesis)) /\ chains' = OneNode(Family(heap', Genesis))
      /\ inchains = OneNode(Trees) /\ inchains' = OneNode(Trees')
      /\ parent = OneNode(ParentsIn(heap))
      /\ known = OneNode(nb) /\ known' = OneNode(nb')
      /\ tips = OneNode(TipIs(deepest)) /\ tips' = OneNode(TipIs(deepest'))
  BY Zenon DEF OneNode, ParentsIn, TipIs
<1>1. hdr = HeadersOf(from) /\ hdr' = HeadersOf(from')
  BY HeadersAre
<1>2. Abstract!Arrives(1, h) <=> h \in DOMAIN hdr \ Abstract!Chain /\ h \notin chains[1]
  BY Zenon DEF Abstract!Arrives
<1>3. Abstract!IsInIncomplete(1, h) <=> \E t \in inchains[1] : h \in t.nodes /\ parent[1][h] = hdr[h].parent
  BY Zenon DEF Abstract!IsInIncomplete
<1>4. Abstract!Chain = {0}
  BY DEF Abstract!Chain
<1>5. h \in BlockHash /\ h # Genesis /\ h # 0
  BY HashFacts DEF Genesis, HookFacts
<1>6. DOMAIN hdr = BlockHash
  OBVIOUS
<1> DEFINE arrives == Abstract!Arrives(1, h)
           linked  == Abstract!IsInIncomplete(1, h)
<1>7. hdr[h].parent = from[h] /\ hdr' = hdr
  <2>1. from' = from
    BY DEF HookFacts
  <2> HIDE DEF hdr
  <2> QED
    BY <1>1, <1>5, <2>1, HeaderIs
<1>8. parent[1][h] = heap[h].parent
  BY <1>5
<1> HIDE DEF hdr, chains, inchains, parent, known, tips, arrives, linked
<1>9. arrives /\ hdr[h].parent \notin chains[1]
  BY <1>0, <1>2, <1>4, <1>5, <1>6, <1>7, OneNodeIs DEF arrives, HookFacts
<1>10. ~linked
  BY <1>0, <1>3, <1>7, <1>8, OneNodeIs DEF linked, HookFacts
<1>11. inchains' = [inchains EXCEPT ![1] = (inchains[1] \ old) \cup {new}]
  BY <1>0, OneNodeIs
<1>12. known' = [known EXCEPT ![1] = known[1] \cup {h}]
  BY <1>0, OneNodeIs DEF HookFacts
<1>13. hdr' = hdr /\ chains' = chains /\ tips' = tips
  BY <1>0, <1>7 DEF HookFacts
<1> QED
  BY <1>9, <1>10, <1>11, <1>12, <1>13, Zenon
     DEF Abstract!AddToIncomplete, hdr, chains, inchains, parent, known, tips, arrives, linked

\* The parent pointer that is set, and the trees with a hash, as BlockTree has them.
LEMMA AbstractLink ==
  ASSUME NEW h, HookFacts(h)
  PROVE  /\ [n \in {1} |-> [x \in BlockHash |-> heap[x].parent]]'
             = At([n \in {1} |-> [x \in BlockHash |-> heap[x].parent]], h, from[h])
         /\ [x \in BlockHash |->
                    [chain_id |-> 0, parent |-> IF x = Genesis THEN NULL ELSE from[x],
                     trailing |-> NULL, trailing_id |-> 0, depth |-> Depth(x),
                     rank |-> 0, next_rank |-> 0]][h].parent = from[h]
         /\ \A y : Abstract!TreesWith(1, y) = {t \in Trees : y \in t.nodes}
<1> DEFINE hdr == [x \in BlockHash |->
                    [chain_id |-> 0, parent |-> IF x = Genesis THEN NULL ELSE from[x],
                     trailing |-> NULL, trailing_id |-> 0, depth |-> Depth(x),
                     rank |-> 0, next_rank |-> 0]]
           parent   == [n \in {1} |-> [x \in BlockHash |-> heap[x].parent]]
<1>1. parent = OneNode(ParentsIn(heap)) /\ parent' = OneNode(ParentsIn(heap'))
  BY Zenon DEF OneNode, ParentsIn
<1>2. hdr = HeadersOf(from)
  BY HeadersAre
<1>3. h \in BlockHash /\ h # Genesis
  BY HashFacts DEF HookFacts
<1>4. hdr[h].parent = from[h]
  <2> HIDE DEF hdr
  <2> QED
    BY <1>2, <1>3, HeaderIs
<1>5. parent' = At(parent, h, from[h])
  <2>1. \A y \in BlockHash : heap'[y].parent = IF y = h THEN from[h] ELSE heap[y].parent
    BY DEF HookFacts
  <2> HIDE DEF parent
  <2> QED
    BY <1>1, <1>3, <2>1, ParentChanged
<1>6. \A y : Abstract!TreesWith(1, y) = {t \in Trees : y \in t.nodes}
  <2> TAKE y
  <2>1. Abstract!TreesWith(1, y) = {t \in OneNode(Trees)[1] : y \in t.nodes}
    BY Zenon DEF Abstract!TreesWith, OneNode
  <2> QED
    BY <2>1, OneNodeIs
<1> QED
  BY <1>4, <1>5, <1>6

\* NewTree of BlockTree.
LEMMA AbstractNew ==
  ASSUME NEW h, HookFacts(h), NEW new,
         new = [b |-> from[h], nodes |-> {from[h], h}, no_asks |-> 0],
         \A t \in Trees : h \notin t.nodes /\ from[h] \notin t.nodes,
         Trees' = Trees \cup {new}
  PROVE  Abstract!NewTree(1, h)
<1> DEFINE hdr == [x \in BlockHash |->
                    [chain_id |-> 0, parent |-> IF x = Genesis THEN NULL ELSE from[x],
                     trailing |-> NULL, trailing_id |-> 0, depth |-> Depth(x),
                     rank |-> 0, next_rank |-> 0]]
           parent == [n \in {1} |-> [x \in BlockHash |-> heap[x].parent]]
           p      == hdr[h].parent
<1>1. /\ parent' = At(parent, h, p) /\ p = from[h]
      /\ \A y : Abstract!TreesWith(1, y) = {t \in Trees : y \in t.nodes}
  BY AbstractLink
<1> HIDE DEF p, parent
<1>2. Abstract!TreesWith(1, h) = {} /\ Abstract!TreesWith(1, p) = {}
  BY <1>1
<1>3. Abstract!AddToIncomplete(1, h, {}, new)
  <2>1. Trees' = (Trees \ {}) \cup {new}
    OBVIOUS
  <2> QED
    BY <2>1, AbstractHook
<1>4. Abstract!AddToIncomplete(1, h, {}, [b |-> p, nodes |-> {p, h}, no_asks |-> 0])
  BY <1>1, <1>3
<1>5. parent' = [parent EXCEPT ![1][h] = p]
  BY <1>1, Zenon DEF At
<1> QED
  BY <1>2, <1>4, <1>5, Zenon DEF Abstract!NewTree, p, parent

\* GrowTree of BlockTree.
LEMMA AbstractGrow ==
  ASSUME NEW h, HookFacts(h), NEW e \in Trees, NEW new, new = [e EXCEPT !.nodes = e.nodes \cup {h}],
         from[h] \in e.nodes, \A t \in Trees : h \notin t.nodes,
         Trees' = (Trees \ {e}) \cup {new}
  PROVE  Abstract!GrowTree(1, h)
<1> DEFINE hdr == [x \in BlockHash |->
                    [chain_id |-> 0, parent |-> IF x = Genesis THEN NULL ELSE from[x],
                     trailing |-> NULL, trailing_id |-> 0, depth |-> Depth(x),
                     rank |-> 0, next_rank |-> 0]]
           parent == [n \in {1} |-> [x \in BlockHash |-> heap[x].parent]]
           p      == hdr[h].parent
<1>1. /\ parent' = At(parent, h, p) /\ p = from[h]
      /\ \A y : Abstract!TreesWith(1, y) = {t \in Trees : y \in t.nodes}
  BY AbstractLink
<1> HIDE DEF p, parent
<1>2. Abstract!TreesWith(1, h) = {} /\ e \in Abstract!TreesWith(1, p)
  BY <1>1
<1>3. Abstract!AddToIncomplete(1, h, {e}, new)
  BY AbstractHook
<1>4. \E ph \in Abstract!TreesWith(1, p) :
         Abstract!AddToIncomplete(1, h, {ph}, [ph EXCEPT !.nodes = ph.nodes \cup {h}])
  BY <1>2, <1>3, Zenon
<1>5. parent' = [parent EXCEPT ![1][h] = p]
  BY <1>1, Zenon DEF At
<1> QED
  BY <1>2, <1>4, <1>5, Zenon DEF Abstract!GrowTree, p, parent

\* RaiseRoot of BlockTree.
LEMMA AbstractRaise ==
  ASSUME NEW h, HookFacts(h), NEW e \in Trees, e.b = h, h \in e.nodes, NEW new,
         new = [b |-> from[h], nodes |-> e.nodes \cup {from[h]}, no_asks |-> 0],
         \A t \in Trees : from[h] \notin t.nodes,
         Trees' = (Trees \ {e}) \cup {new}
  PROVE  Abstract!RaiseRoot(1, h)
<1> DEFINE hdr == [x \in BlockHash |->
                    [chain_id |-> 0, parent |-> IF x = Genesis THEN NULL ELSE from[x],
                     trailing |-> NULL, trailing_id |-> 0, depth |-> Depth(x),
                     rank |-> 0, next_rank |-> 0]]
           parent == [n \in {1} |-> [x \in BlockHash |-> heap[x].parent]]
           p      == hdr[h].parent
<1>1. /\ parent' = At(parent, h, p) /\ p = from[h]
      /\ \A y : Abstract!TreesWith(1, y) = {t \in Trees : y \in t.nodes}
  BY AbstractLink
<1> HIDE DEF p, parent
<1>2. Abstract!TreesWith(1, p) = {} /\ e \in Abstract!TreesWith(1, h)
  BY <1>1
<1>3. Abstract!AddToIncomplete(1, h, {e}, new)
  BY AbstractHook
<1>4. Abstract!AddToIncomplete(1, h, {e}, [b |-> p, nodes |-> e.nodes \cup {p}, no_asks |-> 0])
  BY <1>1, <1>3
<1>5. parent' = [parent EXCEPT ![1][e.b] = p]
  BY <1>1, Zenon DEF At
<1>6. \E ch \in Abstract!TreesWith(1, h) :
         /\ Abstract!AddToIncomplete(1, h, {ch}, [b |-> p, nodes |-> ch.nodes \cup {p}, no_asks |-> 0])
         /\ parent' = [parent EXCEPT ![1][ch.b] = p]
  BY <1>2, <1>4, <1>5, Zenon
<1> QED
  BY <1>2, <1>6, Zenon DEF Abstract!RaiseRoot, p, parent

\* JoinTrees of BlockTree.
LEMMA AbstractJoin ==
  ASSUME NEW h, HookFacts(h), NEW e \in Trees, e.b = h, h \in e.nodes, NEW d \in Trees, from[h] \in d.nodes,
         NEW new, new = [d EXCEPT !.nodes = d.nodes \cup e.nodes],
         Trees' = (Trees \ {e, d}) \cup {new}
  PROVE  Abstract!JoinTrees(1, h)
<1> DEFINE hdr == [x \in BlockHash |->
                    [chain_id |-> 0, parent |-> IF x = Genesis THEN NULL ELSE from[x],
                     trailing |-> NULL, trailing_id |-> 0, depth |-> Depth(x),
                     rank |-> 0, next_rank |-> 0]]
           parent == [n \in {1} |-> [x \in BlockHash |-> heap[x].parent]]
           p      == hdr[h].parent
<1>1. /\ parent' = At(parent, h, p) /\ p = from[h]
      /\ \A y : Abstract!TreesWith(1, y) = {t \in Trees : y \in t.nodes}
  BY AbstractLink
<1> HIDE DEF p, parent
<1>2. d \in Abstract!TreesWith(1, p) /\ e \in Abstract!TreesWith(1, h)
  BY <1>1
<1>3. Abstract!AddToIncomplete(1, h, {e, d}, new)
  BY AbstractHook
<1>4. Abstract!AddToIncomplete(1, h, {e, d}, Abstract!Joined(d, e))
  BY <1>3, Zenon DEF Abstract!Joined
<1>5. parent' = [parent EXCEPT ![1][e.b] = p]
  BY <1>1, Zenon DEF At
<1>6. \E ch \in Abstract!TreesWith(1, h), ph \in Abstract!TreesWith(1, p) :
         /\ Abstract!AddToIncomplete(1, h, {ch, ph}, Abstract!Joined(ph, ch))
         /\ parent' = [parent EXCEPT ![1][ch.b] = p]
  BY <1>2, <1>4, <1>5, Zenon
<1> QED
  BY <1>6, Zenon DEF Abstract!JoinTrees, p, parent

\* What get_incomplete_chain_hashes computes.
PrunedParents(H, gone) == [x \in BlockHash |-> IF x \in gone THEN NULL ELSE H[x].parent]
Replaced(a, x) == [a EXCEPT ![1] = x]
AskedOnce(t) == [t EXCEPT !.no_asks = t.no_asks + 1]

\* The value of the node was replaced.
LEMMA ReplacedOne ==
  ASSUME NEW x, NEW y, NEW a, NEW z, a = OneNode(x), z = OneNode(y)
  PROVE  z = Replaced(a, y)
BY OneNodeIs DEF Replaced

\* The trees asked for, those that stay, and the nodes of the others.
AllAsked(D) == {AskedOnce(t) : t \in D}
StillDue(S)  == {t \in S : ~(t.no_asks > NO_ASKS_BEFORE_REMOVING)}
NodesOf(S)  == UNION {t.nodes : t \in S}

\* AskForIncomplete of BlockTree.
LEMMA AbstractAsk ==
  ASSUME NEW D \in SUBSET Trees, D # {}, from' = from, deepest' = deepest,
         Family(heap', Genesis) = Family(heap, Genesis),
         NEW asked, asked = AllAsked(D), NEW kept, kept = StillDue(asked),
         NEW gone, gone = NodesOf(asked \ kept),
         Trees' = (Trees \ D) \cup kept, nb' = nb \ gone,
         \A y \in BlockHash : heap'[y].parent = IF y \in gone THEN NULL ELSE heap[y].parent
  PROVE  Abstract!AskForIncomplete(1, D)
<1> DEFINE hdr == [x \in BlockHash |->
                    [chain_id |-> 0, parent |-> IF x = Genesis THEN NULL ELSE from[x],
                     trailing |-> NULL, trailing_id |-> 0, depth |-> Depth(x),
                     rank |-> 0, next_rank |-> 0]]
           chains   == [n \in {1} |-> Family(heap, Genesis)]
           inchains == [n \in {1} |-> Trees]
           parent   == [n \in {1} |-> [x \in BlockHash |-> heap[x].parent]]
           known    == [n \in {1} |-> nb]
           tips     == [n \in {1} |-> [c \in {0} |-> deepest]]
           absAsked == {[t EXCEPT !.no_asks = t.no_asks + 1] : t \in D}
           absKept  == {t \in absAsked : ~Abstract!Expired(t)}
           absGone  == UNION {t.nodes : t \in absAsked \ absKept}
<1>0. /\ chains = OneNode(Family(heap, Genesis)) /\ chains' = OneNode(Family(heap', Genesis))
      /\ inchains = OneNode(Trees) /\ inchains' = OneNode(Trees')
      /\ parent = OneNode(ParentsIn(heap)) /\ parent' = OneNode(ParentsIn(heap'))
      /\ known = OneNode(nb) /\ known' = OneNode(nb')
      /\ tips = OneNode(TipIs(deepest)) /\ tips' = OneNode(TipIs(deepest'))
  BY Zenon DEF OneNode, ParentsIn, TipIs
<1>1. hdr = HeadersOf(from) /\ hdr' = HeadersOf(from')
  BY HeadersAre
<1>2. hdr' = hdr
  <2> HIDE DEF hdr
  <2> QED
    BY <1>1
<1>3. \A t : Abstract!Expired(t) <=> t.no_asks > NO_ASKS_BEFORE_REMOVING
  BY Zenon DEF Abstract!Expired
<1>4. absAsked = asked
  BY Zenon DEF AllAsked, AskedOnce
<1> HIDE DEF absAsked
<1>5. absKept = kept
  BY <1>3, <1>4 DEF StillDue
<1>6. absGone = gone
  <2> HIDE DEF absKept
  <2> QED
    BY <1>4, <1>5 DEF NodesOf
<1>7. Abstract!BlockHash = BlockHash
  BY DEF Abstract!BlockHash, Abstract!Chain, BlockHash, Genesis
<1>8. \A x \in BlockHash : parent[1][x] = heap[x].parent
  OBVIOUS
<1> HIDE DEF hdr, chains, inchains, parent, known, tips, absKept, absGone
<1>9. D \subseteq inchains[1] /\ D # {}
  BY <1>0, OneNodeIs
<1>10. inchains' = [inchains EXCEPT ![1] = (inchains[1] \ D) \cup absKept]
  <2> DEFINE q == (inchains[1] \ D) \cup absKept
  <2>1. inchains[1] = Trees
    BY <1>0, OneNodeIs
  <2>2. q = Trees'
    BY <1>5, <2>1
  <2> HIDE DEF q
  <2>3. inchains' = Replaced(inchains, q)
    BY <1>0, <2>2, ReplacedOne
  <2> QED
    BY <2>3, Zenon DEF q, Replaced
<1>11. parent' = [parent EXCEPT ![1] = [x \in Abstract!BlockHash |-> IF x \in absGone THEN NULL ELSE parent[1][x]]]
  <2> DEFINE q == [x \in Abstract!BlockHash |-> IF x \in absGone THEN NULL ELSE parent[1][x]]
  <2>1. q = PrunedParents(heap, gone)
    BY <1>6, <1>7, <1>8 DEF PrunedParents
  <2> HIDE DEF q
  <2>2. parent' = OneNode(q)
    <3> DEFINE K == heap'
    <3>1. \A y \in BlockHash : K[y].parent = IF y \in gone THEN NULL ELSE heap[y].parent
      OBVIOUS
    <3> HIDE DEF K
    <3>2. ParentsIn(K) = PrunedParents(heap, gone)
      BY <3>1 DEF ParentsIn, PrunedParents
    <3> QED
      BY <1>0, <2>1, <3>2 DEF K
  <2>3. parent' = Replaced(parent, q)
    BY <1>0, <2>2, ReplacedOne
  <2> QED
    BY <2>3, Zenon DEF q, Replaced
<1>12. known' = [known EXCEPT ![1] = known[1] \ absGone]
  <2> DEFINE q == known[1] \ absGone
  <2>1. known[1] = nb
    BY <1>0, OneNodeIs
  <2>2. q = nb'
    BY <1>6, <2>1
  <2> HIDE DEF q
  <2>3. known' = Replaced(known, q)
    BY <1>0, <2>2, ReplacedOne
  <2> QED
    BY <2>3, Zenon DEF q, Replaced
<1>13. hdr' = hdr /\ chains' = chains /\ tips' = tips
  BY <1>0, <1>2
<1> QED
  BY <1>9, <1>10, <1>11, <1>12, <1>13, Zenon
     DEF Abstract!AskForIncomplete, hdr, chains, inchains, parent, known, tips, absAsked, absKept, absGone

\* The tree of BlockTree that an entry stands for, and all of them.
TreeOf(N, t) == [b |-> t.b, nodes |-> N[t.b], no_asks |-> t.no_asks]
TreesOf(N, q) == {TreeOf(N, t) : t \in Entries(q)}
TreesIn(H, q) == {[b |-> q[i].b, nodes |-> Family(H, q[i].b), no_asks |-> q[i].no_asks] : i \in 1 .. Len(q)}

\* The trees of BlockTree that a forest stands for.
LEMMA TreesInAre ==
  ASSUME NEW f \in BlockTrees, NEW H, NEW q, NEW N, Forest(f, H, RootsOf(q), N)
  PROVE  TreesIn(H, q) = TreesOf(N, q) /\ Family(H, Genesis) = N[Genesis]
<1>1. \A r \in RootsOf(q) : Family(H, r) = N[r]
  BY FamilyIs DEF Forest, Tree
<1>2. Genesis \in RootsOf(q) /\ \A i \in 1 .. Len(q) : q[i].b \in RootsOf(q)
  BY DEF RootsOf
<1>3. \A i \in 1 .. Len(q) :
         [b |-> q[i].b, nodes |-> Family(H, q[i].b), no_asks |-> q[i].no_asks] = TreeOf(N, q[i])
  BY <1>1, <1>2 DEF TreeOf
<1>4. TreesIn(H, q) = {TreeOf(N, q[i]) : i \in 1 .. Len(q)}
  BY <1>3 DEF TreesIn
<1> QED
  BY <1>1, <1>2, <1>4 DEF TreesOf, Entries

\* The trees before and after a step.
LEMMA TreesAre ==
  ASSUME HeapInv, NEW N, View(N), from' = from, NEW M, Forest(from, heap', RootsOf(inchain'), M)
  PROVE  /\ Trees = TreesOf(N, inchain) /\ Family(heap, Genesis) = N[Genesis]
         /\ Trees' = TreesOf(M, inchain') /\ Family(heap', Genesis) = M[Genesis]
<1>1. Trees = TreesIn(heap, inchain) /\ Trees' = TreesIn(heap', inchain')
  BY Zenon DEF Trees, TreesIn
<1>2. from \in BlockTrees /\ Forest(from, heap, RootsOf(inchain), N)
  BY DEF HeapInv, View
<1> QED
  BY <1>1, <1>2, TreesInAre

\* The parts of a tree of BlockTree.
LEMMA TreeFields ==
  /\ \A N, t : TreeOf(N, t).b = t.b /\ TreeOf(N, t).nodes = N[t.b] /\ TreeOf(N, t).no_asks = t.no_asks
  /\ \A N, q, u : u \in TreesOf(N, q) <=> \E t \in Entries(q) : u = TreeOf(N, t)
  /\ \A N, M, t : N[t.b] = M[t.b] => TreeOf(N, t) = TreeOf(M, t)
BY DEF TreeOf, TreesOf

\* A tree with the nodes X added.
Grown(t, X) == [t EXCEPT !.nodes = t.nodes \cup X]

\* A tree with more nodes.
LEMMA TreeGrown ==
  ASSUME NEW N, NEW M, NEW t, NEW X, M[t.b] = N[t.b] \cup X
  PROVE  TreeOf(M, t) = Grown(TreeOf(N, t), X)
<1>1. Grown(TreeOf(N, t), X) = [b |-> t.b, nodes |-> N[t.b] \cup X, no_asks |-> t.no_asks]
  BY DEF TreeOf, Grown
<1> QED
  BY <1>1 DEF TreeOf

\* The trees after add_block_to_incomplete.
LEMMA HookedTrees ==
  ASSUME HeapInv, NEW N, View(N), from' = from, NEW M, NEW h, NEW C, NEW new, NEW B,
         NEW old \in SUBSET Entries(inchain), Hooked(N, M, h, C, old, new, B)
  PROVE  /\ Trees' = (Trees \ {TreeOf(N, t) : t \in old}) \cup {TreeOf(M, new)}
         /\ Family(heap', Genesis) = Family(heap, Genesis) /\ M[new.b] = B
<1>1. /\ Forest(from, heap', RootsOf(inchain'), M) /\ M[Genesis] = N[Genesis] /\ M[new.b] = B
      /\ Entries(inchain') = (Entries(inchain) \ old) \cup {new}
      /\ \A t \in Entries(inchain) \ old : M[t.b] = N[t.b]
  BY DEF Hooked, Becomes
<1>2. /\ Trees = TreesOf(N, inchain) /\ Family(heap, Genesis) = N[Genesis]
      /\ Trees' = TreesOf(M, inchain') /\ Family(heap', Genesis) = M[Genesis]
  BY <1>1, TreesAre
<1>3. \A t, u \in Entries(inchain) : t # u => t.b # u.b
  BY ViewFacts
<1>4. \A t, u \in Entries(inchain) : t # u => TreeOf(N, t) # TreeOf(N, u)
  BY <1>3, TreeFields
<1>5. \A t \in Entries(inchain) \ old : TreeOf(M, t) = TreeOf(N, t)
  BY <1>1, TreeFields
<1>6. /\ \A u : u \in Trees <=> \E t \in Entries(inchain) : u = TreeOf(N, t)
      /\ \A u : u \in Trees' <=> \E t \in Entries(inchain') : u = TreeOf(M, t)
  BY <1>2, TreeFields
<1>7. \A u : u \in Trees' <=> u = TreeOf(M, new) \/ \E t \in Entries(inchain) \ old : u = TreeOf(N, t)
  BY <1>1, <1>5, <1>6
<1>8. \A u : u \in {TreeOf(N, t) : t \in old} <=> \E t \in old : u = TreeOf(N, t)
  OBVIOUS
<1> DEFINE gone == {TreeOf(N, t) : t \in old}
<1> HIDE DEF gone
<1>9. \A u : u \in Trees' <=> u \in (Trees \ gone) \cup {TreeOf(M, new)}
  BY <1>4, <1>6, <1>7, <1>8 DEF gone
<1>10. Trees' = (Trees \ gone) \cup {TreeOf(M, new)}
  BY <1>9
<1> QED
  BY <1>1, <1>2, <1>10 DEF gone

\* What BlockTree sees of a call of add_block_to_incomplete.
LEMMA HookFactsAre ==
  ASSUME HeapInv, NEW N, View(N), NEW M, NEW h, NEW C, NEW old, NEW new, NEW B,
         Hooked(N, M, h, C, old, new, B),
         OffMain(N, h), nb' = nb \cup {h}, from' = from, deepest' = deepest,
         ~ \E t \in Entries(inchain) : h \in N[t.b] /\ heap[h].parent = from[h]
  PROVE  HookFacts(h)
<1>1. /\ Forest(from, heap', RootsOf(inchain'), M) /\ M[Genesis] = N[Genesis]
      /\ \A y \in BlockHash : heap'[y].parent = IF y = h THEN from[h] ELSE heap[y].parent
  BY DEF Hooked, Becomes
<1>2. /\ Trees = TreesOf(N, inchain) /\ Family(heap, Genesis) = N[Genesis]
      /\ Family(heap', Genesis) = M[Genesis]
  BY <1>1, TreesAre
<1>3. ~ \E u \in Trees : h \in u.nodes /\ heap[h].parent = from[h]
  BY <1>2, TreeFields
<1> QED
  BY <1>1, <1>2, <1>3 DEF HookFacts, OffMain

\* A call of add_block_to_incomplete is the case of BlockTree with its name.
LEMMA HookSteps ==
  ASSUME HeapInv, NEW N, View(N), NEW h, OffMain(N, h), nb' = nb \cup {h}, from' = from, deepest' = deepest,
         ~ \E t \in Entries(inchain) : h \in N[t.b] /\ heap[h].parent = from[h],
         HookedNew(N, h) \/ HookedGrow(N, h) \/ HookedRaise(N, h) \/ HookedJoin(N, h)
  PROVE  Abstract!AddReceivedBlock(1, h)
<1>0. /\ \A u : u \in Trees <=> \E t \in Entries(inchain) : u = TreeOf(N, t)
      /\ \A t : TreeOf(N, t).b = t.b /\ TreeOf(N, t).nodes = N[t.b] /\ TreeOf(N, t).no_asks = t.no_asks
  <2>1. PICK M, C, old, new, B : Hooked(N, M, h, C, old, new, B)
    BY Zenon DEF HookedNew, HookedGrow, HookedRaise, HookedJoin
  <2>2. Forest(from, heap', RootsOf(inchain'), M)
    BY <2>1 DEF Hooked, Becomes
  <2>3. Trees = TreesOf(N, inchain)
    BY <2>2, TreesAre
  <2> QED
    BY <2>3, TreeFields
<1>1. CASE HookedNew(N, h)
  <2> DEFINE new == [b |-> from[h], no_asks |-> 0]
  <2>0. new.b = from[h] /\ new.no_asks = 0
    OBVIOUS
  <2>1. PICK M : Hooked(N, M, h, {h}, {}, new, {from[h], h})
    BY <1>1, Zenon DEF HookedNew
  <2> HIDE DEF new
  <2>2. HookFacts(h)
    BY <2>1, HookFactsAre
  <2>3. Trees' = (Trees \ {TreeOf(N, t) : t \in {}}) \cup {TreeOf(M, new)} /\ M[new.b] = {from[h], h}
    BY <2>1, HookedTrees
  <2>4. Trees' = Trees \cup {TreeOf(M, new)}
    BY <2>3
  <2>5. TreeOf(M, new) = [b |-> from[h], nodes |-> {from[h], h}, no_asks |-> 0]
    BY <2>0, <2>3 DEF TreeOf
  <2>6. \A u \in Trees : h \notin u.nodes /\ from[h] \notin u.nodes
    BY <1>0, <1>1 DEF HookedNew
  <2> DEFINE t == TreeOf(M, new)
  <2>7. t = [b |-> from[h], nodes |-> {from[h], h}, no_asks |-> 0] /\ Trees' = Trees \cup {t}
    BY <2>4, <2>5
  <2> HIDE DEF t
  <2>8. Abstract!NewTree(1, h)
    BY <2>2, <2>6, <2>7, AbstractNew
  <2> QED
    BY <2>8, Zenon DEF Abstract!AddReceivedBlock
<1>2. CASE HookedGrow(N, h)
  <2>1. PICK e \in Entries(inchain) : from[h] \in N[e.b] /\ \E M : Hooked(N, M, h, {h}, {e}, e, N[e.b] \cup {h})
    BY <1>2, Zenon DEF HookedGrow
  <2>2. PICK M : Hooked(N, M, h, {h}, {e}, e, N[e.b] \cup {h})
    BY <2>1
  <2>3. HookFacts(h)
    BY <2>2, HookFactsAre
  <2>4. Trees' = (Trees \ {TreeOf(N, t) : t \in {e}}) \cup {TreeOf(M, e)} /\ M[e.b] = N[e.b] \cup {h}
    <3>1. {e} \in SUBSET Entries(inchain)
      OBVIOUS
    <3> QED
      BY <2>2, <3>1, HookedTrees
  <2> DEFINE u == TreeOf(N, e)
             t == TreeOf(M, e)
  <2>5. Trees' = (Trees \ {u}) \cup {t}
    BY <2>4
  <2>6. t = [u EXCEPT !.nodes = u.nodes \cup {h}]
    <3>1. M[e.b] = N[e.b] \cup {h}
      BY <2>4
    <3>2. TreeOf(M, e) = Grown(TreeOf(N, e), {h})
      BY <3>1, TreeGrown
    <3> QED
      BY <3>2, Zenon DEF Grown
  <2>7. u \in Trees /\ from[h] \in u.nodes /\ \A x \in Trees : h \notin x.nodes
    BY <1>0, <1>2, <2>1 DEF HookedGrow
  <2> HIDE DEF u, t
  <2>8. Abstract!GrowTree(1, h)
    BY <2>3, <2>5, <2>6, <2>7, AbstractGrow
  <2> QED
    BY <2>8, Zenon DEF Abstract!AddReceivedBlock
<1>3. CASE HookedRaise(N, h)
  <2> DEFINE new == [b |-> from[h], no_asks |-> 0]
  <2>0. new.b = from[h] /\ new.no_asks = 0
    OBVIOUS
  <2>1. PICK e \in Entries(inchain) : e.b = h /\ \E M : Hooked(N, M, h, N[h], {e}, new, {from[h]} \cup N[h])
    BY <1>3, Zenon DEF HookedRaise
  <2>2. PICK M : Hooked(N, M, h, N[h], {e}, new, {from[h]} \cup N[h])
    BY <2>1
  <2> HIDE DEF new
  <2>3. HookFacts(h)
    BY <2>2, HookFactsAre
  <2>4. Trees' = (Trees \ {TreeOf(N, t) : t \in {e}}) \cup {TreeOf(M, new)} /\ M[new.b] = {from[h]} \cup N[h]
    <3>1. {e} \in SUBSET Entries(inchain)
      OBVIOUS
    <3> QED
      BY <2>2, <3>1, HookedTrees
  <2> DEFINE u == TreeOf(N, e)
             t == TreeOf(M, new)
  <2>5. Trees' = (Trees \ {u}) \cup {t}
    BY <2>4
  <2>6. t = [b |-> from[h], nodes |-> u.nodes \cup {from[h]}, no_asks |-> 0]
    BY <2>0, <2>1, <2>4 DEF TreeOf
  <2>7. u \in Trees /\ u.b = h /\ h \in u.nodes /\ \A x \in Trees : from[h] \notin x.nodes
    <3>1. h \in N[h]
      BY <2>1, ViewFacts
    <3> QED
      BY <1>0, <1>3, <2>1, <3>1 DEF HookedRaise
  <2> HIDE DEF u, t
  <2>8. Abstract!RaiseRoot(1, h)
    BY <2>3, <2>5, <2>6, <2>7, AbstractRaise
  <2> QED
    BY <2>8, Zenon DEF Abstract!AddReceivedBlock
<1>4. CASE HookedJoin(N, h)
  <2>1. PICK e \in Entries(inchain), d \in Entries(inchain) :
           /\ e.b = h /\ from[h] \in N[d.b]
           /\ \E M : Hooked(N, M, h, N[h], {e, d}, d, N[d.b] \cup N[h])
    BY <1>4, Zenon DEF HookedJoin
  <2>2. PICK M : Hooked(N, M, h, N[h], {e, d}, d, N[d.b] \cup N[h])
    BY <2>1
  <2>3. HookFacts(h)
    BY <2>2, HookFactsAre
  <2>4. Trees' = (Trees \ {TreeOf(N, t) : t \in {e, d}}) \cup {TreeOf(M, d)} /\ M[d.b] = N[d.b] \cup N[h]
    <3>1. {e, d} \in SUBSET Entries(inchain)
      OBVIOUS
    <3> QED
      BY <2>2, <3>1, HookedTrees
  <2> DEFINE u == TreeOf(N, e)
             v == TreeOf(N, d)
             t == TreeOf(M, d)
  <2>5. Trees' = (Trees \ {u, v}) \cup {t}
    BY <2>4
  <2>6. t = [v EXCEPT !.nodes = v.nodes \cup u.nodes]
    <3>1. M[d.b] = N[d.b] \cup u.nodes
      BY <1>0, <2>1, <2>4
    <3> HIDE DEF u
    <3>2. TreeOf(M, d) = Grown(TreeOf(N, d), u.nodes)
      BY <3>1, TreeGrown
    <3> QED
      BY <3>2, Zenon DEF Grown
  <2>7. u \in Trees /\ u.b = h /\ h \in u.nodes /\ v \in Trees /\ from[h] \in v.nodes
    <3>1. h \in N[h]
      BY <2>1, ViewFacts
    <3> QED
      BY <1>0, <2>1, <3>1
  <2> HIDE DEF u, v, t
  <2>8. Abstract!JoinTrees(1, h)
    BY <2>3, <2>5, <2>6, <2>7, AbstractJoin
  <2> QED
    BY <2>8, Zenon DEF Abstract!AddReceivedBlock
<1> QED
  BY <1>1, <1>2, <1>3, <1>4

\* add_received_block with the parent in the main tree is AddToMain of BlockTree.
LEMMA GraftStep ==
  ASSUME HeapInv, NEW N, View(N), NEW h \in Hashes, NEW M, NEW C, Grafted(N, M, C, h)
  PROVE  nb' = nb \cup {h} /\ Abstract!AddReceivedBlock(1, h)
<1>1. /\ Forest(from, heap', RootsOf(inchain'), M) /\ M[Genesis] = N[Genesis] \cup C
      /\ \A y \in BlockHash : heap'[y].parent = IF y = h THEN from[h] ELSE heap[y].parent
      /\ Entries(inchain') = {t \in Entries(inchain) : t.b # h}
      /\ \A t \in Entries(inchain') : M[t.b] = N[t.b]
      /\ h \in C /\ C \subseteq BlockHash
      /\ \/ C = {h} /\ \A t \in Entries(inchain) : t.b # h
         \/ \E t \in Entries(inchain) : t.b = h /\ C = N[h]
      /\ h \notin N[Genesis] /\ from[h] \in N[Genesis]
      /\ nb' = nb \cup {h} /\ from' = from
  BY DEF Grafted, Becomes
<1>2. PICK d \in C : /\ \A z \in C : DepthOf(from, z) <= DepthOf(from, d)
                     /\ deepest' = IF DepthOf(from, d) > DepthOf(from, deepest) THEN d ELSE deepest
  BY DEF Grafted
<1>3. /\ Trees = TreesOf(N, inchain) /\ Family(heap, Genesis) = N[Genesis]
      /\ Trees' = TreesOf(M, inchain') /\ Family(heap', Genesis) = M[Genesis]
  BY <1>1, TreesAre
<1>4. /\ \A u : u \in Trees <=> \E t \in Entries(inchain) : u = TreeOf(N, t)
      /\ \A u : u \in Trees' <=> \E t \in Entries(inchain') : u = TreeOf(M, t)
      /\ \A t : TreeOf(N, t).b = t.b /\ TreeOf(N, t).nodes = N[t.b]
  BY <1>3, TreeFields
<1>5. \A t \in Entries(inchain') : TreeOf(M, t) = TreeOf(N, t)
  BY <1>1, TreeFields
<1>6. \A u : u \in Trees' <=> u \in Trees /\ u.b # h
  BY <1>1, <1>4, <1>5
<1>7. Trees' = Trees \ {u \in Trees : u.b = h}
  BY <1>6
<1>8. C = {h} \cup UNION {t.nodes : t \in {u \in Trees : u.b = h}}
  <2>1. \A u \in Trees : u.b = h => u.nodes = N[h]
    BY <1>4
  <2>2. CASE C = {h} /\ \A t \in Entries(inchain) : t.b # h
    <3>1. \A u \in Trees : u.b # h
      BY <1>4, <2>2
    <3> QED
      BY <2>2, <3>1
  <2>3. CASE \E t \in Entries(inchain) : t.b = h /\ C = N[h]
    <3>1. C = N[h] /\ \E u \in Trees : u.b = h
      BY <1>4, <2>3
    <3> QED
      BY <1>1, <2>1, <3>1
  <2> QED
    BY <1>1, <2>2, <2>3
<1>9. from[h] \in Family(heap, Genesis) /\ h \notin Family(heap, Genesis)
      /\ Family(heap', Genesis) = Family(heap, Genesis) \cup C
  BY <1>1, <1>3
<1>10. deepest \in BlockHash
  BY DEF HeapInv, HeapTypeOK
<1>11. Abstract!AddToMain(1, h)
  BY <1>1, <1>2, <1>7, <1>8, <1>9, <1>10, AbstractMain
<1> QED
  BY <1>1, <1>11, Zenon DEF Abstract!AddReceivedBlock

\* get_incomplete_chain_hashes is AskForIncomplete of BlockTree.
LEMMA AskStep ==
  ASSUME HeapInv, NEW N, View(N), NEW due \in SUBSET (1 .. Len(inchain)), AskForIncomplete(due)
  PROVE  \E D \in SUBSET Trees : Abstract!AskForIncomplete(1, D)
<1> DEFINE a == AskedOf(due)
           n == Len(inchain)
           g == GoneWith(N, due, a)
<1>1. PICK M : Pruned(N, M, due, a, g)
  BY PrunedIs
<1>2. AskedFacts(due, a)
  BY AskedIs
<1>3. g = UNION {N[a[i].b] : i \in {j \in due : ~Stays(a[j])}}
  BY DEF GoneWith
<1> HIDE DEF a, g
<1>4. /\ n \in Nat
      /\ \A i \in 1 .. n :
           /\ a[i].b = inchain[i].b
           /\ i \in due => a[i] = [b |-> inchain[i].b, no_asks |-> inchain[i].no_asks + 1]
           /\ i \notin due => a[i] = inchain[i] /\ Stays(a[i])
  BY <1>2 DEF AskedFacts
<1>5. /\ Forest(from, heap', RootsOf(inchain'), M)
      /\ \A r \in RootsOf(inchain') : M[r] = N[r]
      /\ \A e : e \in Entries(inchain') <=> \E j \in 1 .. n : Stays(a[j]) /\ e = a[j]
      /\ due # {} /\ heap' = Freed(heap, g)
      /\ nb' = nb \ g /\ from' = from /\ deepest' = deepest
  BY <1>1 DEF Pruned
<1>6. /\ Trees = TreesOf(N, inchain) /\ Family(heap, Genesis) = N[Genesis]
      /\ Trees' = TreesOf(M, inchain') /\ Family(heap', Genesis) = M[Genesis]
  BY <1>5, TreesAre
<1>7. Family(heap', Genesis) = Family(heap, Genesis)
  <2>1. Genesis \in RootsOf(inchain')
    BY DEF RootsOf
  <2> QED
    BY <1>5, <1>6, <2>1
<1>8. \A y \in BlockHash : heap'[y].parent = IF y \in g THEN NULL ELSE heap[y].parent
  BY <1>5, FreshFacts DEF Freed
<1>23. PICK D : D = {TreeOf(N, inchain[i]) : i \in due}
  OBVIOUS
<1> DEFINE asked == {AskedOnce(t) : t \in D}
           kept == {t \in asked : ~(t.no_asks > NO_ASKS_BEFORE_REMOVING)}
<1>9. \A u : u \in Trees <=> \E i \in 1 .. n : u = TreeOf(N, inchain[i])
  <2>1. \A t : t \in Entries(inchain) <=> \E i \in 1 .. n : t = inchain[i]
    BY DEF Entries
  <2> QED
    BY <1>6, <2>1, TreeFields
<1>10. \A u : u \in Trees' <=> \E i \in 1 .. n : Stays(a[i]) /\ u = TreeOf(N, a[i])
  <2>1. \A t \in Entries(inchain') : TreeOf(M, t) = TreeOf(N, t)
    <3> TAKE t \in Entries(inchain')
    <3>1. t.b \in RootsOf(inchain')
      BY RootsAre
    <3> QED
      BY <1>5, <3>1, TreeFields
  <2>2. \A u : u \in Trees' <=> \E t \in Entries(inchain') : u = TreeOf(N, t)
    BY <1>6, <2>1, TreeFields
  <2> QED
    BY <1>5, <2>2
<1>11. \A i \in due : AskedOnce(TreeOf(N, inchain[i])) = TreeOf(N, a[i])
  <2> TAKE i \in due
  <2>1. AskedOnce(TreeOf(N, inchain[i])) =
          [b |-> inchain[i].b, nodes |-> N[inchain[i].b], no_asks |-> inchain[i].no_asks + 1]
    BY DEF AskedOnce, TreeOf
  <2>2. a[i].b = inchain[i].b /\ a[i].no_asks = inchain[i].no_asks + 1
    <3>1. a[i] = [b |-> inchain[i].b, no_asks |-> inchain[i].no_asks + 1]
      BY <1>4
    <3> QED
      BY <3>1
  <2> QED
    BY <2>1, <2>2 DEF TreeOf
<1>12. \A u : u \in asked <=> \E i \in due : u = TreeOf(N, a[i])
  BY <1>11, <1>23
<1>13. \A i \in 1 .. n : /\ TreeOf(N, a[i]).no_asks = a[i].no_asks /\ TreeOf(N, a[i]).nodes = N[a[i].b]
                         /\ (Stays(a[i]) <=> ~(TreeOf(N, a[i]).no_asks > NO_ASKS_BEFORE_REMOVING))
  <2> TAKE i \in 1 .. n
  <2>1. TreeOf(N, a[i]).no_asks = a[i].no_asks /\ TreeOf(N, a[i]).nodes = N[a[i].b]
    BY TreeFields
  <2>2. a[i].no_asks \in Nat
    BY <1>2 DEF AskedFacts, AskedList, Asked
  <2> QED
    BY <2>1, <2>2, AsksAssumption DEF Stays
<1>14. \A i, j \in 1 .. n : i # j => /\ TreeOf(N, inchain[i]) # TreeOf(N, inchain[j])
                                     /\ TreeOf(N, a[i]) # TreeOf(N, a[j])
  <2>1. \A i, j \in 1 .. n : i # j => inchain[i].b # inchain[j].b
    BY DEF HeapInv, Listed
  <2>2. \A i, j \in 1 .. n : i # j => a[i].b # a[j].b
    BY <1>4, <2>1
  <2>3. \A t, u : t.b # u.b => TreeOf(N, t) # TreeOf(N, u)
    BY TreeFields
  <2> QED
    BY <2>1, <2>2, <2>3
<1>15. \A u : u \in D <=> \E i \in due : u = TreeOf(N, inchain[i])
  BY <1>23
<1>16. D \in SUBSET Trees /\ D # {}
  <2>1. D # {}
    BY <1>5, <1>15
  <2> QED
    BY <1>9, <1>15, <2>1
<1>17. asked = AllAsked(D)
  BY DEF AllAsked
<1> HIDE DEF asked, n
<1>18. \A u : u \in kept <=> \E i \in due : Stays(a[i]) /\ u = TreeOf(N, a[i])
  BY <1>12, <1>13 DEF n
<1>19. kept = StillDue(asked)
  BY DEF StillDue
<1> HIDE DEF kept
<1>20. Trees' = (Trees \ D) \cup kept
  <2>1. ASSUME NEW i \in 1 .. n, i \notin due PROVE TreeOf(N, a[i]) \in Trees \ D
    <3>1. a[i] = inchain[i]
      BY <1>4, <2>1
    <3>2. \A j \in due : TreeOf(N, inchain[i]) # TreeOf(N, inchain[j])
      BY <1>14, <2>1 DEF n
    <3> QED
      BY <1>9, <1>15, <2>1, <3>1, <3>2
  <2>2. ASSUME NEW u \in Trees \ D PROVE \E i \in 1 .. n : Stays(a[i]) /\ u = TreeOf(N, a[i])
    <3>1. PICK i \in 1 .. n : u = TreeOf(N, inchain[i])
      BY <1>9, <2>2
    <3>2. i \notin due
      BY <1>15, <2>2, <3>1
    <3> QED
      BY <1>4, <3>1, <3>2
  <2>3. \A u : u \in Trees' => u \in (Trees \ D) \cup kept
    <3> SUFFICES ASSUME NEW u, u \in Trees' PROVE u \in (Trees \ D) \cup kept
      OBVIOUS
    <3>1. PICK i \in 1 .. n : Stays(a[i]) /\ u = TreeOf(N, a[i])
      BY <1>10
    <3>2. CASE i \in due
      BY <1>18, <3>1, <3>2
    <3>3. CASE i \notin due
      BY <2>1, <3>1, <3>3
    <3> QED
      BY <3>2, <3>3
  <2>4. \A u : u \in (Trees \ D) \cup kept => u \in Trees'
    BY <1>10, <1>18, <2>2 DEF n
  <2> QED
    BY <2>3, <2>4
<1>21. g = NodesOf(asked \ kept)
  <2>1. \A u : u \in asked \ kept <=> \E i \in due : ~Stays(a[i]) /\ u = TreeOf(N, a[i])
    BY <1>12, <1>14, <1>18 DEF n
  <2>2. \A i \in due : TreeOf(N, a[i]).nodes = N[a[i].b]
    BY <1>13 DEF n
  <2>3. \A y : y \in g <=> \E i \in due : ~Stays(a[i]) /\ y \in N[a[i].b]
    BY <1>3
  <2>4. \A y : y \in UNION {t.nodes : t \in asked \ kept} <=> \E u \in asked \ kept : y \in u.nodes
    OBVIOUS
  <2>5. \A y : y \in g <=> y \in UNION {t.nodes : t \in asked \ kept}
    BY <2>1, <2>2, <2>3, <2>4
  <2> QED
    BY <2>5 DEF NodesOf
<1>22. Abstract!AskForIncomplete(1, D)
  <2>1. from' = from /\ deepest' = deepest /\ nb' = nb \ g
    BY <1>5
  <2> QED
    BY <1>7, <1>8, <1>16, <1>17, <1>19, <1>20, <1>21, <2>1, AbstractAsk
<1> QED
  BY <1>16, <1>22, Zenon

\* A step of BlockTree, as the refinement states it.
AbstractStep ==
  \/ \E h \in Hashes : nb' = nb \cup {h} /\ Abstract!AddReceivedBlock(1, h)
  \/ \E due \in SUBSET Trees : Abstract!AskForIncomplete(1, due)

\* Under the invariant every step on the pointers is one of BlockTree, or a stutter.
LEMMA HeapImplements ==
  HeapInv /\ [HeapNext]_heapVars =>
    [\/ \E h \in Hashes : nb' = nb \cup {h} /\ Abstract!AddReceivedBlock(1, h)
     \/ \E due \in SUBSET Trees : Abstract!AskForIncomplete(1, due)]_heapVars
<1> SUFFICES ASSUME HeapInv, HeapNext PROVE AbstractStep
  BY Zenon DEF AbstractStep
<1>1. PICK N : View(N)
  BY DEF HeapInv
<1>2. ASSUME NEW h \in Hashes, AddToMain(h) PROVE AbstractStep
  <2>1. PICK M, C : Grafted(N, M, C, h)
    BY <1>1, <1>2, GraftedIs
  <2>2. nb' = nb \cup {h} /\ Abstract!AddReceivedBlock(1, h)
    BY <1>1, <2>1, GraftStep
  <2> QED
    BY <2>2, Zenon DEF AbstractStep
<1>3. ASSUME NEW h \in Hashes, AddToIncomplete(h) PROVE AbstractStep
  <2>1. /\ OffMain(N, h) /\ nb' = nb \cup {h} /\ from' = from /\ deepest' = deepest
        /\ ~ \E t \in Entries(inchain) : h \in N[t.b] /\ heap[h].parent = from[h]
        /\ HookedNew(N, h) \/ HookedGrow(N, h) \/ HookedRaise(N, h) \/ HookedJoin(N, h)
    BY <1>1, <1>3, HookedIs
  <2>2. Abstract!AddReceivedBlock(1, h)
    BY <1>1, <2>1, HookSteps
  <2> QED
    BY <2>1, <2>2, Zenon DEF AbstractStep
<1>4. ASSUME NEW due \in SUBSET (1 .. Len(inchain)), AskForIncomplete(due) PROVE AbstractStep
  <2>1. \E D \in SUBSET Trees : Abstract!AskForIncomplete(1, D)
    BY <1>1, <1>4, AskStep
  <2> QED
    BY <2>1, Zenon DEF AbstractStep
<1> QED
  BY <1>2, <1>3, <1>4 DEF HeapNext

\* Whatever the order of arrival, every step on the pointers of add_received_block
\* and get_incomplete_chain_hashes is the step of BlockTree on sets of nodes and
\* parents, for the blocks of one chain.
THEOREM HeapRefines == HeapSpec => ImplementsBlockTree
<1>1. HeapInit => HeapInv
  BY HeapInitInv
<1> QED
  BY <1>1, HeapStepInv, HeapImplements, PTL DEF HeapSpec, ImplementsBlockTree
=============================================================================
