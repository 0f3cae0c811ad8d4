-------------------------- MODULE StructureProofs --------------------------
(***************************************************************************)
(* Proofs about the data structures of the node that have a module of      *)
(* their own, each for every value of its bounds:                          *)
(*   AskQueue   get_non_full_blocks passes a missing body over for long    *)
(*              only behind many missing bodies of smaller hashes;         *)
(*   Framing    process_buffer hands over every message once, in order and *)
(*              with the read that completes it, however the bytes are cut;*)
(*   Merkle     the root covers every chain at its place, and a block is   *)
(*              accepted exactly with its own parent and chain;            *)
(*   TxPool     next_seqs skips no number, the maps hold one transaction   *)
(*              per key, and only a real conflict moves a transaction to   *)
(*              aged_transactions.                                         *)
(* What HashTree stores in its nodes is in HashTreeProofs.                 *)
(***************************************************************************)
EXTENDS AskQueue, Framing, Merkle, TxPool, NatLemmas, SequenceTheorems, FiniteSetTheorems

G == Max(Gaps)

\* The longest time between two passes of run_network.
LEMMA LongestGap == G \in Nat \ {0} /\ \A g \in Gaps : g <= G
<1>1. G \in Gaps /\ \A x \in Gaps : G >= x
  BY GapAssumption DEF G, Max
<1> QED
  BY <1>1, TimeAssumption

\* Within RetryPasses passes a block that was asked for is not due again.
LEMMA RetryTime ==
  /\ RetryPasses \in Nat \ {0}
  /\ \A s \in Nat : s < RetryPasses => s * G <= INDIVIDUAL
<1> DEFINE q == INDIVIDUAL \div G
<1>1. q \in Nat /\ q * G <= INDIVIDUAL
  BY LongestGap, TimeAssumption
<1>2. RetryPasses = q + 1
  BY DEF RetryPasses, G
<1> HIDE DEF q
<1>3. ASSUME NEW s \in Nat, s < q + 1 PROVE s * G <= INDIVIDUAL
  <2>1. q - s \in Nat /\ (q - s) * G \in Nat /\ q * G = s * G + (q - s) * G
    BY <1>1, <1>3, LongestGap
  <2>2. s * G \in Nat /\ q * G \in Nat
    BY <1>1, LongestGap
  <2> QED
    BY <1>1, <2>1, <2>2, TimeAssumption
<1> QED
  BY <1>1, <1>2, <1>3

\* A pass that leaves a due block out is full: the loop of get_non_full_blocks
\* only ends early when it has MAX_ASK_NON_FULL_IN_ONE_GO blocks.
LEMMA FullPass ==
  ASSUME NEW due, due \subseteq Nat, IsFiniteSet(due), due \ Taken(due) # {}
  PROVE  Cardinality(Taken(due)) >= MAX_ASK_NON_FULL_IN_ONE_GO
<1> DEFINE below(h) == {x \in due : x < h}
           left == due \ Taken(due)
<1>1. PICK m \in left : \A k \in left : m <= k
  BY LeastNat
<1>2. Cardinality(below(m)) >= MAX_ASK_NON_FULL_IN_ONE_GO
  <2>1. IsFiniteSet(below(m)) /\ Cardinality(below(m)) \in Nat
    BY FS_Subset, FS_CardinalityType
  <2> QED
    BY <1>1, <2>1, LimitAssumption DEF Taken
<1>3. below(m) \subseteq Taken(due)
  <2> SUFFICES ASSUME NEW x \in due, x < m, x \notin Taken(due) PROVE FALSE
    OBVIOUS
  <2>1. m <= x /\ m \in Nat /\ x \in Nat
    BY <1>1
  <2> QED
    BY <2>1
<1>4. Taken(due) \subseteq due
  BY DEF Taken
<1>5. /\ IsFiniteSet(Taken(due)) /\ Cardinality(Taken(due)) \in Nat
      /\ Cardinality(below(m)) <= Cardinality(Taken(due))
      /\ Cardinality(below(m)) \in Nat
  <2>1. IsFiniteSet(Taken(due))
    BY <1>4, FS_Subset
  <2> HIDE DEF below
  <2>2. IsFiniteSet(below(m)) /\ Cardinality(below(m)) <= Cardinality(Taken(due))
    BY <1>3, <2>1, FS_Subset
  <2> QED
    BY <2>1, <2>2, FS_CardinalityType
<1> QED
  BY <1>2, <1>5, LimitAssumption

\* A pass asks for smaller hashes than those it leaves out.
LEMMA TakenBelow ==
  ASSUME NEW due, due \subseteq Nat, IsFiniteSet(due),
         NEW h \in due \ Taken(due), NEW x \in Taken(due)
  PROVE  x \in due /\ x < h
<1> DEFINE below(y) == {z \in due : z < y}
<1>1. x \in due /\ x \in Nat /\ h \in Nat
  BY DEF Taken
<1>2. Cardinality(below(x)) < MAX_ASK_NON_FULL_IN_ONE_GO
      /\ ~(Cardinality(below(h)) < MAX_ASK_NON_FULL_IN_ONE_GO)
  BY DEF Taken
<1>3. ASSUME h <= x PROVE FALSE
  <2>1. below(h) \subseteq below(x)
    <3>1. ASSUME NEW z \in due, z < h PROVE z < x
      <4>1. z \in Nat
        OBVIOUS
      <4> QED
        BY <1>1, <1>3, <3>1, <4>1
    <3> QED
      BY <3>1
  <2>2. IsFiniteSet(below(x)) /\ IsFiniteSet(below(h))
    BY FS_Subset
  <2> HIDE DEF below
  <2>3. Cardinality(below(h)) <= Cardinality(below(x))
        /\ Cardinality(below(h)) \in Nat /\ Cardinality(below(x)) \in Nat
    BY <2>1, <2>2, FS_Subset, FS_CardinalityType
  <2> QED
    BY <1>2, <2>3, LimitAssumption
<1> QED
  BY <1>1, <1>3

\* Those of the rivals of a block that are known to have been served while it was
\* left out s times in a row: their body has come, or they were asked for in one
\* of these passes.
Served(rivals, bodies, age, s) ==
    {x \in rivals : x \in bodies \/ (x \in DOMAIN age /\ age[x] <= (s - 1) * G)}

\* Served blocks are finitely many; a larger set counts more.
LEMMA ServedFinite ==
  ASSUME NEW rivals \in SUBSET BodyHashes, NEW bodies, NEW age, NEW s
  PROVE  /\ IsFiniteSet(rivals) /\ Cardinality(rivals) \in Nat
         /\ IsFiniteSet(Served(rivals, bodies, age, s))
         /\ Cardinality(Served(rivals, bodies, age, s)) \in Nat
         /\ Cardinality(Served(rivals, bodies, age, s)) <= Cardinality(rivals)
         /\ \A S : S \subseteq Served(rivals, bodies, age, s) =>
              Cardinality(S) \in Nat /\ Cardinality(S) <= Cardinality(Served(rivals, bodies, age, s))
<1> DEFINE T == Served(rivals, bodies, age, s)
<1>1. T \subseteq rivals
  BY DEF Served
<1>2. IsFiniteSet(rivals) /\ Cardinality(rivals) \in Nat
  BY BodiesAssumption, FS_Subset, FS_CardinalityType
<1> HIDE DEF T
<1>3. IsFiniteSet(T) /\ Cardinality(T) \in Nat /\ Cardinality(T) <= Cardinality(rivals)
  BY <1>1, <1>2, FS_Subset, FS_CardinalityType
<1>4. ASSUME NEW S, S \subseteq T
      PROVE  Cardinality(S) \in Nat /\ Cardinality(S) <= Cardinality(T)
  BY <1>3, <1>4, FS_Subset, FS_CardinalityType
<1> QED
  BY <1>2, <1>3, <1>4 DEF T

\* A block left out s times in a row has had that many passes' worth of blocks
\* ahead of it; and as long as none of them can be due again, these passes
\* served as many.
WaitInv(rivals, bodies, age, s) ==
    /\ Cardinality(rivals) >= MAX_ASK_NON_FULL_IN_ONE_GO * s
    /\ 0 < s /\ s < RetryPasses =>
         Cardinality(Served(rivals, bodies, age, s)) >= MAX_ASK_NON_FULL_IN_ONE_GO * s

\* The inductive invariant.
StarvationInv ==
    /\ QueueTypeOK
    /\ \A h \in Queue : WaitInv(ahead[h], full, received_non_full_blocks, skipped[h])

\* Nothing is asked of a block that was not left out.
LEMMA NotLeftOut ==
  ASSUME NEW bodies, NEW age
  PROVE  WaitInv({}, bodies, age, 0)
<1>1. Cardinality({}) = 0
  BY FS_EmptySet
<1> QED
  BY <1>1, LimitAssumption DEF WaitInv

\* While a block waits, what was served stays served.
LEMMA WaitKept ==
  ASSUME NEW rivals \in SUBSET BodyHashes, NEW bodies, NEW age, NEW bodies2, NEW age2,
         NEW s \in Nat, WaitInv(rivals, bodies, age, s),
         Served(rivals, bodies, age, s) \subseteq Served(rivals, bodies2, age2, s)
  PROVE  WaitInv(rivals, bodies2, age2, s)
<1> DEFINE S == Served(rivals, bodies, age, s)
           T == Served(rivals, bodies2, age2, s)
<1>1. Cardinality(S) \in Nat /\ Cardinality(T) \in Nat /\ Cardinality(S) <= Cardinality(T)
  BY ServedFinite
<1>2. MAX_ASK_NON_FULL_IN_ONE_GO * s \in Nat
  BY LimitAssumption
<1>3. 0 < s /\ s < RetryPasses => Cardinality(S) >= MAX_ASK_NON_FULL_IN_ONE_GO * s
  BY DEF WaitInv
<1> HIDE DEF S, T
<1>4. 0 < s /\ s < RetryPasses => Cardinality(T) >= MAX_ASK_NON_FULL_IN_ONE_GO * s
  BY <1>1, <1>2, <1>3
<1> QED
  BY <1>4 DEF WaitInv, T

\* The queue is empty at first.
LEMMA QueueInitInv == QueueInit => StarvationInv
<1> SUFFICES ASSUME QueueInit PROVE StarvationInv
  OBVIOUS
<1>1. /\ Queue = {} /\ received_non_full_blocks = [x \in {} |-> 0]
      /\ skipped = [x \in {} |-> 0] /\ ahead = [x \in {} |-> {}]
  BY DEF QueueInit, Queue
<1>2. QueueTypeOK
  BY <1>1 DEF QueueTypeOK, QueueInit
<1> QED
  BY <1>1, <1>2 DEF StarvationInv

\* Headers that arrive are due at once and take nothing away.
LEMMA ArriveInv ==
  ASSUME StarvationInv, NEW new \in SUBSET BodyHashes, Arrive(new)
  PROVE  StarvationInv'
<1>1. /\ new \cap (Queue \cup full) = {}
      /\ received_non_full_blocks' =
           [h \in Queue \cup new |-> IF h \in new THEN Oldest ELSE received_non_full_blocks[h]]
      /\ skipped' = [h \in Queue \cup new |-> IF h \in new THEN 0 ELSE skipped[h]]
      /\ ahead' = [h \in Queue \cup new |-> IF h \in new THEN {} ELSE ahead[h]]
      /\ full' = full
  BY DEF Arrive
<1>2. Queue' = Queue \cup new
  BY <1>1 DEF Queue
<1>3. /\ \A h \in Queue : /\ skipped'[h] = skipped[h] /\ ahead'[h] = ahead[h]
                         /\ received_non_full_blocks'[h] = received_non_full_blocks[h]
      /\ \A h \in new : skipped'[h] = 0 /\ ahead'[h] = {}
  BY <1>1
<1>4. QueueTypeOK'
  <2>1. Oldest \in 0 .. Oldest /\ 0 \in 0 .. RetryPasses
    BY TimeAssumption, RetryTime DEF Oldest
  <2>2. received_non_full_blocks' \in [Queue' -> 0 .. Oldest]
    BY <1>1, <1>2, <2>1 DEF StarvationInv, QueueTypeOK
  <2>3. skipped' \in [Queue' -> 0 .. RetryPasses]
    BY <1>1, <1>2, <2>1 DEF StarvationInv, QueueTypeOK
  <2>4. ahead' \in [Queue' -> SUBSET BodyHashes]
    BY <1>1, <1>2 DEF StarvationInv, QueueTypeOK
  <2> QED
    BY <1>1, <1>2, <2>2, <2>3, <2>4 DEF StarvationInv, QueueTypeOK
<1>5. ASSUME NEW h \in Queue'
      PROVE  WaitInv(ahead'[h], full', received_non_full_blocks', skipped'[h])
  <2>1. CASE h \in new
    BY <1>3, <2>1, NotLeftOut
  <2>2. CASE h \notin new
    <3>1. h \in Queue /\ skipped'[h] = skipped[h] /\ ahead'[h] = ahead[h]
      BY <1>2, <1>3, <2>2
    <3>2. Served(ahead[h], full, received_non_full_blocks, skipped[h])
            \subseteq Served(ahead[h], full', received_non_full_blocks', skipped[h])
      BY <1>1, <1>2, <1>3 DEF Served, Queue
    <3>3. /\ ahead[h] \in SUBSET BodyHashes /\ skipped[h] \in Nat
          /\ WaitInv(ahead[h], full, received_non_full_blocks, skipped[h])
      BY <3>1, RetryTime DEF StarvationInv, QueueTypeOK
    <3> QED
      BY <3>1, <3>2, <3>3, WaitKept
  <2> QED
    BY <2>1, <2>2
<1> QED
  BY <1>4, <1>5 DEF StarvationInv

\* A block whose body comes stays among the served ones.
LEMMA SetBlockFullInv ==
  ASSUME StarvationInv, NEW y \in BodyHashes, SetBlockFull(y)
  PROVE  StarvationInv'
<1>1. /\ y \in Queue /\ full' = full \cup {y}
      /\ received_non_full_blocks' = [x \in Queue \ {y} |-> received_non_full_blocks[x]]
      /\ skipped' = [x \in Queue \ {y} |-> skipped[x]]
      /\ ahead' = [x \in Queue \ {y} |-> ahead[x]]
  BY DEF SetBlockFull, Done
<1>2. Queue' = Queue \ {y}
  BY <1>1 DEF Queue
<1>3. \A h \in Queue \ {y} : /\ skipped'[h] = skipped[h] /\ ahead'[h] = ahead[h]
                            /\ received_non_full_blocks'[h] = received_non_full_blocks[h]
  BY <1>1
<1>4. QueueTypeOK'
  BY <1>1, <1>2 DEF StarvationInv, QueueTypeOK
<1>5. ASSUME NEW h \in Queue'
      PROVE  WaitInv(ahead'[h], full', received_non_full_blocks', skipped'[h])
  <2>1. h \in Queue /\ skipped'[h] = skipped[h] /\ ahead'[h] = ahead[h]
    BY <1>2, <1>3
  <2>2. Served(ahead[h], full, received_non_full_blocks, skipped[h])
          \subseteq Served(ahead[h], full', received_non_full_blocks', skipped[h])
    BY <1>1, <1>2, <1>3 DEF Served, Queue
  <2>3. /\ ahead[h] \in SUBSET BodyHashes /\ skipped[h] \in Nat
        /\ WaitInv(ahead[h], full, received_non_full_blocks, skipped[h])
    BY <2>1, RetryTime DEF StarvationInv, QueueTypeOK
  <2> QED
    BY <2>1, <2>2, <2>3, WaitKept
<1> QED
  BY <1>4, <1>5 DEF StarvationInv

\* Ages after a pass.
LEMMA AgeFacts ==
  ASSUME QueueTypeOK, NEW gap \in Gaps, NEW h \in Queue
  PROVE  /\ Age(h, gap) \in 0 .. Oldest
         /\ Age(h, gap) <= received_non_full_blocks[h] + gap
         /\ IsDue(Age(h, gap)) =>
              Age(h, gap) = Oldest /\ received_non_full_blocks[h] + gap > INDIVIDUAL
<1> DEFINE a == received_non_full_blocks[h] + gap
           S == {Oldest, a}
<1>1. a \in Nat /\ Oldest \in Nat /\ Oldest = INDIVIDUAL + 1 /\ INDIVIDUAL \in Nat
  BY TimeAssumption DEF QueueTypeOK, Oldest
<1> HIDE DEF a
<1>2. \E m \in S : \A k \in S : m <= k
  BY <1>1
<1>3. Min(S) \in S /\ \A k \in S : Min(S) <= k
  <2> HIDE DEF S
  <2> QED
    BY <1>2 DEF Min
<1>4. Age(h, gap) = Min(S)
  BY DEF Age, a
<1>5. (Min(S) = Oldest \/ Min(S) = a) /\ Min(S) <= Oldest /\ Min(S) <= a
  BY <1>3
<1> HIDE DEF S
<1>6. /\ Age(h, gap) \in 0 .. Oldest /\ Age(h, gap) <= a
      /\ IsDue(Age(h, gap)) => Age(h, gap) = Oldest /\ a > INDIVIDUAL
  BY <1>1, <1>4, <1>5 DEF IsDue
<1> QED
  BY <1>6 DEF a

\* One pass, for a block it leaves out: it serves a full load of rivals, none of
\* which was served before while the block was waiting.
LEMMA LeftOutOnceMore ==
  ASSUME StarvationInv, NEW gap \in Gaps, NEW due, due = {k \in Queue : IsDue(Age(k, gap))},
         NEW age2, DOMAIN age2 = Queue,
         \A k \in Queue : age2[k] = IF k \in Taken(due) THEN 0 ELSE Age(k, gap),
         NEW h \in due \ Taken(due), skipped[h] < RetryPasses
  PROVE  WaitInv(ahead[h] \cup Before(h), full, age2, skipped[h] + 1)
<1> DEFINE age == received_non_full_blocks
           s == skipped[h]
           taken == Taken(due)
           rivals == ahead[h] \cup Before(h)
           M == MAX_ASK_NON_FULL_IN_ONE_GO
           S == Served(ahead[h], full, age, s)
           T == Served(rivals, full, age2, s + 1)
<1>1. QueueTypeOK
  BY DEF StarvationInv
<1>2. \A k \in due : k \in Queue /\ Age(k, gap) = Oldest /\ age[k] + gap > INDIVIDUAL
  BY <1>1, AgeFacts
<1>3. due \subseteq Nat /\ IsFiniteSet(due)
  <2>1. due \subseteq BodyHashes
    BY <1>1, <1>2 DEF QueueTypeOK
  <2> QED
    BY <2>1, BodiesAssumption, FS_Subset
<1>4. h \in Queue /\ s \in Nat /\ ahead[h] \in SUBSET BodyHashes
      /\ rivals \in SUBSET BodyHashes /\ WaitInv(ahead[h], full, age, s)
  BY <1>1, <1>2, RetryTime DEF QueueTypeOK, StarvationInv, Before
<1>5. \A x \in taken : x \in due /\ x < h
  BY <1>3, TakenBelow
<1>6. Cardinality(taken) >= M
  BY <1>3, FullPass
<1>7. s * G \in Nat /\ s * G <= INDIVIDUAL /\ (s + 1) - 1 = s
  <2>1. s \in Nat /\ s < RetryPasses
    BY <1>4
  <2> HIDE DEF s
  <2>2. s * G <= INDIVIDUAL
    BY <2>1, RetryTime
  <2>3. s * G \in Nat
    BY <2>1, LongestGap
  <2> QED
    BY <2>1, <2>2, <2>3
<1>8. taken \subseteq T
  <2>1. ASSUME NEW x \in taken PROVE x \in rivals /\ x \in DOMAIN age2 /\ age2[x] = 0
    BY <1>2, <1>5 DEF Before
  <2> QED
    BY <1>7, <2>1 DEF Served
<1>9. IsFiniteSet(taken) /\ Cardinality(taken) \in Nat
  <2>1. taken \subseteq due
    BY <1>5
  <2> HIDE DEF taken
  <2> QED
    BY <2>1, <1>3, FS_Subset, FS_CardinalityType
<1>10. /\ Cardinality(T) \in Nat /\ Cardinality(rivals) \in Nat
       /\ Cardinality(T) <= Cardinality(rivals)
       /\ \A X : X \subseteq T => Cardinality(X) \in Nat /\ Cardinality(X) <= Cardinality(T)
  BY <1>4, ServedFinite
<1>11. M \in Nat /\ M * (s + 1) = M * s + M /\ M * s \in Nat /\ M * (s + 1) \in Nat
  BY <1>4, LimitAssumption
<1>12. Cardinality(T) >= M * (s + 1)
  <2>1. CASE s = 0
    <3>1. M * (s + 1) = M
      BY <1>11, <2>1
    <3>2. Cardinality(taken) <= Cardinality(T)
      BY <1>8, <1>10
    <3> HIDE DEF T, taken, M, s
    <3> QED
      BY <1>6, <1>9, <1>10, <1>11, <3>1, <3>2
  <2>2. CASE s # 0
    <3>1. Cardinality(S) >= M * s
      BY <1>4, <2>2 DEF WaitInv
    <3>2. gap \in Nat /\ gap <= G /\ G \in Nat
      BY LongestGap, TimeAssumption
    <3>3. (s - 1) * G + G = s * G /\ (s - 1) * G \in Int
      BY <1>4, <3>2
    <3>4. ASSUME NEW x \in Queue, age[x] <= (s - 1) * G
          PROVE  x \notin due /\ age2[x] <= s * G
      <4>1. age[x] \in Nat /\ age[x] + gap <= s * G
        BY <1>1, <1>7, <3>2, <3>3, <3>4 DEF QueueTypeOK
      <4>2. x \notin due
        BY <1>2, <1>7, <4>1, <3>2, TimeAssumption
      <4>3. age2[x] = Age(x, gap)
        BY <1>5, <4>2
      <4>4. Age(x, gap) \in 0 .. Oldest /\ Age(x, gap) <= age[x] + gap
        BY <1>1, AgeFacts
      <4> QED
        BY <1>7, <3>2, <4>1, <4>2, <4>3, <4>4, TimeAssumption DEF Oldest
    <3>5. S \subseteq T
      <4>1. \A x \in S : x \in ahead[h] /\ (x \in full \/ (x \in Queue /\ age[x] <= (s - 1) * G))
        BY DEF Served, Queue
      <4> QED
        BY <1>7, <3>4, <4>1 DEF Served
    <3>6. S \cap taken = {}
      <4>1. full \cap Queue = {}
        BY <1>1 DEF QueueTypeOK
      <4>2. \A x \in S : x \in full \/ (x \in Queue /\ age[x] <= (s - 1) * G)
        BY DEF Served, Queue
      <4>3. \A x \in taken : x \in due /\ x \in Queue
        BY <1>2, <1>5
      <4> HIDE DEF S, taken
      <4> QED
        BY <3>4, <4>1, <4>2, <4>3
    <3>7. IsFiniteSet(S) /\ Cardinality(S) \in Nat
      BY <1>4, ServedFinite
    <3>8. Cardinality(S \cup taken) <= Cardinality(T) /\ Cardinality(S \cup taken) \in Nat
      <4>1. S \cup taken \subseteq T
        BY <1>8, <3>5
      <4> HIDE DEF S, T, taken
      <4> QED
        BY <1>10, <4>1
    <3> HIDE DEF S, T, taken, M, s
    <3>9. Cardinality(S \cup taken) = Cardinality(S) + Cardinality(taken)
      <4>1. Cardinality(S \cup taken) =
              Cardinality(S) + Cardinality(taken) - Cardinality(S \cap taken)
        BY <1>9, <3>7, FS_Union
      <4>2. Cardinality(S \cap taken) = 0
        BY <3>6, FS_EmptySet
      <4> QED
        BY <4>1, <4>2, <1>9, <3>7
    <3> QED
      BY <1>6, <1>9, <1>10, <1>11, <3>1, <3>7, <3>8, <3>9
  <2> QED
    BY <2>1, <2>2
<1> HIDE DEF T, rivals, M, s
<1>13. Cardinality(rivals) >= M * (s + 1)
  BY <1>10, <1>11, <1>12
<1> QED
  BY <1>12, <1>13 DEF WaitInv, T, rivals, M, s

\* A pass of get_non_full_blocks.
LEMMA GetNonFullBlocksInv ==
  ASSUME StarvationInv, NEW gap \in Gaps, GetNonFullBlocks(gap)
  PROVE  StarvationInv'
<1> DEFINE due  == {h \in Queue : IsDue(Age(h, gap))}
           left == due \ Taken(due)
<1>1. /\ received_non_full_blocks' = [h \in Queue |-> IF h \in Taken(due) THEN 0 ELSE Age(h, gap)]
      /\ skipped' = [h \in Queue |-> IF h \in left THEN OneMore(skipped[h]) ELSE 0]
      /\ ahead' = [h \in Queue |-> IF h \in left THEN ahead[h] \cup Before(h) ELSE {}]
      /\ full' = full
  BY DEF GetNonFullBlocks
<1>2. Queue' = Queue
  BY <1>1 DEF Queue
<1>3. QueueTypeOK
  BY DEF StarvationInv
<1>4. left \subseteq Queue
  OBVIOUS
<1>5. due = {k \in Queue : IsDue(Age(k, gap))}
  OBVIOUS
<1>6. ASSUME NEW h \in left PROVE h \in due \ Taken(due)
  OBVIOUS
<1> HIDE DEF due, left
<1>7. QueueTypeOK'
  <2>1. 0 \in 0 .. Oldest /\ 0 \in 0 .. RetryPasses
    BY TimeAssumption, RetryTime DEF Oldest
  <2>2. \A h \in Queue : Age(h, gap) \in 0 .. Oldest
    BY <1>3, AgeFacts
  <2>3. \A h \in Queue : OneMore(skipped[h]) \in 0 .. RetryPasses
    BY <1>3, RetryTime DEF QueueTypeOK, OneMore
  <2>4. \A h \in Queue : ahead[h] \cup Before(h) \in SUBSET BodyHashes
    BY <1>3 DEF QueueTypeOK, Before
  <2>5. received_non_full_blocks' \in [Queue' -> 0 .. Oldest]
    BY <1>1, <1>2, <2>1, <2>2
  <2>6. skipped' \in [Queue' -> 0 .. RetryPasses]
    BY <1>1, <1>2, <2>1, <2>3
  <2>7. ahead' \in [Queue' -> SUBSET BodyHashes]
    BY <1>1, <1>2, <2>4
  <2> QED
    BY <1>1, <1>2, <1>3, <2>5, <2>6, <2>7 DEF QueueTypeOK
<1>8. ASSUME NEW h \in Queue'
      PROVE  WaitInv(ahead'[h], full', received_non_full_blocks', skipped'[h])
  <2>1. CASE h \notin left
    <3>1. ahead'[h] = {} /\ skipped'[h] = 0
      BY <1>1, <1>2, <2>1
    <3> QED
      BY <3>1, NotLeftOut
  <2>2. CASE h \in left /\ skipped[h] < RetryPasses
    <3>1. ahead'[h] = ahead[h] \cup Before(h) /\ skipped'[h] = skipped[h] + 1
      BY <1>1, <1>2, <2>2 DEF OneMore
    <3>2. /\ DOMAIN received_non_full_blocks' = Queue
          /\ \A k \in Queue : received_non_full_blocks'[k] =
                                IF k \in Taken(due) THEN 0 ELSE Age(k, gap)
      BY <1>1
    <3>3. h \in due \ Taken(due)
      BY <1>6, <2>2
    <3> DEFINE age2 == received_non_full_blocks'
    <3>4. DOMAIN age2 = Queue
          /\ \A k \in Queue : age2[k] = IF k \in Taken(due) THEN 0 ELSE Age(k, gap)
      BY <3>2
    <3> HIDE DEF age2
    <3>5. WaitInv(ahead[h] \cup Before(h), full, age2, skipped[h] + 1)
      BY <1>5, <2>2, <3>3, <3>4, LeftOutOnceMore
    <3> QED
      BY <1>1, <3>1, <3>5 DEF age2
  <2>3. CASE h \in left /\ ~(skipped[h] < RetryPasses)
    <3>1. /\ ahead'[h] = ahead[h] \cup Before(h) /\ skipped'[h] = skipped[h]
          /\ skipped[h] = RetryPasses
      BY <1>1, <1>2, <1>3, <2>3, RetryTime DEF OneMore, QueueTypeOK
    <3>2. /\ ahead[h] \cup Before(h) \in SUBSET BodyHashes
          /\ Cardinality(ahead[h]) >= MAX_ASK_NON_FULL_IN_ONE_GO * skipped[h]
      BY <1>2, <1>3 DEF QueueTypeOK, Before, StarvationInv, WaitInv
    <3>3. /\ IsFiniteSet(ahead[h] \cup Before(h)) /\ Cardinality(ahead[h]) \in Nat
          /\ Cardinality(ahead[h] \cup Before(h)) \in Nat
          /\ Cardinality(ahead[h]) <= Cardinality(ahead[h] \cup Before(h))
      <4> DEFINE R == ahead[h] \cup Before(h)
      <4>1. ahead[h] \subseteq R /\ R \subseteq BodyHashes
        BY <3>2
      <4> HIDE DEF R
      <4>2. IsFiniteSet(R) /\ IsFiniteSet(ahead[h]) /\ Cardinality(ahead[h]) <= Cardinality(R)
        BY <4>1, BodiesAssumption, FS_Subset
      <4>3. IsFiniteSet(R) /\ Cardinality(R) \in Nat /\ Cardinality(ahead[h]) \in Nat
        BY <4>2, FS_CardinalityType
      <4> QED
        BY <4>2, <4>3 DEF R
    <3>4. MAX_ASK_NON_FULL_IN_ONE_GO * skipped[h] \in Nat
      BY <3>1, RetryTime, LimitAssumption
    <3>5. Cardinality(ahead'[h]) >= MAX_ASK_NON_FULL_IN_ONE_GO * skipped'[h]
      BY <3>1, <3>2, <3>3, <3>4
    <3>6. ~(skipped'[h] < RetryPasses)
      BY <3>1, RetryTime
    <3> QED
      BY <3>5, <3>6 DEF WaitInv
  <2> QED
    BY <2>1, <2>2, <2>3
<1> QED
  BY <1>7, <1>8 DEF StarvationInv

\* Every step keeps the invariant.
LEMMA QueueNextInv == StarvationInv /\ [QueueNext]_askVars => StarvationInv'
<1> SUFFICES ASSUME StarvationInv, [QueueNext]_askVars PROVE StarvationInv'
  OBVIOUS
<1>1. ASSUME NEW new \in SUBSET BodyHashes, Arrive(new) PROVE StarvationInv'
  BY <1>1, ArriveInv
<1>2. ASSUME NEW h \in BodyHashes, SetBlockFull(h) PROVE StarvationInv'
  BY <1>2, SetBlockFullInv
<1>3. ASSUME NEW gap \in Gaps, GetNonFullBlocks(gap) PROVE StarvationInv'
  BY <1>3, GetNonFullBlocksInv
<1>4. CASE UNCHANGED askVars
  BY <1>4 DEF askVars, StarvationInv, QueueTypeOK, Queue
<1> QED
  BY <1>1, <1>2, <1>3, <1>4 DEF QueueNext

\* get_non_full_blocks leaves a due block out in RetryPasses passes in a row only
\* if the bodies of as many blocks of smaller hashes as these passes can ask for
\* were missing in these passes; so a block waits long only behind that many,
\* and it may wait for ever if smaller hashes keep arriving.
THEOREM NoStarvation == QueueSpec => []NoneStarves
<1>1. StarvationInv => NoneStarves
  <2> SUFFICES ASSUME StarvationInv, NEW h \in Queue,
                      Cardinality(ahead[h]) < MAX_ASK_NON_FULL_IN_ONE_GO * RetryPasses
               PROVE  skipped[h] < RetryPasses
    BY DEF StarvationInv, NoneStarves
  <2>1. /\ ahead[h] \in SUBSET BodyHashes /\ skipped[h] \in 0 .. RetryPasses
        /\ Cardinality(ahead[h]) >= MAX_ASK_NON_FULL_IN_ONE_GO * skipped[h]
    BY DEF StarvationInv, QueueTypeOK, WaitInv
  <2>2. Cardinality(ahead[h]) \in Nat
    BY <2>1, ServedFinite
  <2>3. skipped[h] # RetryPasses
    BY <2>1, <2>2, RetryTime, LimitAssumption
  <2> QED
    BY <2>1, <2>3, RetryTime
<1> QED
  BY <1>1, QueueInitInv, QueueNextInv, PTL DEF QueueSpec

------------------------------------------------------------------------------
(* process_buffer *)

\* The bytes of message k, and all messages up to the last, of a stream s.
TextOf(s, k) == [i \in 1 .. s[k].len |-> [msg |-> k, pos |-> i]]
SentOf(s) ==
    CHOOSE g : g = [k \in 0 .. MAX_MSGS |-> IF k = 0 THEN <<>>
                                            ELSE g[k - 1] \o TextOf(s, k)]

\* What is sent, now and after a step, is a function of the stream.
LEMMA SentIs == Sent = SentOf(stream) /\ Sent' = SentOf(stream')
<1>1. Sent = SentOf(stream)
  BY Zenon DEF Sent, SentOf, Text, TextOf
<1>2. Sent' = SentOf(stream')
  BY Zenon DEF Sent, SentOf, Text, TextOf
<1> QED  BY <1>1, <1>2

\* A message takes as many bytes as it is long, each with its place in it.
LEMMA TextFacts ==
  ASSUME NEW s \in [1 .. MAX_MSGS -> Message], NEW k \in 1 .. MAX_MSGS
  PROVE  /\ s[k].len \in 2 .. MAX_LEN
         /\ TextOf(s, k) \in Seq(Byte) /\ Len(TextOf(s, k)) = s[k].len
         /\ \A i \in 1 .. s[k].len : TextOf(s, k)[i] = [msg |-> k, pos |-> i]
<1>1. s[k].len \in 2 .. MAX_LEN
  BY FramingBounds DEF Message
<1>2. \A i \in 1 .. s[k].len : [msg |-> k, pos |-> i] \in Byte
  BY <1>1, FramingBounds DEF Byte
<1> HIDE DEF Byte
<1>3. TextOf(s, k) \in Seq(Byte) /\ Len(TextOf(s, k)) = s[k].len
  BY <1>1, <1>2 DEF TextOf
<1> QED
  BY <1>1, <1>3 DEF TextOf

\* What is sent satisfies the equation of its definition: every message is
\* put behind the ones before it.
LEMMA SentFacts ==
  ASSUME NEW s \in [1 .. MAX_MSGS -> Message]
  PROVE  /\ SentOf(s)[0] = <<>>
         /\ \A k \in 1 .. MAX_MSGS : SentOf(s)[k] = SentOf(s)[k - 1] \o TextOf(s, k)
         /\ \A k \in 0 .. MAX_MSGS : SentOf(s)[k] \in Seq(Byte)
<1> DEFINE S == Seq(Byte)
           N == MAX_MSGS
           T(k) == TextOf(s, k)
           f == [k \in 1 .. N |-> [x \in S |-> x \o T(k)]]
           R(w) == [k \in 0 .. N |-> IF k = 0 THEN <<>> ELSE w[k - 1] \o T(k)]
<1>1. N \in Nat
  BY FramingBounds
<1>2. ASSUME NEW k \in 1 .. N, NEW x \in S PROVE x \o T(k) \in S
  <2>1. T(k) \in S
    BY TextFacts
  <2> HIDE DEF T
  <2> QED
    BY <2>1
<1> HIDE DEF N, T, Byte
<1>3. f \in [1 .. N -> [S -> S]]
  BY <1>2
<1>4. \A k \in 1 .. N : \A x \in S : f[k][x] = x \o T(k)
  OBVIOUS
<1> DEFINE none == <<>>
<1>5. none \in S
  OBVIOUS
<1> HIDE DEF f, S, none
<1>6. PICK g : Recurs(N, S, none, f, g)
  BY <1>1, <1>3, <1>5, BoundedRecursion
<1> USE DEF Recurs
<1>7. \A k \in 0 .. N : g[k] = IF k = 0 THEN <<>> ELSE g[k - 1] \o T(k)
  <2>0. g[0] = <<>>
    BY <1>6 DEF none
  <2> SUFFICES ASSUME NEW k \in 0 .. N, k # 0 PROVE g[k] = g[k - 1] \o T(k)
    BY <2>0
  <2>1. k \in 1 .. N /\ k - 1 \in 0 .. N
    BY <1>1
  <2> QED
    BY <1>4, <1>6, <2>1
<1>8. g = R(g)
  BY <1>6, <1>7
<1> DEFINE w == CHOOSE v : v = R(v)
<1>9. SentOf(s) = w
  BY Zenon DEF SentOf, N, T
<1>10. w = R(w)
  BY <1>8, Zenon
<1> HIDE DEF w
<1>11. w[0] = <<>> /\ \A k \in 1 .. N : w[k] = w[k - 1] \o T(k)
  <2>1. 0 \in 0 .. N /\ \A k \in 1 .. N : k \in 0 .. N /\ k # 0
    BY <1>1
  <2>2. w[0] = R(w)[0] /\ \A k \in 1 .. N : w[k] = R(w)[k]
    BY <1>10, Zenon
  <2>3. R(w)[0] = <<>>
    BY <2>1
  <2>4. ASSUME NEW k \in 1 .. N PROVE R(w)[k] = w[k - 1] \o T(k)
    BY <2>1
  <2> QED
    BY <2>2, <2>3, <2>4, Zenon
<1> DEFINE A == {k \in 0 .. N : w[k] \in S}
<1>12. 0 \in A
  BY <1>1, <1>5, <1>11 DEF none
<1>13. \A k \in 0 .. N - 1 : k \in A => k + 1 \in A
  <2> SUFFICES ASSUME NEW k \in 0 .. N - 1, w[k] \in S PROVE k + 1 \in 0 .. N /\ w[k + 1] \in S
    OBVIOUS
  <2>1. k + 1 \in 1 .. N /\ (k + 1) - 1 = k /\ k + 1 \in 0 .. N
    BY <1>1
  <2>2. w[k + 1] = w[k] \o T(k + 1)
    BY <1>11, <2>1
  <2> QED
    BY <1>2, <2>1, <2>2
<1> HIDE DEF A
<1>14. \A k \in 0 .. N : k \in A
  BY <1>1, <1>12, <1>13, InductionUpto
<1> QED
  BY <1>9, <1>11, <1>14 DEF A, N, T, S

\* Where message k starts on the wire of s: the bytes before it.
StartOf(s, k) == Len(SentOf(s)[k - 1])

\* The layout of the wire: message k has the bytes StartOf(s, k) + 1 to
\* StartOf(s, k + 1), in order, and every byte belongs to a message.
LEMMA Layout ==
  ASSUME NEW s \in [1 .. MAX_MSGS -> Message]
  PROVE  /\ SentOf(s)[MAX_MSGS] \in Seq(Byte)
         /\ \A k \in 1 .. MAX_MSGS + 1 : StartOf(s, k) \in Nat
         /\ StartOf(s, 1) = 0 /\ StartOf(s, MAX_MSGS + 1) = Len(SentOf(s)[MAX_MSGS])
         /\ \A k \in 1 .. MAX_MSGS : StartOf(s, k + 1) = StartOf(s, k) + s[k].len
         /\ \A k, q \in 1 .. MAX_MSGS + 1 : k <= q => StartOf(s, k) <= StartOf(s, q)
         /\ \A k \in 1 .. MAX_MSGS : \A i \in 1 .. s[k].len :
                SentOf(s)[MAX_MSGS][StartOf(s, k) + i] = [msg |-> k, pos |-> i]
         /\ \A p \in 1 .. Len(SentOf(s)[MAX_MSGS]) :
                \E k \in 1 .. MAX_MSGS : p \in StartOf(s, k) + 1 .. StartOf(s, k + 1)
<1> DEFINE N == MAX_MSGS
           w == SentOf(s)
           T(k) == TextOf(s, k)
           len(k) == s[k].len
<1>1. N \in Nat /\ N >= 1
  BY FramingBounds
<1>2. \A k \in 1 .. N : /\ T(k) \in Seq(Byte) /\ len(k) \in Nat /\ len(k) >= 2
                        /\ Len(T(k)) = len(k)
                        /\ \A i \in 1 .. len(k) : T(k)[i] = [msg |-> k, pos |-> i]
  BY TextFacts, FramingBounds
<1>3. /\ w[0] = <<>> /\ \A k \in 1 .. N : w[k] = w[k - 1] \o T(k)
      /\ \A k \in 0 .. N : w[k] \in Seq(Byte)
  BY SentFacts
<1> HIDE DEF N, w, T, len, Byte
<1>4. \A k \in 0 .. N : Len(w[k]) \in Nat
  BY <1>3
<1>5. Len(w[0]) = 0
  BY <1>3
<1>6. ASSUME NEW k \in 1 .. N
      PROVE  /\ Len(w[k]) = Len(w[k - 1]) + len(k)
             /\ \A p \in 1 .. Len(w[k - 1]) : w[k][p] = w[k - 1][p]
             /\ \A i \in 1 .. len(k) : w[k][Len(w[k - 1]) + i] = [msg |-> k, pos |-> i]
  <2>1. k - 1 \in 0 .. N /\ k \in 0 .. N
    BY <1>1
  <2> DEFINE x == w[k - 1]
             y == T(k)
  <2>2. x \in Seq(Byte) /\ y \in Seq(Byte) /\ w[k] = x \o y /\ Len(y) = len(k) /\ len(k) \in Nat
    BY <1>2, <1>3, <2>1
  <2>3. \A i \in 1 .. len(k) : y[i] = [msg |-> k, pos |-> i]
    BY <1>2
  <2> HIDE DEF x, y
  <2>4. /\ Len(x \o y) = Len(x) + Len(y) /\ Len(x) \in Nat
        /\ \A i \in 1 .. Len(x) + Len(y) :
              (x \o y)[i] = IF i <= Len(x) THEN x[i] ELSE y[i - Len(x)]
    BY <2>2, ConcatProperties, LenProperties
  <2>5. \A p \in 1 .. Len(x) : w[k][p] = x[p]
    BY <2>2, <2>4
  <2>6. \A i \in 1 .. len(k) : w[k][Len(x) + i] = y[i]
    BY <2>2, <2>4
  <2> QED
    BY <2>2, <2>3, <2>4, <2>5, <2>6 DEF x
\* What the first j messages are is the beginning of the wire.
<1> DEFINE Good(j) ==
             /\ \A k \in 0 .. j : Len(w[k]) <= Len(w[j])
             /\ \A k \in 1 .. j : \A i \in 1 .. len(k) :
                   w[j][Len(w[k - 1]) + i] = [msg |-> k, pos |-> i]
             /\ \A p \in 1 .. Len(w[j]) :
                   \E k \in 1 .. j : p \in Len(w[k - 1]) + 1 .. Len(w[k])
           A == {j \in 0 .. N : Good(j)}
<1>7. 0 \in A
  BY <1>1, <1>5
<1>8. ASSUME NEW j \in 0 .. N - 1, j \in A PROVE j + 1 \in A
  <2> DEFINE k1 == j + 1
  <2>1. k1 \in 1 .. N /\ k1 \in 0 .. N /\ k1 - 1 = j /\ j \in 0 .. N /\ j \in Nat
    BY <1>1
  <2>2. /\ Len(w[k1]) = Len(w[j]) + len(k1)
        /\ \A p \in 1 .. Len(w[j]) : w[k1][p] = w[j][p]
        /\ \A i \in 1 .. len(k1) : w[k1][Len(w[j]) + i] = [msg |-> k1, pos |-> i]
    BY <1>6, <2>1
  <2>3. len(k1) \in Nat /\ Len(w[j]) \in Nat /\ Len(w[k1]) \in Nat
    BY <1>2, <1>4, <2>1
  <2>4. Good(j)
    BY <1>8
  <2>5. ASSUME NEW k \in 0 .. k1 PROVE Len(w[k]) <= Len(w[k1])
    <3>1. CASE k = k1
      BY <2>3, <3>1
    <3>2. CASE k # k1
      <4> HIDE DEF A, Good
      <4>1. k \in 0 .. j /\ k \in 0 .. N
        <5>1. k \in Int /\ 0 <= k /\ k <= j + 1 /\ k # j + 1 /\ j \in Int /\ j <= N - 1
          BY <1>1, <2>1, <3>2
        <5> HIDE DEF k1
        <5> QED
          BY <1>1, <5>1
      <4>2. Len(w[k]) <= Len(w[j])
        BY <2>4, <4>1 DEF Good
      <4>3. Len(w[k]) \in Nat /\ Len(w[k1]) = Len(w[j]) + len(k1)
        BY <1>4, <2>2, <4>1
      <4> QED
        BY <2>3, <4>2, <4>3
    <3> QED
      BY <3>1, <3>2
  <2>6. ASSUME NEW k \in 1 .. k1, NEW i \in 1 .. len(k)
        PROVE  w[k1][Len(w[k - 1]) + i] = [msg |-> k, pos |-> i]
    <3>1. CASE k = k1
      BY <2>1, <2>2, <3>1
    <3>2. CASE k # k1
      <4>1. k \in 1 .. j /\ k \in 1 .. N /\ k \in 0 .. N /\ k - 1 \in 0 .. N /\ k \in 0 .. j
        BY <1>1, <2>1, <3>2
      <4>2. Len(w[k]) = Len(w[k - 1]) + len(k) /\ Len(w[k]) <= Len(w[j])
        BY <1>6, <2>4, <4>1
      <4>3. Len(w[k - 1]) \in Nat /\ len(k) \in Nat
        BY <1>2, <1>4, <4>1
      <4>4. Len(w[k - 1]) + i \in 1 .. Len(w[j])
        BY <2>3, <4>2, <4>3
      <4> QED
        BY <2>2, <2>4, <4>1, <4>4
    <3> QED
      BY <3>1, <3>2
  <2>7. ASSUME NEW p \in 1 .. Len(w[k1])
        PROVE  \E k \in 1 .. k1 : p \in Len(w[k - 1]) + 1 .. Len(w[k])
    <3>1. CASE p <= Len(w[j])
      <4>0. p \in 1 .. Len(w[j])
        BY <2>3, <3>1
      <4>1. PICK k \in 1 .. j : p \in Len(w[k - 1]) + 1 .. Len(w[k])
        <5>1. \A q \in 1 .. Len(w[j]) : \E k \in 1 .. j : q \in Len(w[k - 1]) + 1 .. Len(w[k])
          BY <2>4
        <5> HIDE DEF Good, A
        <5> QED
          BY <4>0, <5>1, Zenon
      <4>2. k \in 1 .. k1
        BY <2>1
      <4> QED
        BY <4>1, <4>2
    <3>2. CASE p > Len(w[j])
      <4>1. p \in Len(w[k1 - 1]) + 1 .. Len(w[k1]) /\ k1 \in 1 .. k1
        BY <2>1, <2>3, <3>2
      <4> QED
        BY <4>1
    <3> QED
      BY <2>3, <3>1, <3>2
  <2> HIDE DEF k1
  <2> QED
    BY <2>1, <2>5, <2>6, <2>7 DEF k1
<1> HIDE DEF A
<1>9. \A j \in 0 .. N : j \in A
  BY <1>1, <1>7, <1>8, InductionUpto
<1>10. ASSUME NEW j \in 0 .. N PROVE Good(j)
  BY <1>9 DEF A
<1> HIDE DEF Good
<1>11. Good(N)
  BY <1>1, <1>10
<1>12. \A k \in 1 .. N + 1 : StartOf(s, k) = Len(w[k - 1]) /\ StartOf(s, k) \in Nat
  <2> TAKE k \in 1 .. N + 1
  <2>1. k - 1 \in 0 .. N
    BY <1>1
  <2> QED
    BY <1>4, <2>1 DEF StartOf, w
<1>13. \A k \in 1 .. N : StartOf(s, k + 1) = Len(w[k])
  <2> TAKE k \in 1 .. N
  <2>1. (k + 1) - 1 = k /\ k + 1 \in 1 .. N + 1
    BY <1>1
  <2> QED
    BY <1>12, <2>1
<1>14. StartOf(s, 1) = 0 /\ StartOf(s, N + 1) = Len(w[N])
  <2>1. 1 - 1 = 0 /\ (N + 1) - 1 = N
    BY <1>1
  <2> QED
    BY <1>5, <2>1 DEF StartOf, w
<1>15. \A k \in 1 .. N : StartOf(s, k + 1) = StartOf(s, k) + len(k)
  <2> TAKE k \in 1 .. N
  <2>1. k \in 1 .. N + 1
    BY <1>1
  <2>2. StartOf(s, k) = Len(w[k - 1]) /\ StartOf(s, k + 1) = Len(w[k])
    BY <1>12, <1>13, <2>1
  <2>3. Len(w[k]) = Len(w[k - 1]) + len(k)
    BY <1>6
  <2> QED
    BY <2>2, <2>3
<1>16. ASSUME NEW k \in 1 .. N + 1, NEW q \in 1 .. N + 1, k <= q
       PROVE  StartOf(s, k) <= StartOf(s, q)
  <2>1. q - 1 \in 0 .. N /\ k - 1 \in 0 .. q - 1
    BY <1>1, <1>16
  <2> QED
    BY <1>10, <1>12, <2>1 DEF Good
<1>17. \A k \in 1 .. N : \A i \in 1 .. len(k) :
          w[N][StartOf(s, k) + i] = [msg |-> k, pos |-> i]
  <2> TAKE k \in 1 .. N
  <2>1. StartOf(s, k) = Len(w[k - 1])
    BY <1>1, <1>12
  <2>2. \A i \in 1 .. len(k) : w[N][Len(w[k - 1]) + i] = [msg |-> k, pos |-> i]
    BY <1>11 DEF Good
  <2> QED
    BY <2>1, <2>2
<1>18. \A p \in 1 .. Len(w[N]) :
          \E k \in 1 .. N : p \in StartOf(s, k) + 1 .. StartOf(s, k + 1)
  <2> TAKE p \in 1 .. Len(w[N])
  <2>1. PICK k \in 1 .. N : p \in Len(w[k - 1]) + 1 .. Len(w[k])
    BY <1>11 DEF Good
  <2>2. StartOf(s, k) = Len(w[k - 1]) /\ StartOf(s, k + 1) = Len(w[k])
    BY <1>1, <1>12, <1>13
  <2> QED
    BY <2>1, <2>2
<1>19. w[N] \in Seq(Byte)
  BY <1>1, <1>3
<1> QED
  BY <1>12, <1>14, <1>15, <1>16, <1>17, <1>18, <1>19 DEF N, w, len

\* Where message k starts on the wire of this session.
Start(k) == StartOf(stream, k)

\* The stream is one of messages.
Streams == stream \in [1 .. MAX_MSGS -> Message]

\* The layout of what the peer of this session sends.
LEMMA WireLayout ==
  ASSUME Streams
  PROVE  /\ Wire \in Seq(Byte) /\ Len(Wire) \in Nat
         /\ \A k \in 1 .. MAX_MSGS + 1 : Start(k) \in Nat
         /\ Start(1) = 0 /\ Start(MAX_MSGS + 1) = Len(Wire)
         /\ \A k \in 1 .. MAX_MSGS : /\ Start(k + 1) = Start(k) + stream[k].len
                                     /\ stream[k].len \in Nat /\ stream[k].len >= 2
         /\ \A k, q \in 1 .. MAX_MSGS + 1 : k <= q => Start(k) <= Start(q)
         /\ \A k \in 1 .. MAX_MSGS : \A i \in 1 .. stream[k].len :
                Wire[Start(k) + i] = [msg |-> k, pos |-> i]
         /\ \A p \in 1 .. Len(Wire) :
                \E k \in 1 .. MAX_MSGS : p \in Start(k) + 1 .. Start(k + 1)
<1>1. Wire = SentOf(stream)[MAX_MSGS]
  BY SentIs DEF Wire
<1>2. \A k \in 1 .. MAX_MSGS : stream[k].len \in Nat /\ stream[k].len >= 2
  BY TextFacts, FramingBounds DEF Streams
<1>3. Len(Wire) \in Nat
  BY <1>1, Layout, LenProperties DEF Streams
<1> QED
  BY <1>1, <1>2, <1>3, Layout DEF Start, Streams

\* The byte at any place of message q.
LEMMA ByteAt ==
  ASSUME Streams, NEW q \in 1 .. MAX_MSGS, NEW p \in Start(q) + 1 .. Start(q + 1)
  PROVE  /\ Wire[p].msg = q /\ Wire[p].pos = p - Start(q)
         /\ IsHash(Wire[p]) <=> p = Start(q) + 1
         /\ IsBang(Wire[p]) <=> p = Start(q + 1)
<1>1. /\ Start(q) \in Nat /\ stream[q].len \in Nat /\ Start(q + 1) = Start(q) + stream[q].len
      /\ \A i \in 1 .. stream[q].len : Wire[Start(q) + i] = [msg |-> q, pos |-> i]
  <2>1. q \in 1 .. MAX_MSGS + 1
    BY FramingBounds
  <2> QED
    BY <2>1, WireLayout
<1> DEFINE i == p - Start(q)
<1>2. i \in 1 .. stream[q].len /\ p = Start(q) + i
  BY <1>1
<1> HIDE DEF i
<1>3. Wire[p] = [msg |-> q, pos |-> i]
  BY <1>1, <1>2
<1>4. Wire[p].msg = q /\ Wire[p].pos = i
  BY <1>3
<1> QED
  BY <1>1, <1>2, <1>4 DEF IsHash, IsBang

\* The buffer: the bytes from the beginning of message k to the last received.
Buffer(k, b) == SubSeq(Wire, Start(k) + 1, b)

\* The bytes of the buffer, by their places on the wire.
LEMMA BufferFacts ==
  ASSUME Streams, NEW k \in 1 .. MAX_MSGS + 1, NEW b \in Start(k) .. Len(Wire)
  PROVE  /\ Buffer(k, b) \in Seq(Byte) /\ Len(Buffer(k, b)) = b - Start(k)
         /\ \A i \in 1 .. b - Start(k) : Buffer(k, b)[i] = Wire[Start(k) + i]
<1> DEFINE from == Start(k) + 1
<1>1. Wire \in Seq(Byte) /\ Len(Wire) \in Nat /\ Start(k) \in Nat
  BY WireLayout
<1>2. from \in Int /\ b \in Int /\ from >= 1
  BY <1>1
<1> HIDE DEF Byte
<1>3. \A i \in from .. b : Wire[i] \in Byte
  BY <1>1, <1>2, ElementOfSeq
<1>4. /\ SubSeq(Wire, from, b) \in Seq(Byte)
      /\ Len(SubSeq(Wire, from, b)) = IF from <= b THEN (b - from) + 1 ELSE 0
      /\ \A i \in 1 .. (b - from) + 1 : SubSeq(Wire, from, b)[i] = Wire[(from + i) - 1]
  <2> HIDE DEF from
  <2> QED
    BY <1>2, <1>3, SubSeqProperties
<1>5. (b - from) + 1 = b - Start(k)
  BY <1>1
<1>6. \A i \in 1 .. b - Start(k) : (from + i) - 1 = Start(k) + i
  BY <1>1
<1> QED
  BY <1>1, <1>4, <1>5, <1>6 DEF Buffer

\* Where a message of the buffer ends, and whether it is complete.
LEMMA NextHashIs ==
  ASSUME Streams, NEW k \in 1 .. MAX_MSGS, NEW q \in k .. MAX_MSGS,
         NEW b \in Start(k) .. Len(Wire), Start(q) < b
  PROVE  LET m    == Buffer(k, b)
             at   == Start(q) - Start(k) + 1
             next == NextHash(m, at)
         IN  /\ at \in 1 .. Len(m) /\ m[at].msg = q
             /\ next = IF b <= Start(q + 1) THEN Len(m) + 1 ELSE Start(q + 1) - Start(k) + 1
             /\ IsBang(m[next - 1]) <=> b >= Start(q + 1)
<1> DEFINE m    == Buffer(k, b)
           at   == Start(q) - Start(k) + 1
           next == NextHash(m, at)
           len  == b - Start(k)
           want == IF b <= Start(q + 1) THEN len + 1 ELSE Start(q + 1) - Start(k) + 1
<1>1. /\ Start(k) \in Nat /\ Start(q) \in Nat /\ Start(q + 1) \in Nat
      /\ Start(k) <= Start(q) /\ Start(q + 1) >= Start(q) + 2 /\ Len(Wire) \in Nat
      /\ q \in 1 .. MAX_MSGS
  <2>1. /\ k \in 1 .. MAX_MSGS + 1 /\ q \in 1 .. MAX_MSGS + 1 /\ q + 1 \in 1 .. MAX_MSGS + 1
        /\ q \in 1 .. MAX_MSGS /\ k <= q
    BY FramingBounds
  <2>2. /\ Start(q + 1) = Start(q) + stream[q].len
        /\ stream[q].len \in Nat /\ stream[q].len >= 2
    BY <2>1, WireLayout
  <2>3. Start(k) \in Nat /\ Start(q) \in Nat /\ Start(q + 1) \in Nat /\ Len(Wire) \in Nat
    BY <2>1, WireLayout
  <2>4. Start(k) <= Start(q)
    BY <2>1, WireLayout
  <2> QED
    BY <2>1, <2>2, <2>3, <2>4
<1>2. /\ Len(m) = len
      /\ \A i \in 1 .. len : m[i] = Wire[Start(k) + i]
  <2>1. k \in 1 .. MAX_MSGS + 1
    BY FramingBounds
  <2> QED
    BY <2>1, BufferFacts
<1> HIDE DEF m
<1>3. at \in 1 .. len /\ m[at].msg = q
  <2>1. at \in 1 .. len /\ Start(k) + at = Start(q) + 1 /\ Start(q) + 1 \in Start(q) + 1 .. Start(q + 1)
    BY <1>1
  <2>2. Wire[Start(q) + 1].msg = q
    BY <1>1, <2>1, ByteAt
  <2> QED
    BY <1>2, <2>1, <2>2
<1> DEFINE P(i) == /\ i = Len(m) + 1 \/ IsHash(m[i])
                   /\ \A j \in at + 1 .. i - 1 : ~IsHash(m[j])
<1>0. b \in Int /\ Start(k) <= b /\ at \in Int /\ len \in Int /\ len + 1 \in Int
  BY <1>1
<1>01. want \in Int
  BY <1>0, <1>1
<1>4. want \in at + 1 .. len + 1
  BY <1>1
<1>5. P(want)
  <2>1. ASSUME want # len + 1 PROVE IsHash(m[want])
    <3>1. b > Start(q + 1) /\ want = Start(q + 1) - Start(k) + 1 /\ want \in 1 .. len
      BY <1>1, <2>1
    <3>2. q + 1 \in 1 .. MAX_MSGS
      <4>1. q + 1 # MAX_MSGS + 1
        BY <3>1, <1>1, WireLayout
      <4> QED
        BY <4>1, FramingBounds
    <3>3. Start(q + 1) + 1 \in Start(q + 1) + 1 .. Start((q + 1) + 1)
      <4>1. /\ Start((q + 1) + 1) = Start(q + 1) + stream[q + 1].len
            /\ stream[q + 1].len \in Nat /\ stream[q + 1].len >= 2
        BY <3>2, WireLayout
      <4> QED
        BY <1>1, <4>1
    <3>4. IsHash(Wire[Start(q + 1) + 1])
      BY <3>2, <3>3, ByteAt
    <3>5. Start(k) + want = Start(q + 1) + 1
      BY <1>1, <3>1
    <3> QED
      BY <1>2, <3>1, <3>4, <3>5
  <2>2. ASSUME NEW j \in at + 1 .. want - 1 PROVE ~IsHash(m[j])
    <3>0. j \in Int /\ b \in Int /\ at + 1 <= j /\ j <= want - 1
      <4> HIDE DEF at, want
      <4> QED
        BY <1>0, <1>01
    <3>a. j <= len /\ j <= Start(q + 1) - Start(k)
      <4>1. want <= len + 1 /\ want <= Start(q + 1) - Start(k) + 1
        BY <1>1
      <4>2. len \in Int /\ Start(q + 1) - Start(k) \in Int
        BY <1>1
      <4> HIDE DEF len, want
      <4> QED
        BY <1>01, <3>0, <4>1, <4>2
    <3>b. j >= 2 /\ j >= Start(q) - Start(k) + 2
      <4> HIDE DEF want, len
      <4> QED
        BY <1>1, <3>0
    <3>c. j \in 1 .. len
      <4> HIDE DEF want, at
      <4> QED
        BY <1>0, <3>0, <3>a, <3>b
    <3>1. j \in 1 .. len /\ Start(k) + j \in Start(q) + 1 .. Start(q + 1)
          /\ Start(k) + j # Start(q) + 1
      <4> HIDE DEF want, at, len
      <4> QED
        BY <1>1, <3>0, <3>a, <3>b, <3>c
    <3>2. ~IsHash(Wire[Start(k) + j])
      BY <1>1, <3>1, ByteAt
    <3> QED
      BY <1>2, <3>1, <3>2
  <2> QED
    BY <1>2, <2>1, <2>2
<1> HIDE DEF at, want, len
<1>6. next = CHOOSE i \in at + 1 .. len + 1 : P(i)
  BY <1>2 DEF NextHash
<1>7. next \in at + 1 .. len + 1 /\ P(next)
  BY <1>4, <1>5, <1>6
<1>8. next = want
  <2> HIDE DEF next
  <2>1. at \in Int /\ len \in Int
    BY <1>1 DEF at, len
  <2>2. ~(want < next) /\ ~(next < want)
    BY <1>2, <1>4, <1>5, <1>7, <2>1
  <2> QED
    BY <1>4, <1>7, <2>1, <2>2
<1>9. IsBang(m[want - 1]) <=> b >= Start(q + 1)
  <2>1. /\ want - 1 \in 1 .. len
        /\ Start(k) + (want - 1) \in Start(q) + 1 .. Start(q + 1)
        /\ (Start(k) + (want - 1) = Start(q + 1)) <=> b >= Start(q + 1)
    <3>1. CASE b <= Start(q + 1)
      <4>1. want = (b - Start(k)) + 1
        BY <3>1 DEF want, len
      <4> QED
        BY <1>1, <3>1, <4>1 DEF len
    <3>2. CASE ~(b <= Start(q + 1))
      <4>1. want = Start(q + 1) - Start(k) + 1
        BY <3>2 DEF want
      <4> QED
        BY <1>1, <3>2, <4>1 DEF len
    <3> QED
      BY <3>1, <3>2
  <2>2. m[want - 1] = Wire[Start(k) + (want - 1)]
    BY <1>2, <2>1
  <2>3. IsBang(Wire[Start(k) + (want - 1)]) <=> b >= Start(q + 1)
    <3> DEFINE pp == Start(k) + (want - 1)
    <3>1. pp \in Start(q) + 1 .. Start(q + 1) /\ (pp = Start(q + 1) <=> b >= Start(q + 1))
      BY <2>1
    <3> HIDE DEF pp
    <3>2. IsBang(Wire[pp]) <=> b >= Start(q + 1)
      BY <1>1, <3>1, ByteAt
    <3> QED
      BY <3>2 DEF pp
  <2> QED
    BY <2>2, <2>3
<1> QED
  BY <1>2, <1>3, <1>8, <1>9 DEF m, at, want, len

M == 1 .. MAX_MSGS

\* What a history of handled messages keeps to, while the messages before q are
\* done: its order, nothing after q, and nothing before q forgotten.
Ordered(s, H) ==
    \A i, j \in DOMAIN H :
        i < j => \/ H[i] < H[j]
                 \/ H[i] = H[j] /\ j = i + 1 /\ s[H[i]].kind = "short"
Covered(s, H, c) ==
    \E i \in DOMAIN H :
        \/ H[i] = c
        \/ H[i] < c /\ s[H[i]].key = s[c].key /\ s[c].key # NoKey
Upto(s, H, q) ==
    /\ Ordered(s, H)
    /\ \A i \in DOMAIN H : H[i] <= q
    /\ \A c \in M : c < q /\ s[c].kind # "bad" => Covered(s, H, c)
\* Message q was handled at most once, as the last, and only if it was complete
\* with byte b and is kept.
Kept(s, H, q, b) ==
    \A i \in DOMAIN H :
        H[i] = q => i = Len(H) /\ s[q].kind = "short" /\ b = StartOf(s, q + 1)

\* A message handed over at the end of a history keeps what the history shows.
LEMMA AppendMessage ==
  ASSUME NEW H \in Seq(M), NEW q \in M, Ordered(stream, H), \A i \in DOMAIN H : H[i] <= q,
         \A i \in DOMAIN H : H[i] = q => i = Len(H) /\ stream[q].kind = "short"
  PROVE  LET L == Append(H, q)
         IN  /\ L \in Seq(M) /\ Len(L) = Len(H) + 1 /\ L[Len(L)] = q
             /\ \A i \in DOMAIN H : i \in DOMAIN L /\ L[i] = H[i]
             /\ \A i \in DOMAIN L : i = Len(L) \/ i \in DOMAIN H
             /\ Ordered(stream, L) /\ \A i \in DOMAIN L : L[i] <= q
             /\ Covered(stream, L, q) /\ \A c : Covered(stream, H, c) => Covered(stream, L, c)
<1> DEFINE L == Append(H, q)
<1> HIDE DEF M
<1>1. /\ L \in Seq(M) /\ Len(L) = Len(H) + 1 /\ Len(H) \in Nat
      /\ \A i \in 1 .. Len(H) : L[i] = H[i]
      /\ L[Len(H) + 1] = q
      /\ DOMAIN L = 1 .. Len(L) /\ DOMAIN H = 1 .. Len(H)
  BY AppendProperties, LenProperties
<1> HIDE DEF L
<1>2. \A i \in DOMAIN H : i \in DOMAIN L /\ L[i] = H[i]
  BY <1>1
<1>3. \A i \in DOMAIN L : i = Len(L) \/ i \in DOMAIN H
  BY <1>1
<1>4. q \in Int /\ \A i \in DOMAIN H : H[i] \in Int
  <2>1. \A i \in DOMAIN H : H[i] \in M
    BY <1>1, ElementOfSeq
  <2> QED
    BY <2>1 DEF M
<1>5. \A i \in DOMAIN L : L[i] <= q
  BY <1>1, <1>2, <1>3, <1>4
<1>6. Ordered(stream, L)
  <2> SUFFICES ASSUME NEW i \in DOMAIN L, NEW j \in DOMAIN L, i < j
               PROVE  \/ L[i] < L[j]
                      \/ L[i] = L[j] /\ j = i + 1 /\ stream[L[i]].kind = "short"
    BY DEF Ordered
  <2>1. i \in DOMAIN H /\ L[i] = H[i]
    BY <1>1
  <2>2. CASE j \in DOMAIN H
    BY <1>2, <2>1, <2>2 DEF Ordered
  <2>3. CASE j = Len(L)
    <3>1. L[j] = q
      BY <1>1, <2>3
    <3>2. CASE H[i] = q
      <4>1. i = Len(H) /\ stream[q].kind = "short"
        BY <2>1, <3>2
      <4> QED
        BY <1>1, <2>1, <2>3, <3>1, <3>2, <4>1
    <3>3. CASE H[i] # q
      BY <1>4, <2>1, <3>1, <3>3
    <3> QED
      BY <3>2, <3>3
  <2> QED
    BY <1>3, <2>2, <2>3
<1>7. Covered(stream, L, q)
  BY <1>1 DEF Covered
<1>8. \A c : Covered(stream, H, c) => Covered(stream, L, c)
  BY <1>2 DEF Covered
<1> QED
  BY <1>1, <1>2, <1>3, <1>5, <1>6, <1>7, <1>8 DEF L

\* Handing over one more message in a loop, after what the loop handed over.
LEMMA AppendAfterConcat ==
  ASSUME NEW S, NEW x \in Seq(S), NEW y \in Seq(S), NEW e \in S
  PROVE  x \o Append(y, e) = Append(x \o y, e)
<1>1. /\ x \o y \in Seq(S) /\ Append(y, e) \in Seq(S) /\ <<e>> \in Seq(S)
      /\ Append(y, e) = y \o <<e>>
  BY ConcatProperties, AppendProperties, AppendIsConcat
<1>2. Append(x \o y, e) = (x \o y) \o <<e>>
  BY <1>1, AppendIsConcat
<1>3. (x \o y) \o <<e>> = x \o (y \o <<e>>)
  BY <1>1, ConcatAssociative
<1> QED
  BY <1>1, <1>2, <1>3

\* The inductive invariant of the loop of process_buffer, when a is what the
\* loop has reached, its buffer starts with message k and ends with byte b: the
\* message it is at is q.
LoopInv(passed, out, at, stop, q, k, b) ==
    LET H == handled \o out
    IN  /\ q \in k .. MAX_MSGS + 1
        /\ at = Start(q) - Start(k) + 1 /\ Start(q) <= b
        /\ out \in Seq(M) /\ passed \subseteq Keys
        /\ Upto(stream, H, q)
        /\ \A key \in passed : \E i \in DOMAIN H :
               stream[H[i]].key = key /\ (stop \/ H[i] < q)
        /\ stop => /\ q \in M /\ b <= Start(q + 1) /\ Kept(stream, H, q, b)
                   /\ (b = Start(q + 1) /\ stream[q].kind # "bad" => Covered(stream, H, q))
        /\ ~stop => Kept(stream, H, q, received)

RoundInv(a, q, k, b) ==
    /\ a = [passed |-> a.passed, out |-> a.out, at |-> a.at, stop |-> a.stop]
    /\ a.stop \in BOOLEAN
    /\ LoopInv(a.passed, a.out, a.at, a.stop, q, k, b)

\* The invariant of the loop, from its parts.
LEMMA MakeRoundInv ==
  ASSUME NEW passed, NEW out, NEW at, NEW stop \in BOOLEAN, NEW q, NEW k, NEW b,
         LoopInv(passed, out, at, stop, q, k, b)
  PROVE  RoundInv([passed |-> passed, out |-> out, at |-> at, stop |-> stop], q, k, b)
BY DEF RoundInv

\* Every round of process_buffer's loop keeps its invariant and goes forward or
\* stops (process_buffer.cpp:68-94).
LEMMA RoundKeeps ==
  ASSUME Streams, handled \in Seq(M), received \in Nat, NEW k \in M, Start(k) <= received,
         NEW b \in received + 1 .. Len(Wire),
         NEW a, NEW q, RoundInv(a, q, k, b)
  PROVE  LET m == Buffer(k, b)
             r == Round(m, a)
         IN  /\ \E p : RoundInv(r, p, k, b)
             /\ r.stop \/ r.at > a.at \/ a.at > Len(m)
<1> DEFINE m == Buffer(k, b)
           r == Round(m, a)
           H == handled \o a.out
           next == NextHash(m, a.at)
<1>1. CASE a.stop \/ a.at > Len(m)
  <2>1. r = a
    BY <1>1 DEF Round
  <2> QED
    BY <1>1, <2>1
<1>2. CASE ~a.stop /\ ~(a.at > Len(m))
  <2>1. /\ q \in k .. MAX_MSGS + 1 /\ a.at = Start(q) - Start(k) + 1 /\ Start(q) <= b
        /\ a.out \in Seq(M) /\ a.passed \subseteq Keys
        /\ Upto(stream, H, q) /\ Kept(stream, H, q, received)
        /\ \A key \in a.passed : \E i \in DOMAIN H : stream[H[i]].key = key /\ H[i] < q
    BY <1>2 DEF RoundInv, LoopInv
  <2>2. /\ k \in 1 .. MAX_MSGS /\ k \in 1 .. MAX_MSGS + 1 /\ q \in 1 .. MAX_MSGS + 1
        /\ Start(k) \in Nat /\ Start(q) \in Nat /\ Len(Wire) \in Nat
        /\ Start(MAX_MSGS + 1) = Len(Wire)
        /\ b \in Nat /\ received < b /\ b <= Len(Wire) /\ b \in Start(k) .. Len(Wire)
    <3>1. k \in 1 .. MAX_MSGS /\ k \in 1 .. MAX_MSGS + 1 /\ q \in 1 .. MAX_MSGS + 1
      BY <2>1, FramingBounds DEF M
    <3>2. /\ Start(k) \in Nat /\ Start(q) \in Nat /\ Len(Wire) \in Nat
          /\ Start(MAX_MSGS + 1) = Len(Wire)
      BY <3>1, WireLayout
    <3>3. b \in Nat /\ received < b /\ b <= Len(Wire)
      BY <3>2
    <3> QED
      BY <3>1, <3>2, <3>3
  <2>3. Len(m) = b - Start(k)
    BY <2>2, BufferFacts
  <2>4. Start(q) < b /\ q \in k .. MAX_MSGS /\ q \in M
    <3>1. Start(q) < b
      <4> HIDE DEF m
      <4> QED
        BY <1>2, <2>1, <2>2, <2>3
    <3>2. q # MAX_MSGS + 1
      BY <2>2, <3>1
    <3> QED
      BY <2>1, <2>2, <3>1, <3>2, FramingBounds DEF M
  <2>5. /\ m[a.at].msg = q /\ a.at \in 1 .. Len(m)
        /\ next = IF b <= Start(q + 1) THEN Len(m) + 1 ELSE Start(q + 1) - Start(k) + 1
        /\ IsBang(m[next - 1]) <=> b >= Start(q + 1)
    <3> DEFINE x == Start(q) - Start(k) + 1
    <3>1. /\ m[x].msg = q /\ x \in 1 .. Len(m)
          /\ NextHash(m, x) = IF b <= Start(q + 1) THEN Len(m) + 1
                              ELSE Start(q + 1) - Start(k) + 1
          /\ IsBang(m[NextHash(m, x) - 1]) <=> b >= Start(q + 1)
      BY <2>2, <2>4, NextHashIs
    <3>2. a.at = x
      BY <2>1
    <3> HIDE DEF x, m
    <3> QED
      BY <3>1, <3>2
  <2>6. /\ Start(q + 1) \in Nat /\ Start(q) < Start(q + 1) /\ q + 1 \in k .. MAX_MSGS + 1
        /\ q \in Int
    <3>1. q + 1 \in 1 .. MAX_MSGS + 1 /\ q \in 1 .. MAX_MSGS /\ q + 1 \in k .. MAX_MSGS + 1
      BY <2>2, <2>4, FramingBounds
    <3>2. /\ Start(q + 1) \in Nat /\ Start(q + 1) = Start(q) + stream[q].len
          /\ stream[q].len \in Nat /\ stream[q].len >= 2
      BY <3>1, WireLayout
    <3> QED
      BY <2>2, <3>1, <3>2
  <2>7. H \in Seq(M) /\ DOMAIN H = 1 .. Len(H) /\ \A i \in DOMAIN H : H[i] \in M /\ H[i] \in Int
    <3> HIDE DEF M
    <3>1. H \in Seq(M)
      BY <2>1, ConcatProperties
    <3>2. DOMAIN H = 1 .. Len(H) /\ \A i \in DOMAIN H : H[i] \in M
      BY <3>1, LenProperties, ElementOfSeq
    <3> QED
      BY <3>1, <3>2 DEF M
  <2> HIDE DEF m, next, H
  <2>8. stream[q] \in Message
    BY <2>4 DEF Streams, M
  <2>9. CASE ~(b >= Start(q + 1))
    <3>1. r = [a EXCEPT !.stop = TRUE]
      BY <1>2, <2>5, <2>9 DEF Round, next
    <3>2. /\ r.at = a.at /\ r.out = a.out /\ r.passed = a.passed /\ r.stop = TRUE
          /\ r = [passed |-> a.passed, out |-> a.out, at |-> a.at, stop |-> TRUE]
      <4>1. a = [passed |-> a.passed, out |-> a.out, at |-> a.at, stop |-> a.stop]
        BY DEF RoundInv
      <4> QED
        BY <3>1, <4>1
    <3> HIDE DEF r
    <3>3. Kept(stream, H, q, b) /\ b < Start(q + 1) /\ b # Start(q + 1)
      BY <2>1, <2>2, <2>6, <2>9 DEF Kept, Start
    <3>4. \A key \in a.passed : \E i \in DOMAIN H : stream[H[i]].key = key
      BY <2>1
    <3>5. LoopInv(a.passed, a.out, a.at, TRUE, q, k, b)
      <4>1. b <= Start(q + 1)
        BY <2>2, <2>6, <3>3
      <4> QED
        BY <2>1, <2>4, <3>3, <3>4, <4>1, Zenon DEF LoopInv, H
    <3>6. RoundInv(r, q, k, b)
      BY <3>2, <3>5, MakeRoundInv
    <3> QED
      BY <3>2, <3>6 DEF r, m
  <2>10. CASE b >= Start(q + 1)
    <3> DEFINE parses == Parses(q, a.passed)
               last   == next = Len(m) + 1
               stays  == last /\ Keeps(q, a.passed)
               out    == IF parses THEN Append(a.out, q) ELSE a.out
               passed == Passed(q, a.passed)
               at     == IF stays THEN a.at ELSE next
               L      == handled \o out
    <3>1. r = [passed |-> passed, out |-> out, at |-> at, stop |-> stays]
      BY <1>2, <2>5, <2>10 DEF Round, next
    <3>2. /\ r.passed = passed /\ r.out = out /\ r.at = at /\ r.stop = stays
          /\ r = [passed |-> r.passed, out |-> r.out, at |-> r.at, stop |-> r.stop]
      BY <3>1
    <3>3. last <=> b = Start(q + 1)
      BY <2>2, <2>3, <2>5, <2>6, <2>10
    <3>4. next = Start(q + 1) - Start(k) + 1 /\ next > a.at
      <4>1. CASE b <= Start(q + 1)
        <5>1. b = Start(q + 1) /\ next = Len(m) + 1
          BY <2>2, <2>5, <2>6, <2>10, <4>1
        <5> QED
          BY <2>1, <2>2, <2>3, <2>6, <5>1
      <4>2. CASE ~(b <= Start(q + 1))
        <5>1. next = Start(q + 1) - Start(k) + 1
          BY <2>5, <4>2
        <5> QED
          BY <2>1, <2>2, <2>6, <5>1
      <4> QED
        BY <4>1, <4>2
    <3>5. last => \A i \in DOMAIN H : H[i] # q
      BY <2>2, <2>6, <2>1, <3>3 DEF Kept, Start
    <3>6. /\ L \in Seq(M) /\ out \in Seq(M)
          /\ \A i \in DOMAIN H : i \in DOMAIN L /\ L[i] = H[i]
          /\ Ordered(stream, L) /\ \A i \in DOMAIN L : L[i] <= q /\ L[i] \in Int
          /\ \A c : Covered(stream, H, c) => Covered(stream, L, c)
          /\ ~parses => L = H
          /\ parses => /\ Covered(stream, L, q) /\ L[Len(L)] = q /\ Len(L) \in DOMAIN L
                       /\ \A i \in DOMAIN L : i = Len(L) \/ i \in DOMAIN H
      <4>1. CASE parses
        <5>1. out \in Seq(M) /\ out = Append(a.out, q)
          BY <2>1, <2>4, <4>1, AppendProperties
        <5>2. L = Append(H, q)
          <6>1. handled \o Append(a.out, q) = Append(handled \o a.out, q)
            <7> DEFINE o == a.out
            <7>1. handled \in Seq(M) /\ o \in Seq(M) /\ q \in M
              BY <2>1, <2>4
            <7> HIDE DEF o, M, r, parses, last, stays, out, passed, at, L
            <7>2. handled \o Append(o, q) = Append(handled \o o, q)
              BY <7>1, AppendAfterConcat
            <7> QED
              BY <7>2 DEF o
          <6> QED
            BY <5>1, <6>1 DEF H
        <5> HIDE DEF L, out
        <5>3. /\ L \in Seq(M) /\ Len(L) = Len(H) + 1 /\ L[Len(L)] = q
              /\ \A i \in DOMAIN H : i \in DOMAIN L /\ L[i] = H[i]
              /\ \A i \in DOMAIN L : i = Len(L) \/ i \in DOMAIN H
              /\ Ordered(stream, L) /\ \A i \in DOMAIN L : L[i] <= q
              /\ Covered(stream, L, q) /\ \A c : Covered(stream, H, c) => Covered(stream, L, c)
          <6>1. /\ Ordered(stream, H) /\ \A i \in DOMAIN H : H[i] <= q
                /\ \A i \in DOMAIN H : H[i] = q => i = Len(H) /\ stream[q].kind = "short"
            BY <2>1 DEF Upto, Kept, Start
          <6> HIDE DEF M
          <6> QED
            BY <2>4, <2>7, <5>2, <6>1, AppendMessage
        <5>4. Len(L) \in DOMAIN L /\ \A i \in DOMAIN L : L[i] \in Int
          <6> HIDE DEF M
          <6>1. Len(H) \in Nat /\ DOMAIN L = 1 .. Len(L) /\ \A i \in DOMAIN L : L[i] \in M
            BY <2>7, <5>3, LenProperties, ElementOfSeq
          <6>2. Len(L) \in DOMAIN L
            BY <5>3, <6>1
          <6> QED
            BY <6>1, <6>2 DEF M
        <5> QED
          BY <4>1, <5>1, <5>3, <5>4
      <4>2. CASE ~parses
        <5>1. out = a.out /\ L = H
          BY <4>2 DEF H
        <5> HIDE DEF L, out
        <5> QED
          BY <2>1, <2>7, <4>2, <5>1 DEF Upto
      <4> QED
        BY <4>1, <4>2
    <3> HIDE DEF L, out, r
    <3>7. stream[q].kind # "bad" => Covered(stream, L, q)
      <4> SUFFICES ASSUME stream[q].kind # "bad", ~parses PROVE Covered(stream, L, q)
        BY <3>6
      <4>1. stream[q].key \in a.passed
        BY DEF Parses
      <4>2. PICK i \in DOMAIN H : stream[H[i]].key = stream[q].key /\ H[i] < q
        BY <2>1, <4>1
      <4>3. stream[q].key # NoKey
        BY <2>1, <4>1, KeysAssumption
      <4> QED
        BY <3>6, <4>2, <4>3 DEF Covered
    <3>8. passed \subseteq Keys
      BY <2>1, <2>8 DEF Passed, Message
    <3>9. \A key \in passed : \E i \in DOMAIN L : stream[L[i]].key = key /\ L[i] <= q
      <4> SUFFICES ASSUME NEW key \in passed
                   PROVE  \E i \in DOMAIN L : stream[L[i]].key = key /\ L[i] <= q
        OBVIOUS
      <4>1. CASE key \in a.passed
        BY <2>1, <3>6, <4>1
      <4>2. CASE key \notin a.passed
        <5>1. stream[q].kind # "bad" /\ key = stream[q].key
          BY <4>2 DEF Passed
        <5>2. parses
          BY <4>2, <5>1 DEF Parses
        <5> QED
          BY <3>6, <5>1, <5>2
      <4> QED
        BY <4>1, <4>2
    <3> HIDE DEF passed
    <3>10. CASE stays
      <4>1. b = Start(q + 1) /\ at = a.at /\ last
        BY <3>3, <3>10
      <4>2. Kept(stream, L, q, b)
        <5> SUFFICES ASSUME NEW i \in DOMAIN L, L[i] = q
                     PROVE  i = Len(L) /\ stream[q].kind = "short" /\ b = Start(q + 1)
          BY DEF Kept, Start
        <5>1. parses
          BY <3>5, <3>6, <4>1
        <5>2. stream[q].kind = "short"
          BY <3>10, <5>1 DEF Keeps
        <5>3. i = Len(L)
          BY <3>5, <3>6, <4>1, <5>1
        <5> QED
          BY <4>1, <5>2, <5>3
      <4>3. Upto(stream, L, q)
        BY <2>1, <3>6 DEF Upto
      <4>4. r.at = Start(q) - Start(k) + 1 /\ r.stop = TRUE
        BY <2>1, <3>2, <3>10, <4>1
      <4>5. LoopInv(passed, out, at, TRUE, q, k, b)
        <5>1. at = Start(q) - Start(k) + 1 /\ b <= Start(q + 1)
          BY <2>1, <2>6, <4>1
        <5>2. \A key \in passed : \E i \in DOMAIN L : stream[L[i]].key = key
          BY <3>9
        <5> HIDE DEF stays, at
        <5> QED
          BY <2>1, <2>4, <3>6, <3>7, <3>8, <4>2, <4>3, <5>1, <5>2, Zenon DEF LoopInv, L
      <4>6. RoundInv(r, q, k, b)
        <5>1. r = [passed |-> passed, out |-> out, at |-> at, stop |-> TRUE]
          BY <3>1, <3>10
        <5> HIDE DEF at
        <5> QED
          BY <4>5, <5>1, MakeRoundInv
      <4> QED
        BY <4>4, <4>6 DEF r, m
    <3>11. CASE ~stays
      <4> DEFINE p == q + 1
      <4>1. at = next /\ r.stop = FALSE /\ r.at = Start(p) - Start(k) + 1 /\ r.at > a.at
        BY <3>2, <3>4, <3>11
      <4>2. \A i \in DOMAIN L : L[i] < p /\ L[i] # p /\ L[i] <= p
        BY <2>6, <3>6
      <4>3. Kept(stream, L, p, received)
        BY <4>2 DEF Kept, Start
      <4>4. Upto(stream, L, p)
        <5>1. ASSUME NEW c \in M, c < p, stream[c].kind # "bad" PROVE Covered(stream, L, c)
          <6>1. c = q \/ c < q
            BY <2>6, <5>1 DEF M
          <6> QED
            BY <2>1, <3>6, <3>7, <5>1, <6>1 DEF Upto
        <5> QED
          BY <3>6, <4>2, <5>1 DEF Upto
      <4>5. \A key \in passed : \E i \in DOMAIN L : stream[L[i]].key = key /\ L[i] < p
        BY <3>9, <4>2
      <4>6. p \in k .. MAX_MSGS + 1 /\ Start(p) <= b
        BY <2>2, <2>6, <2>10
      <4> HIDE DEF p, stays, at
      <4>7. LoopInv(passed, out, at, FALSE, p, k, b)
        <5>1. at = Start(p) - Start(k) + 1
          BY <3>2, <4>1
        <5> QED
          BY <3>6, <3>8, <4>3, <4>4, <4>5, <4>6, <5>1, Zenon DEF LoopInv, L
      <4>8. RoundInv(r, p, k, b)
        <5>1. r = [passed |-> passed, out |-> out, at |-> at, stop |-> FALSE]
          BY <3>2, <4>1
        <5> QED
          BY <4>7, <5>1, MakeRoundInv
      <4> QED
        BY <4>1, <4>8 DEF r, m
    <3> QED
      BY <3>10, <3>11
  <2> QED
    BY <2>9, <2>10, <2>2, <2>6
<1> QED
  BY <1>1, <1>2

\* What the loop computes with: whatever it reaches satisfies its invariant.
LEMMA AfterLoopFacts ==
  ASSUME Streams, handled \in Seq(M), received \in Nat, NEW k \in M, Start(k) <= received,
         NEW b \in received + 1 .. Len(Wire), Upto(stream, handled, k),
         Kept(stream, handled, k, received)
  PROVE  LET m == Buffer(k, b)
             end == AfterLoop(m)
         IN  /\ \E q : RoundInv(end, q, k, b)
             /\ end.stop \/ end.at > Len(m)
<1> DEFINE m   == Buffer(k, b)
           N   == Len(m)
           Acc == [passed : SUBSET Keys, out : Seq(M), at : Nat, stop : BOOLEAN]
           S   == {a \in Acc : \E q : RoundInv(a, q, k, b)}
           a0  == [passed |-> {}, out |-> <<>>, at |-> 1, stop |-> FALSE]
           f   == [p \in 1 .. N |-> [a \in S |-> Round(m, a)]]
           R(w) == [p \in 0 .. N |-> IF p = 0 THEN a0 ELSE Round(m, w[p - 1])]
<1>1. /\ k \in 1 .. MAX_MSGS + 1 /\ Start(k) \in Nat /\ Len(Wire) \in Nat
      /\ b \in Nat /\ received < b /\ b \in Start(k) .. Len(Wire)
  <2>1. k \in 1 .. MAX_MSGS + 1
    BY FramingBounds DEF M
  <2>2. Start(k) \in Nat /\ Len(Wire) \in Nat
    BY <2>1, WireLayout
  <2> QED
    BY <2>1, <2>2
<1>2. N = b - Start(k) /\ N \in Nat
  BY <1>1, BufferFacts
<1> HIDE DEF m
<1>3. ASSUME NEW a, NEW q, RoundInv(a, q, k, b) PROVE a \in S
  <2>1. /\ a = [passed |-> a.passed, out |-> a.out, at |-> a.at, stop |-> a.stop]
        /\ a.passed \in SUBSET Keys /\ a.out \in Seq(M) /\ a.stop \in BOOLEAN
    BY <1>3 DEF RoundInv, LoopInv
  <2>2. a.at \in Nat
    <3>1. /\ q \in k .. MAX_MSGS + 1 /\ a.at = Start(q) - Start(k) + 1
      BY <1>3 DEF RoundInv, LoopInv
    <3>2. q \in 1 .. MAX_MSGS + 1 /\ k <= q
      BY <1>1, <3>1 DEF M
    <3>3. Start(q) \in Nat /\ Start(k) <= Start(q)
      BY <1>1, <3>2, WireLayout
    <3> QED
      BY <1>1, <3>1, <3>3
  <2> HIDE DEF M
  <2>3. a \in Acc
    BY <2>1, <2>2
  <2> HIDE DEF Acc
  <2> QED
    BY <1>3, <2>3
<1>4. a0 \in S
  <2>1. handled \o <<>> = handled
    BY ConcatEmptySeq
  <2>2. LoopInv({}, <<>>, 1, FALSE, k, k, b)
    <3>1. k \in k .. MAX_MSGS + 1 /\ 1 = Start(k) - Start(k) + 1 /\ Start(k) <= b
      BY <1>1
    <3>2. <<>> \in Seq(M)
      OBVIOUS
    <3> QED
      BY <2>1, <3>1, <3>2 DEF LoopInv
  <2>3. RoundInv(a0, k, k, b)
    BY <2>2, MakeRoundInv
  <2> HIDE DEF a0
  <2> QED
    BY <1>3, <2>3
<1>5. ASSUME NEW a \in S
      PROVE  /\ Round(m, a) \in S
             /\ Round(m, a).stop \/ Round(m, a).at > a.at \/ a.at > N
  <2>1. PICK q : RoundInv(a, q, k, b)
    OBVIOUS
  <2>2. /\ \E p : RoundInv(Round(m, a), p, k, b)
        /\ Round(m, a).stop \/ Round(m, a).at > a.at \/ a.at > N
    BY <2>1, RoundKeeps DEF m
  <2> QED
    BY <1>3, <2>2
<1>6. \A a \in S : a.at \in Nat /\ a.stop \in BOOLEAN
  BY DEF Acc
<1>7. \A a \in S : \E q : RoundInv(a, q, k, b)
  OBVIOUS
<1>8. a0.at = 1
  OBVIOUS
<1> HIDE DEF S, a0
<1>9. f \in [1 .. N -> [S -> S]]
  BY <1>5
<1>10. \A p \in 1 .. N : \A a \in S : f[p][a] = Round(m, a)
  OBVIOUS
<1> HIDE DEF f, N
<1>11. PICK g : Recurs(N, S, a0, f, g)
  BY <1>2, <1>4, <1>9, BoundedRecursion
<1>12. \A p \in 0 .. N : g[p] = IF p = 0 THEN a0 ELSE Round(m, g[p - 1])
  <2>0. g[0] = a0
    BY <1>11 DEF Recurs
  <2> SUFFICES ASSUME NEW p \in 0 .. N, p # 0 PROVE g[p] = Round(m, g[p - 1])
    BY <2>0
  <2>1. p \in 1 .. N /\ p - 1 \in 0 .. N
    BY <1>2
  <2>2. g[p] = f[p][g[p - 1]] /\ g[p - 1] \in S
    BY <1>11, <2>1 DEF Recurs
  <2> QED
    BY <1>10, <2>1, <2>2
<1>13. g = R(g)
  BY <1>11, <1>12 DEF Recurs
<1> DEFINE w == CHOOSE v : v = R(v)
<1>14. AfterLoop(m) = w[N]
  BY Zenon DEF AfterLoop, N, a0
<1>15. w = R(w)
  BY <1>13, Zenon
<1> HIDE DEF w
<1>16. w[0] = a0 /\ \A p \in 1 .. N : w[p] = Round(m, w[p - 1])
  <2>1. 0 \in 0 .. N /\ \A p \in 1 .. N : p \in 0 .. N /\ p # 0
    BY <1>2
  <2>2. w[0] = R(w)[0] /\ \A p \in 1 .. N : w[p] = R(w)[p]
    BY <1>15, Zenon
  <2>3. R(w)[0] = a0
    BY <2>1
  <2>4. ASSUME NEW p \in 1 .. N PROVE R(w)[p] = Round(m, w[p - 1])
    BY <2>1
  <2> QED
    BY <2>2, <2>3, <2>4, Zenon
<1> DEFINE A == {p \in 0 .. N : w[p] \in S /\ (w[p].stop \/ w[p].at > p \/ w[p].at > N)}
<1>17. 0 \in A
  BY <1>2, <1>4, <1>8, <1>16
<1>18. ASSUME NEW p \in 0 .. N - 1, p \in A PROVE p + 1 \in A
  <2> DEFINE x == w[p]
             y == w[p + 1]
  <2>1. p + 1 \in 1 .. N /\ (p + 1) - 1 = p /\ p + 1 \in 0 .. N
    BY <1>2
  <2>2. x \in S /\ (x.stop \/ x.at > p \/ x.at > N) /\ y = Round(m, x)
    BY <1>16, <1>18, <2>1
  <2> HIDE DEF x, y
  <2>3. y \in S /\ (y.stop \/ y.at > x.at \/ x.at > N)
    BY <1>5, <2>2
  <2>4. x.at \in Nat /\ y.at \in Nat
    BY <1>6, <2>2, <2>3
  <2>5. (x.stop \/ x.at > N) => y = x
    BY <2>2 DEF Round, N
  <2>6. y.stop \/ y.at > p + 1 \/ y.at > N
    BY <1>2, <2>2, <2>3, <2>4, <2>5
  <2> QED
    BY <2>1, <2>3, <2>6 DEF y
<1> HIDE DEF A
<1>19. \A p \in 0 .. N : p \in A
  BY <1>2, <1>17, <1>18, InductionUpto
<1>20. N \in A
  BY <1>2, <1>19
<1>21. w[N] \in S /\ (w[N].stop \/ w[N].at > N)
  BY <1>20 DEF A
<1> QED
  BY <1>7, <1>14, <1>21 DEF m, N

\* The inductive invariant of the session: the buffer has the bytes received of
\* message k, the first that is not done, and the messages before it are done.
BehindOf(s, r, f, h, k) ==
    /\ f = SubSeq(SentOf(s)[MAX_MSGS], StartOf(s, k) + 1, r) /\ StartOf(s, k) <= r
    /\ Upto(s, h, k) /\ Kept(s, h, k, r)
    /\ k \in M => /\ r <= StartOf(s, k + 1)
                  /\ (r = StartOf(s, k + 1) /\ s[k].kind # "bad" => Covered(s, h, k))
FrameOf(s, r, f, h) ==
    /\ s \in [1 .. MAX_MSGS -> Message] /\ r \in Nat /\ r <= Len(SentOf(s)[MAX_MSGS])
    /\ h \in Seq(M)
    /\ \E k \in 1 .. MAX_MSGS + 1 : BehindOf(s, r, f, h, k)
FrameInv == FrameOf(stream, received, full_buffer, handled)

\* The wire is what all messages of the stream put on it.
LEMMA WireIs == Wire = SentOf(stream)[MAX_MSGS]
BY SentIs DEF Wire

\* A new session has an empty buffer in front of the first message.
LEMMA FrameInitInv == FrameInit => FrameInv
<1> SUFFICES ASSUME FrameInit PROVE FrameInv
  OBVIOUS
<1>1. /\ stream \in [1 .. MAX_MSGS -> Message] /\ received = 0 /\ full_buffer = <<>>
      /\ handled = <<>>
  BY DEF FrameInit
<1>2. Streams
  BY <1>1 DEF Streams
<1>3. Len(Wire) \in Nat /\ Start(1) = 0 /\ Start(2) \in Nat /\ Start(2) >= 2
      /\ 1 \in 1 .. MAX_MSGS + 1 /\ 1 + 1 = 2
  <2>1. 1 \in 1 .. MAX_MSGS /\ 1 \in 1 .. MAX_MSGS + 1 /\ 2 \in 1 .. MAX_MSGS + 1 /\ 1 + 1 = 2
    BY FramingBounds
  <2>2. Start(1 + 1) = Start(1) + stream[1].len /\ stream[1].len \in Nat /\ stream[1].len >= 2
    BY <1>2, <2>1, WireLayout
  <2>3. Start(1) = 0 /\ Len(Wire) \in Nat
    BY <1>2, WireLayout
  <2> QED
    BY <2>1, <2>2, <2>3
<1>4. SubSeq(Wire, 1, 0) = <<>>
  BY SubSeqEmpty
<1>5. Upto(stream, handled, 1) /\ Kept(stream, handled, 1, 0)
  <2>1. DOMAIN handled = {}
    BY <1>1
  <2>2. \A c \in M : ~(c < 1)
    BY DEF M
  <2> QED
    BY <2>1, <2>2 DEF Upto, Kept, Ordered
<1>6. BehindOf(stream, 0, full_buffer, handled, 1)
  <2>1. full_buffer = SubSeq(Wire, Start(1) + 1, 0)
    BY <1>1, <1>3, <1>4
  <2>2. Start(1) <= 0 /\ 0 <= Start(1 + 1) /\ 0 # Start(1 + 1)
    BY <1>3
  <2> QED
    BY <1>5, <2>1, <2>2, WireIs, Zenon DEF BehindOf, Start
<1>7. handled \in Seq(M)
  BY <1>1
<1> QED
  BY <1>1, <1>3, <1>6, <1>7, WireIs DEF FrameInv, FrameOf

\* The invariant is kept by a read of the session and the call of process_buffer.
LEMMA ReadKeeps ==
  ASSUME FrameInv, NEW r \in Nat \ {0}, ReadSome(r)
  PROVE  FrameInv'
<1> DEFINE b == received + r
           m == full_buffer \o SubSeq(Wire, received + 1, received + r)
           result == ProcessBuffer(m)
<1>1. /\ Streams /\ received \in Nat /\ received <= Len(Wire) /\ handled \in Seq(M)
  BY WireIs DEF FrameInv, FrameOf, Streams
<1>2. PICK k \in 1 .. MAX_MSGS + 1 : BehindOf(stream, received, full_buffer, handled, k)
  BY DEF FrameInv, FrameOf
<1>3. /\ full_buffer = Buffer(k, received) /\ Start(k) <= received
      /\ Upto(stream, handled, k) /\ Kept(stream, handled, k, received)
  BY <1>2, WireIs DEF BehindOf, Buffer, Start
<1>4. /\ b <= Len(Wire) /\ received' = b /\ full_buffer' = result.rest
      /\ handled' = handled \o result.out /\ stream' = stream
  BY DEF ReadSome
<1>5. r \in Nat /\ r >= 1
  OBVIOUS
<1>6. Len(Wire) \in Nat /\ Start(k) \in Nat /\ Start(MAX_MSGS + 1) = Len(Wire) /\ Wire \in Seq(Byte)
  BY <1>1, WireLayout
<1>7. b \in Nat /\ received < b /\ b \in received + 1 .. Len(Wire) /\ b \in Start(k) .. Len(Wire)
  BY <1>1, <1>3, <1>4, <1>5, <1>6
<1>8. k \in M
  <2>1. k # MAX_MSGS + 1
    <3> HIDE DEF b
    <3> QED
      BY <1>1, <1>3, <1>4, <1>6, <1>7
  <2> QED
    BY <2>1, FramingBounds DEF M
<1>9. m = Buffer(k, b)
  <2> HIDE DEF Byte
  <2>1. /\ Start(k) + 1 \in 1 .. Len(Wire) + 1 /\ received \in (Start(k) + 1) - 1 .. Len(Wire)
        /\ b \in received .. Len(Wire)
    BY <1>1, <1>3, <1>6, <1>7
  <2>2. SubSeq(Wire, Start(k) + 1, received) \o SubSeq(Wire, received + 1, b)
          = SubSeq(Wire, Start(k) + 1, b)
    BY <1>6, <2>1, ConcatAdjacentSubSeq
  <2> QED
    BY <1>3, <2>2 DEF Buffer
<1> DEFINE end == AfterLoop(m)
<1>10. IsHash(m[1])
  <2>1. m[1] = Wire[Start(k) + 1]
    <3>1. 1 \in 1 .. b - Start(k)
      BY <1>1, <1>3, <1>6, <1>7
    <3>2. \A i \in 1 .. b - Start(k) : Buffer(k, b)[i] = Wire[Start(k) + i]
      BY <1>1, <1>7, BufferFacts
    <3> HIDE DEF m, b
    <3> QED
      BY <1>9, <3>1, <3>2
  <2>2. Start(k) + 1 \in Start(k) + 1 .. Start(k + 1) /\ k \in 1 .. MAX_MSGS
    <3>1. /\ Start(k + 1) = Start(k) + stream[k].len
          /\ stream[k].len \in Nat /\ stream[k].len >= 2 /\ k \in 1 .. MAX_MSGS
      BY <1>1, <1>8, WireLayout DEF M
    <3> QED
      BY <1>6, <3>1
  <2> QED
    BY <1>1, <2>1, <2>2, ByteAt
<1>11. result.out = end.out /\ result.rest = SubSeq(m, end.at, Len(m))
  BY <1>10 DEF ProcessBuffer, Rest
<1>12. (\E q : RoundInv(end, q, k, b)) /\ (end.stop \/ end.at > Len(m))
  BY <1>1, <1>3, <1>7, <1>8, <1>9, AfterLoopFacts
<1> HIDE DEF end, result, m
<1>13. PICK q : RoundInv(end, q, k, b)
  BY <1>12
<1> DEFINE H == handled \o end.out
<1>14. /\ q \in k .. MAX_MSGS + 1 /\ end.at = Start(q) - Start(k) + 1 /\ Start(q) <= b
       /\ end.out \in Seq(M) /\ Upto(stream, H, q)
       /\ end.stop => /\ q \in M /\ b <= Start(q + 1) /\ Kept(stream, H, q, b)
                      /\ (b = Start(q + 1) /\ stream[q].kind # "bad" => Covered(stream, H, q))
       /\ ~end.stop => Kept(stream, H, q, received)
  BY <1>13 DEF RoundInv, LoopInv
<1>15. H \in Seq(M)
  <2> HIDE DEF M
  <2> QED
    BY <1>1, <1>14, ConcatProperties
<1> HIDE DEF H
<1>16. /\ q \in 1 .. MAX_MSGS + 1 /\ k <= q /\ Start(q) \in Nat /\ Start(k) <= Start(q)
  <2>1. q \in 1 .. MAX_MSGS + 1 /\ k <= q
    BY <1>14, <1>8 DEF M
  <2> QED
    BY <1>1, <2>1, WireLayout
<1>17. Len(m) = b - Start(k) /\ b \in Start(q) .. Len(Wire)
  BY <1>1, <1>6, <1>7, <1>9, <1>14, <1>16, BufferFacts
<1>18. result.rest = Buffer(q, b)
  <2> DEFINE rest == SubSeq(m, end.at, Len(m))
             at == end.at
             l == Len(m)
  <2>1. at \in Nat /\ at >= 1 /\ l \in Nat /\ at <= l + 1 /\ (l - at) + 1 = b - Start(q)
    <3>1. at = Start(q) - Start(k) + 1 /\ l = b - Start(k)
      BY <1>14, <1>17
    <3>2. b \in Int /\ Start(q) <= b
      BY <1>6, <1>16, <1>17
    <3>3. Start(q) \in Int /\ Start(k) \in Int /\ Start(k) <= Start(q)
      BY <1>6, <1>16
    <3> HIDE DEF at, l, b
    <3>4. at \in Int /\ at >= 1 /\ l \in Int /\ at <= l + 1
      BY <3>1, <3>2, <3>3
    <3>5. (l - at) + 1 = b - Start(q) /\ l >= 0
      BY <3>1, <3>2, <3>3
    <3> QED
      BY <3>4, <3>5
  <2>2. m \in Seq(Byte) /\ \A i \in 1 .. b - Start(k) : m[i] = Wire[Start(k) + i]
    BY <1>1, <1>7, <1>9, BufferFacts
  <2>3. /\ Buffer(q, b) \in Seq(Byte) /\ Len(Buffer(q, b)) = b - Start(q)
        /\ \A i \in 1 .. b - Start(q) : Buffer(q, b)[i] = Wire[Start(q) + i]
    BY <1>1, <1>16, <1>17, BufferFacts
  <2> HIDE DEF Byte
  <2>4. \A i \in at .. l : m[i] \in Byte
    BY <2>1, <2>2, ElementOfSeq
  <2>5. /\ rest \in Seq(Byte) /\ Len(rest) = IF at <= l THEN (l - at) + 1 ELSE 0
        /\ \A i \in 1 .. (l - at) + 1 : rest[i] = m[(at + i) - 1]
    <3> HIDE DEF at, l
    <3> QED
      BY <2>1, <2>4, SubSeqProperties DEF at, l
  <2>6. Len(rest) = b - Start(q)
    <3> HIDE DEF rest, at, l
    <3> QED
      BY <2>1, <2>5
  <2>7. ASSUME NEW i \in 1 .. b - Start(q) PROVE rest[i] = Wire[Start(q) + i]
    <3>1. rest[i] = m[(at + i) - 1]
      BY <2>1, <2>5
    <3>2. (at + i) - 1 \in 1 .. b - Start(k) /\ Start(k) + ((at + i) - 1) = Start(q) + i
      BY <1>6, <1>7, <1>14, <1>16
    <3> HIDE DEF rest, at
    <3> QED
      BY <2>2, <3>1, <3>2
  <2> HIDE DEF rest
  <2>8. rest = Buffer(q, b)
    BY <2>3, <2>5, <2>6, <2>7, SeqEqual
  <2> QED
    BY <1>11, <2>8 DEF rest
<1>19. Kept(stream, H, q, b) /\ (q \in M => /\ b <= Start(q + 1)
         /\ (b = Start(q + 1) /\ stream[q].kind # "bad" => Covered(stream, H, q)))
  <2>1. CASE end.stop
    BY <1>14, <2>1
  <2>2. CASE ~end.stop
    <3>1. Start(q) = b
      BY <1>6, <1>7, <1>12, <1>14, <1>16, <1>17, <2>2
    <3>2. q \in M => Start(q + 1) > b /\ Start(q + 1) # b /\ Start(q + 1) # received
      <4> SUFFICES ASSUME q \in M PROVE Start(q + 1) > b /\ Start(q + 1) # b /\ Start(q + 1) # received
        OBVIOUS
      <4>1. /\ Start(q + 1) = Start(q) + stream[q].len
            /\ stream[q].len \in Nat /\ stream[q].len >= 2
        BY <1>1, WireLayout DEF M
      <4> QED
        BY <1>1, <1>7, <3>1, <4>1
    <3>3. \A i \in DOMAIN H : H[i] \in M
      <4> HIDE DEF M
      <4> QED
        BY <1>15, LenProperties, ElementOfSeq
    <3>4. \A i \in DOMAIN H : H[i] # q
      BY <1>14, <2>2, <3>2, <3>3 DEF Kept, Start
    <3>5. q \in M => b <= Start(q + 1)
      <4> SUFFICES ASSUME q \in M PROVE b <= Start(q + 1)
        OBVIOUS
      <4>1. q + 1 \in 1 .. MAX_MSGS + 1
        BY FramingBounds DEF M
      <4>2. Start(q + 1) \in Nat
        BY <1>1, <4>1, WireLayout
      <4> QED
        BY <1>7, <3>2, <4>2
    <3> QED
      BY <3>2, <3>4, <3>5 DEF Kept
  <2> QED
    BY <2>1, <2>2
<1>20. BehindOf(stream, b, result.rest, H, q)
  BY <1>14, <1>18, <1>19, WireIs, Zenon DEF BehindOf, Buffer, Start
<1>21. FrameOf(stream, b, result.rest, H)
  BY <1>1, <1>4, <1>7, <1>15, <1>16, <1>20, WireIs DEF FrameOf, Streams
<1>22. handled' = H
  BY <1>4, <1>11 DEF H
<1> HIDE DEF b
<1>23. FrameOf(stream', received', full_buffer', handled')
  BY <1>4, <1>21, <1>22
<1> QED
  BY <1>23 DEF FrameInv

\* The invariant is inductive.
LEMMA FrameNextInv == FrameInv /\ [FrameNext]_frVars => FrameInv'
<1>1. ASSUME FrameInv, FrameNext PROVE FrameInv'
  <2>1. PICK r \in 1 .. MAX_LEN * MAX_MSGS : ReadSome(r)
    BY <1>1 DEF FrameNext
  <2>2. r \in Nat \ {0}
    <3>1. MAX_LEN * MAX_MSGS \in Nat
      BY FramingBounds
    <3> QED
      BY <3>1
  <2> QED
    BY <1>1, <2>1, <2>2, ReadKeeps
<1>2. ASSUME FrameInv, UNCHANGED frVars PROVE FrameInv'
  BY <1>2 DEF FrameInv, frVars
<1> QED
  BY <1>1, <1>2

\* The buffer of a session is empty or begins with a '#'.
LEMMA FrameInvTypes == FrameInv => FrameTypeOK
<1> SUFFICES ASSUME FrameInv PROVE FrameTypeOK
  OBVIOUS
<1>1. /\ Streams /\ received \in Nat /\ received <= Len(Wire) /\ handled \in Seq(M)
  BY WireIs DEF FrameInv, FrameOf, Streams
<1>2. PICK k \in 1 .. MAX_MSGS + 1 : BehindOf(stream, received, full_buffer, handled, k)
  BY DEF FrameInv, FrameOf
<1>3. full_buffer = Buffer(k, received) /\ Start(k) <= received
  BY <1>2, WireIs DEF BehindOf, Buffer, Start
<1>4. Len(Wire) \in Nat /\ Start(k) \in Nat /\ Start(MAX_MSGS + 1) = Len(Wire)
  BY <1>1, WireLayout
<1>5. received \in Start(k) .. Len(Wire)
  BY <1>1, <1>3, <1>4
<1>6. /\ full_buffer \in Seq(Byte) /\ Len(full_buffer) = received - Start(k)
      /\ \A i \in 1 .. received - Start(k) : full_buffer[i] = Wire[Start(k) + i]
  BY <1>1, <1>3, <1>5, BufferFacts
<1>7. ASSUME full_buffer # <<>> PROVE full_buffer[1].pos = 1
  <2>1. Len(full_buffer) \in Nat \ {0}
    <3> HIDE DEF Byte
    <3> QED
      BY <1>6, <1>7, EmptySeq
  <2>2. 1 \in 1 .. received - Start(k) /\ Start(k) < received
    BY <1>1, <1>4, <1>6, <2>1
  <2>3. k \in 1 .. MAX_MSGS
    BY <1>1, <1>4, <2>2, FramingBounds
  <2>4. Start(k) + 1 \in Start(k) + 1 .. Start(k + 1)
    <3>1. /\ Start(k + 1) = Start(k) + stream[k].len
          /\ stream[k].len \in Nat /\ stream[k].len >= 2
      BY <1>1, <2>3, WireLayout
    <3> QED
      BY <1>4, <3>1
  <2>5. IsHash(Wire[Start(k) + 1])
    BY <1>1, <2>3, <2>4, ByteAt
  <2> QED
    BY <1>6, <2>2, <2>5 DEF IsHash
<1> QED
  BY <1>1, <1>6, <1>7 DEF FrameTypeOK, Streams, M

\* With the bytes of the first message that is not done in the buffer, nothing
\* that has come is left out or handed over twice.
LEMMA FrameInvGives == FrameInv => OnceInOrder /\ HandledAtOnce
<1> SUFFICES ASSUME FrameInv PROVE OnceInOrder /\ HandledAtOnce
  OBVIOUS
<1>1. /\ Streams /\ received \in Nat /\ received <= Len(Wire) /\ handled \in Seq(M)
  BY WireIs DEF FrameInv, FrameOf, Streams
<1>2. PICK k \in 1 .. MAX_MSGS + 1 : BehindOf(stream, received, full_buffer, handled, k)
  BY DEF FrameInv, FrameOf
<1>3. /\ Start(k) <= received /\ Upto(stream, handled, k)
      /\ k \in M => /\ received <= Start(k + 1)
                    /\ (received = Start(k + 1) /\ stream[k].kind # "bad"
                          => Covered(stream, handled, k))
  BY <1>2 DEF BehindOf, Start
<1>4. OnceInOrder
  BY <1>3, FrameInvTypes DEF OnceInOrder, Upto, Ordered
<1>5. ASSUME NEW c \in M, Arrived(c), stream[c].kind # "bad" PROVE Covered(stream, handled, c)
  <2>1. PICK p \in 1 .. received : Wire[p].msg = c /\ IsBang(Wire[p])
    BY <1>5 DEF Arrived
  <2>2. p \in 1 .. Len(Wire) /\ p <= received /\ p \in Nat
    BY <1>1, WireLayout
  <2>3. PICK d \in 1 .. MAX_MSGS : p \in Start(d) + 1 .. Start(d + 1)
    BY <1>1, <2>2, WireLayout
  <2>4. d = c /\ p = Start(c + 1)
    BY <1>1, <2>1, <2>3, ByteAt
  <2>5. c < k => Covered(stream, handled, c)
    BY <1>3, <1>5 DEF Upto
  <2>6. ASSUME ~(c < k) PROVE c = k /\ received = Start(c + 1)
    <3>1. k \in M /\ k \in 1 .. MAX_MSGS + 1 /\ k + 1 \in 1 .. MAX_MSGS + 1
          /\ c + 1 \in 1 .. MAX_MSGS + 1 /\ c \in 1 .. MAX_MSGS + 1 /\ c \in 1 .. MAX_MSGS
      BY <2>6, FramingBounds DEF M
    <3>2. /\ Start(k + 1) \in Nat /\ Start(c + 1) \in Nat /\ Start(c) \in Nat
          /\ Start(c + 1) = Start(c) + stream[c].len
          /\ stream[c].len \in Nat /\ stream[c].len >= 2
      BY <1>1, <3>1, WireLayout
    <3>3. k # c => Start(k + 1) <= Start(c)
      <4>1. k # c => k + 1 <= c
        BY <2>6, <3>1
      <4> QED
        BY <1>1, <3>1, <4>1, WireLayout
    <3> QED
      BY <1>1, <1>3, <2>2, <2>4, <3>1, <3>2, <3>3
  <2> QED
    BY <1>3, <1>5, <2>5, <2>6
<1>6. HandledAtOnce
  <2> SUFFICES ASSUME NEW c \in 1 .. MAX_MSGS, Arrived(c), stream[c].kind # "bad"
               PROVE  \/ c \in ToSet(handled)
                      \/ \E e \in ToSet(handled) :
                           e < c /\ stream[e].key = stream[c].key /\ stream[c].key # NoKey
    BY DEF HandledAtOnce
  <2>1. Covered(stream, handled, c)
    BY <1>5 DEF M
  <2> QED
    BY <2>1 DEF Covered, ToSet
<1> QED
  BY <1>4, <1>6

\* However TCP cuts the stream into reads, process_buffer hands the messages to
\* their handlers in the order sent and each once; only a refused #full_block
\* at the end of a read comes a second time.
THEOREM OrderSafety == FrameSpec => []OnceInOrder
<1>1. FrameInv /\ [FrameNext]_frVars => FrameInv'
  BY FrameNextInv
<1> QED
  BY <1>1, FrameInitInv, FrameInvGives, PTL DEF FrameSpec

\* No complete message is held back for a later read or passed over, unless it
\* does not parse or an earlier one with its key was handled.
THEOREM PromptSafety == FrameSpec => []HandledAtOnce
<1>1. FrameInv /\ [FrameNext]_frVars => FrameInv'
  BY FrameNextInv
<1> QED
  BY <1>1, FrameInitInv, FrameInvGives, PTL DEF FrameSpec

------------------------------------------------------------------------------
(* verify.cpp: the Merkle tree *)

\* Powers of two.
LEMMA TwoToFacts ==
  /\ TwoTo[0] = 1
  /\ \A k \in Nat : TwoTo[k] \in Nat /\ TwoTo[k] > k /\ TwoTo[k + 1] = 2 * TwoTo[k]
<1> DEFINE f == [k \in Nat |-> [x \in Nat |-> 2 * x]]
           R(w) == [k \in Nat |-> IF k = 0 THEN 1 ELSE 2 * w[k - 1]]
<1>1. f \in [Nat -> [Nat -> Nat]] /\ \A k, x \in Nat : f[k][x] = 2 * x
  OBVIOUS
<1> HIDE DEF f
<1>2. PICK g : Iterates(Nat, 1, f, g)
  BY <1>1, RecursiveFunction
<1>3. g \in [Nat -> Nat] /\ g[0] = 1 /\ \A k \in Nat : g[k + 1] = 2 * g[k]
  BY <1>1, <1>2 DEF Iterates
<1>4. g = R(g)
  <2>1. ASSUME NEW k \in Nat PROVE g[k] = IF k = 0 THEN 1 ELSE 2 * g[k - 1]
    <3>1. CASE k # 0
      <4>1. k - 1 \in Nat /\ (k - 1) + 1 = k
        BY <3>1
      <4> QED
        BY <1>3, <3>1, <4>1
    <3> QED
      BY <1>3, <3>1
  <2> QED
    BY <1>3, <2>1
<1> DEFINE w == CHOOSE v : v = R(v)
<1>5. TwoTo = w
  BY Zenon DEF TwoTo
<1>6. w = R(w)
  BY <1>4, Zenon
<1> HIDE DEF w
<1>7. w[0] = 1 /\ \A k \in Nat : w[k + 1] = 2 * w[k]
  <2>1. w[0] = R(w)[0] /\ \A k \in Nat : w[k + 1] = R(w)[k + 1]
    BY <1>6, Zenon
  <2>2. R(w)[0] = 1
    OBVIOUS
  <2>3. ASSUME NEW k \in Nat PROVE R(w)[k + 1] = 2 * w[k]
    OBVIOUS
  <2> QED
    BY <2>1, <2>2, <2>3, Zenon
<1> DEFINE A == {k \in Nat : w[k] \in Nat /\ w[k] > k}
<1>8. \A k \in Nat : k \in A
  <2>1. 0 \in A
    BY <1>7
  <2>2. \A k \in Nat : k \in A => k + 1 \in A
    BY <1>7
  <2> HIDE DEF A
  <2> QED
    BY <2>1, <2>2, InductionOverSet
<1> QED
  BY <1>5, <1>7, <1>8

\* The indices on the way up from leaf i.
LEMMA HalvedFacts ==
  ASSUME NEW i \in Nat
  PROVE  /\ Halved(i)[0] = i
         /\ \A k \in Nat : Halved(i)[k] \in Nat /\ Halved(i)[k + 1] = Halved(i)[k] \div 2
<1> DEFINE f == [k \in Nat |-> [x \in Nat |-> x \div 2]]
           R(w) == [k \in Nat |-> IF k = 0 THEN i ELSE w[k - 1] \div 2]
<1>1. f \in [Nat -> [Nat -> Nat]] /\ \A k, x \in Nat : f[k][x] = x \div 2
  OBVIOUS
<1> HIDE DEF f
<1>2. PICK g : Iterates(Nat, i, f, g)
  BY <1>1, RecursiveFunction
<1>3. g \in [Nat -> Nat] /\ g[0] = i /\ \A k \in Nat : g[k + 1] = g[k] \div 2
  BY <1>1, <1>2 DEF Iterates
<1>4. g = R(g)
  <2>1. ASSUME NEW k \in Nat PROVE g[k] = IF k = 0 THEN i ELSE g[k - 1] \div 2
    <3>1. CASE k # 0
      <4>1. k - 1 \in Nat /\ (k - 1) + 1 = k
        BY <3>1
      <4> QED
        BY <1>3, <3>1, <4>1
    <3> QED
      BY <1>3, <3>1
  <2> QED
    BY <1>3, <2>1
<1> DEFINE w == CHOOSE v : v = R(v)
<1>5. Halved(i) = w
  BY Zenon DEF Halved
<1>6. w = R(w)
  BY <1>4, Zenon
<1> HIDE DEF w
<1>7. w[0] = i /\ \A k \in Nat : w[k + 1] = w[k] \div 2
  <2>1. w[0] = R(w)[0] /\ \A k \in Nat : w[k + 1] = R(w)[k + 1]
    BY <1>6, Zenon
  <2>2. R(w)[0] = i
    OBVIOUS
  <2>3. ASSUME NEW k \in Nat PROVE R(w)[k + 1] = w[k] \div 2
    OBVIOUS
  <2> QED
    BY <2>1, <2>2, <2>3, Zenon
<1> DEFINE A == {k \in Nat : w[k] \in Nat}
<1>8. \A k \in Nat : k \in A
  <2>1. 0 \in A
    BY <1>7
  <2>2. \A k \in Nat : k \in A => k + 1 \in A
    BY <1>7
  <2> HIDE DEF A
  <2> QED
    BY <2>1, <2>2, InductionOverSet
<1> QED
  BY <1>5, <1>7, <1>8

\* ceil(log(c) / log(2)): the least power of two that is not below c.
LEMMA CeilLog2Facts ==
  ASSUME NEW c \in Nat \ {0}
  PROVE  CeilLog2(c) \in Nat /\ TwoTo[CeilLog2(c)] >= c
<1> DEFINE P(e) == TwoTo[e] >= c /\ \A d \in 0 .. e - 1 : TwoTo[d] < c
           S == {e \in Nat : TwoTo[e] >= c}
<1>1. c \in S
  BY TwoToFacts
<1>2. PICK e \in S : \A x \in S : e <= x
  BY <1>1, LeastNat
<1>3. e \in 0 .. c
  BY <1>1, <1>2
<1>4. P(e)
  <2> SUFFICES ASSUME NEW d \in 0 .. e - 1 PROVE TwoTo[d] < c
    BY <1>2
  <2>1. d \in Nat /\ ~(e <= d)
    BY <1>3
  <2>2. TwoTo[d] \in Nat
    BY <2>1, TwoToFacts
  <2> QED
    BY <1>2, <2>1, <2>2
<1>5. CeilLog2(c) = CHOOSE x \in 0 .. c : P(x)
  BY DEF CeilLog2
<1> HIDE DEF P, S
<1>6. CeilLog2(c) \in 0 .. c /\ P(CeilLog2(c))
  BY <1>3, <1>4, <1>5
<1> QED
  BY <1>6 DEF P

\* The number of elements of a sequence given by its elements.
LEMMA LenOf ==
  ASSUME NEW m \in Nat, NEW f, f = [i \in 1 .. m |-> f[i]]
  PROVE  Len(f) = m /\ f \in Seq({f[i] : i \in 1 .. m})
<1> DEFINE S == {f[i] : i \in 1 .. m}
<1>1. \A i \in 1 .. m : f[i] \in S
  OBVIOUS
<1> HIDE DEF S
<1>2. f \in [1 .. m -> S]
  BY <1>1
<1>3. f \in Seq(S)
  BY <1>2
<1>4. DOMAIN f = 1 .. Len(f) /\ Len(f) \in Nat /\ DOMAIN f = 1 .. m
  BY <1>2, <1>3, LenProperties
<1>5. Len(f) = m
  BY <1>4
<1> QED
  BY <1>3, <1>5 DEF S

\* The levels satisfy the equations of their definition: a function with these
\* values exists for every bound, by induction on the bound.
LEMMA LevelSteps ==
  ASSUME NEW s, Len(s) \in Nat
  PROVE  /\ Levels(s)[0] = s
         /\ \A k \in 1 .. Len(s) : Levels(s)[k] = Above(Levels(s)[k - 1])
<1> DEFINE N == Len(s)
           F(x) == Above(x)
           R(m, w) == [k \in 0 .. m |-> IF k = 0 THEN s ELSE F(w[k - 1])]
           A == {m \in Nat : \E g : g = R(m, g)}
<1>1. N \in Nat
  OBVIOUS
<1> HIDE DEF F, N
<1>2. 0 \in A
  <2> DEFINE g == [k \in 0 .. 0 |-> s]
  <2>1. g = R(0, g)
    OBVIOUS
  <2> HIDE DEF g
  <2> QED
    BY <2>1
<1>3. ASSUME NEW m \in Nat, m \in A PROVE m + 1 \in A
  <2>1. PICK g : g = R(m, g)
    BY <1>3
  <2>2. \A k \in 0 .. m : g[k] = IF k = 0 THEN s ELSE F(g[k - 1])
    BY <2>1, Zenon
  <2> DEFINE e == [k \in 0 .. m + 1 |-> IF k <= m THEN g[k] ELSE F(g[m])]
  <2>3. ASSUME NEW k \in 0 .. m + 1 PROVE e[k] = IF k = 0 THEN s ELSE F(e[k - 1])
    <3>1. CASE k = 0
      BY <2>2, <3>1
    <3>2. CASE k # 0 /\ k <= m
      <4>1. k \in 0 .. m /\ k - 1 \in 0 .. m + 1 /\ k - 1 <= m
        BY <3>2
      <4>2. e[k] = g[k] /\ e[k - 1] = g[k - 1]
        BY <3>2, <4>1
      <4> HIDE DEF e
      <4> QED
        BY <2>2, <3>2, <4>1, <4>2
    <3>3. CASE k = m + 1
      <4>1. k # 0 /\ ~(k <= m) /\ k - 1 = m /\ m \in 0 .. m + 1
        BY <3>3
      <4>2. e[k] = F(g[m]) /\ e[m] = g[m]
        BY <4>1
      <4> HIDE DEF e
      <4> QED
        BY <4>1, <4>2
    <3> QED
      BY <3>1, <3>2, <3>3
  <2>4. e = [k \in 0 .. m + 1 |-> e[k]]
    OBVIOUS
  <2> HIDE DEF e
  <2>5. e = R(m + 1, e)
    BY <2>3, <2>4, Zenon
  <2> QED
    BY <2>5
<1>4. \A m \in Nat : m \in A
  <2> HIDE DEF A
  <2> QED
    BY <1>2, <1>3, InductionOverSet
<1>5. \E g : g = R(N, g)
  BY <1>1, <1>4
<1> DEFINE w == CHOOSE v : v = R(N, v)
<1>6. Levels(s) = w
  BY Zenon DEF Levels, N, F
<1>7. w = R(N, w)
  BY <1>5, Zenon
<1> HIDE DEF w
<1>8. 0 \in 0 .. N /\ \A k \in 1 .. N : k \in 0 .. N /\ k # 0
  BY <1>1
<1>9. \A k \in 0 .. N : w[k] = IF k = 0 THEN s ELSE F(w[k - 1])
  BY <1>7, Zenon
<1>10. w[0] = s /\ \A k \in 1 .. N : w[k] = F(w[k - 1])
  BY <1>8, <1>9
<1> QED
  BY <1>6, <1>10 DEF N, F

\* Node x of level k over the leaves of c chains (counted from 0).
Node(c, k, x) == Levels(Leaves(c))[k][x + 1]

\* The nodes of level k: half as many as below, each the hash of a pair.
LEMMA LevelFacts ==
  ASSUME NEW c \in Nat \ {0}
  PROVE  LET K == CeilLog2(c)
             w == Levels(Leaves(c))
         IN  /\ Len(Leaves(c)) = TwoTo[K]
             /\ \A x \in 0 .. TwoTo[K] - 1 :
                   Node(c, 0, x) = IF x + 1 <= c THEN <<x + 1>> ELSE EMPTY_LEAF
             /\ \A k \in 0 .. K : Len(w[k]) = TwoTo[K - k]
             /\ \A k \in 1 .. K : \A x \in 0 .. TwoTo[K - k] - 1 :
                   Node(c, k, x) = <<Node(c, k - 1, 2 * x), Node(c, k - 1, 2 * x + 1)>>
<1> DEFINE K == CeilLog2(c)
           s == Leaves(c)
           w == Levels(s)
<1>1. K \in Nat /\ \A k \in 0 .. K : TwoTo[k] \in Nat /\ TwoTo[k] > k
  BY CeilLog2Facts, TwoToFacts
<1>2. s = [i \in 1 .. TwoTo[K] |-> IF i <= c THEN <<i>> ELSE EMPTY_LEAF]
  BY DEF Leaves
<1>3. Len(s) = TwoTo[K]
  <2>1. TwoTo[K] \in Nat
    BY <1>1
  <2>2. s = [i \in 1 .. TwoTo[K] |-> s[i]]
    BY <1>2
  <2> HIDE DEF s, K
  <2> QED
    BY <2>1, <2>2, LenOf
<1>4. \A x \in 0 .. TwoTo[K] - 1 : s[x + 1] = IF x + 1 <= c THEN <<x + 1>> ELSE EMPTY_LEAF
  BY <1>1, <1>2
<1>5. Len(s) \in Nat /\ K \in 0 .. Len(s)
  BY <1>1, <1>3
<1> HIDE DEF K, s
<1>6. w[0] = s /\ \A k \in 1 .. Len(s) : w[k] = Above(w[k - 1])
  BY <1>5, LevelSteps
<1> HIDE DEF w
<1>7. ASSUME NEW k \in 0 .. K - 1, Len(w[k]) = TwoTo[K - k]
      PROVE  /\ w[k + 1] = [i \in 1 .. TwoTo[K - (k + 1)] |-> <<w[k][2 * i - 1], w[k][2 * i]>>]
             /\ Len(w[k + 1]) = TwoTo[K - (k + 1)]
  <2> DEFINE h == TwoTo[K - (k + 1)]
  <2>1. k + 1 \in 1 .. Len(s) /\ (k + 1) - 1 = k /\ K - (k + 1) \in Nat
        /\ (K - (k + 1)) + 1 = K - k
    BY <1>1, <1>5
  <2>2. h \in Nat /\ TwoTo[K - k] = 2 * h
    BY <2>1, TwoToFacts
  <2> HIDE DEF h
  <2>3. (2 * h) \div 2 = h
    BY <2>2
  <2>4. w[k + 1] = Above(w[k])
    BY <1>6, <2>1
  <2>5. w[k + 1] = [i \in 1 .. h |-> <<w[k][2 * i - 1], w[k][2 * i]>>]
    BY <1>7, <2>2, <2>3, <2>4 DEF Above, sha256
  <2>6. w[k + 1] = [i \in 1 .. h |-> w[k + 1][i]]
    BY <2>5
  <2>7. Len(w[k + 1]) = h
    BY <2>2, <2>6, LenOf
  <2> QED
    BY <2>5, <2>7 DEF h
<1> DEFINE A == {k \in 0 .. K : Len(w[k]) = TwoTo[K - k]}
<1>8. \A k \in 0 .. K : k \in A
  <2>1. 0 \in A
    BY <1>1, <1>3, <1>6
  <2>2. ASSUME NEW k \in 0 .. K - 1, k \in A PROVE k + 1 \in A
    <3>1. Len(w[k]) = TwoTo[K - k] /\ k + 1 \in 0 .. K
      BY <1>1, <2>2
    <3>2. Len(w[k + 1]) = TwoTo[K - (k + 1)]
      BY <1>7, <3>1
    <3> QED
      BY <3>1, <3>2
  <2> HIDE DEF A
  <2> QED
    BY <1>1, <2>1, <2>2, InductionUpto
<1>9. \A k \in 0 .. K : Len(w[k]) = TwoTo[K - k]
  BY <1>8
<1>10. ASSUME NEW k \in 1 .. K, NEW x \in 0 .. TwoTo[K - k] - 1
       PROVE  w[k][x + 1] = <<w[k - 1][2 * x + 1], w[k - 1][(2 * x + 1) + 1]>>
  <2>1. k - 1 \in 0 .. K - 1 /\ k - 1 \in 0 .. K /\ (k - 1) + 1 = k /\ K - k \in 0 .. K
    BY <1>1
  <2> DEFINE h == TwoTo[K - k]
             v == w[k - 1]
  <2>2. Len(w[k - 1]) = TwoTo[K - (k - 1)]
    BY <1>9, <2>1
  <2>3. w[k] = [i \in 1 .. h |-> <<v[2 * i - 1], v[2 * i]>>]
    BY <1>7, <2>1, <2>2
  <2>4. h \in Nat
    BY <1>1, <2>1
  <2> HIDE DEF h, v
  <2>5. x + 1 \in 1 .. h /\ 2 * (x + 1) - 1 = 2 * x + 1 /\ 2 * (x + 1) = (2 * x + 1) + 1
    BY <2>4 DEF h
  <2>6. w[k][x + 1] = <<v[2 * (x + 1) - 1], v[2 * (x + 1)]>>
    BY <2>3, <2>5
  <2> QED
    BY <2>5, <2>6 DEF v
<1> QED
  BY <1>3, <1>4, <1>6, <1>9, <1>10 DEF Node, K, s, w

\* The number of rounds is the height of the tree, and the root its last level.
LEMMA RootIs ==
  ASSUME NEW c \in Nat \ {0}
  PROVE  /\ RoundsUp(Leaves(c)) = CeilLog2(c)
         /\ ComputeMerkleTreeRoot(Leaves(c)) = Node(c, CeilLog2(c), 0)
<1> DEFINE K == CeilLog2(c)
           s == Leaves(c)
           w == Levels(s)
           P(k) == Len(w[k]) <= 1 /\ \A j \in 0 .. k - 1 : Len(w[j]) > 1
<1>1. K \in Nat /\ \A k \in Nat : TwoTo[k] \in Nat /\ TwoTo[k] > k
  BY CeilLog2Facts, TwoToFacts
<1>2. Len(s) = TwoTo[K] /\ \A k \in 0 .. K : Len(w[k]) = TwoTo[K - k]
  BY LevelFacts
<1> HIDE DEF K, s, w
<1>3. K \in 0 .. Len(s)
  BY <1>1, <1>2
<1>4. P(K)
  <2>1. Len(w[K]) = 1
    <3>1. K \in 0 .. K /\ K - K = 0
      BY <1>1
    <3>2. Len(w[K]) = TwoTo[K - K]
      BY <1>2, <3>1
    <3> QED
      BY <3>1, <3>2, TwoToFacts
  <2>2. ASSUME NEW j \in 0 .. K - 1 PROVE Len(w[j]) > 1
    <3>1. j \in 0 .. K /\ K - j \in Nat /\ K - j >= 1
      BY <1>1
    <3>2. TwoTo[K - j] > K - j /\ TwoTo[K - j] \in Nat
      BY <1>1, <3>1
    <3> QED
      BY <1>2, <3>1, <3>2
  <2> QED
    BY <2>1, <2>2
<1>5. ASSUME NEW k \in 0 .. Len(s), P(k) PROVE k = K
  <2>1. ~(K < k)
    <3> SUFFICES ASSUME K < k PROVE FALSE
      OBVIOUS
    <3>1. K \in 0 .. k - 1
      BY <1>1
    <3> QED
      BY <1>4, <1>5, <3>1
  <2>2. ~(k < K)
    <3> SUFFICES ASSUME k < K PROVE FALSE
      OBVIOUS
    <3>1. k \in 0 .. K - 1
      BY <1>1
    <3> QED
      BY <1>4, <1>5, <3>1
  <2> QED
    BY <1>1, <2>1, <2>2
<1>6. RoundsUp(s) = CHOOSE k \in 0 .. Len(s) : P(k)
  BY DEF RoundsUp, w
<1> HIDE DEF P
<1>7. RoundsUp(s) = K
  BY <1>3, <1>4, <1>5, <1>6
<1>8. ComputeMerkleTreeRoot(s) = w[K][1]
  BY <1>7 DEF ComputeMerkleTreeRoot, w
<1>9. 0 + 1 = 1
  OBVIOUS
<1> QED
  BY <1>7, <1>8, <1>9 DEF Node, K, s, w

\* Half of an index, and the other one of its pair.
LEMMA Halves ==
  ASSUME NEW x \in Nat, NEW h \in Nat, x < 2 * h
  PROVE  /\ x \div 2 \in Nat /\ x \div 2 < h
         /\ AdjIndex(x) \in Nat /\ AdjIndex(x) < 2 * h /\ AdjIndex(x) # x
         /\ x % 2 = 1 => x = 2 * (x \div 2) + 1 /\ AdjIndex(x) = 2 * (x \div 2)
         /\ x % 2 # 1 => x = 2 * (x \div 2) /\ AdjIndex(x) = 2 * (x \div 2) + 1
<1> DEFINE d == x \div 2
           r == x % 2
<1>1. d \in Nat /\ r \in 0 .. 1 /\ x = 2 * d + r
  OBVIOUS
<1>2. AdjIndex(x) = IF r = 1 THEN x - 1 ELSE x + 1
  BY DEF AdjIndex
<1> HIDE DEF d, r
<1>3. CASE r = 1
  BY <1>1, <1>2, <1>3 DEF d, r
<1>4. CASE r = 0
  BY <1>1, <1>2, <1>4 DEF d, r
<1> QED
  BY <1>1, <1>3, <1>4

\* On the way up from a leaf the index stays inside its level, and reaches the
\* root.
LEMMA PathFacts ==
  ASSUME NEW c \in Nat \ {0}, NEW i \in 0 .. c - 1
  PROVE  LET K == CeilLog2(c)
             a == Halved(i)
         IN  /\ a[0] = i /\ a[K] = 0
             /\ \A k \in 0 .. K : a[k] \in Nat /\ a[k] < TwoTo[K - k]
             /\ \A k \in 0 .. K - 1 : a[k + 1] = a[k] \div 2
<1> DEFINE K == CeilLog2(c)
           a == Halved(i)
<1>1. K \in Nat /\ TwoTo[K] >= c /\ \A k \in Nat : TwoTo[k] \in Nat /\ TwoTo[k + 1] = 2 * TwoTo[k]
  BY CeilLog2Facts, TwoToFacts
<1>2. a[0] = i /\ \A k \in Nat : a[k] \in Nat /\ a[k + 1] = a[k] \div 2
  BY HalvedFacts
<1> HIDE DEF K, a
<1> DEFINE A == {k \in 0 .. K : a[k] < TwoTo[K - k]}
<1>3. \A k \in 0 .. K : k \in A
  <2>1. 0 \in A
    BY <1>1, <1>2
  <2>2. ASSUME NEW k \in 0 .. K - 1, k \in A PROVE k + 1 \in A
    <3> DEFINE h == TwoTo[K - (k + 1)]
               x == a[k]
    <3>1. k + 1 \in 0 .. K /\ k \in Nat /\ K - (k + 1) \in Nat /\ (K - (k + 1)) + 1 = K - k
      BY <1>1
    <3>2. h \in Nat /\ TwoTo[K - k] = 2 * h
      BY <1>1, <3>1
    <3>3. x \in Nat /\ x < 2 * h /\ a[k + 1] = x \div 2
      BY <1>2, <2>2, <3>1, <3>2
    <3> HIDE DEF h, x
    <3>4. x \div 2 < h
      BY <3>2, <3>3, Halves
    <3> QED
      BY <3>1, <3>3, <3>4 DEF h
  <2> HIDE DEF A
  <2> QED
    BY <1>1, <2>1, <2>2, InductionUpto
<1>4. a[K] = 0
  <2>1. K \in 0 .. K /\ K - K = 0
    BY <1>1
  <2>2. a[K] < TwoTo[0] /\ a[K] \in Nat
    BY <1>2, <1>3, <2>1
  <2> QED
    BY <2>2, TwoToFacts
<1>5. \A k \in 0 .. K - 1 : a[k + 1] = a[k] \div 2
  BY <1>1, <1>2
<1>6. \A k \in 0 .. K : a[k] \in Nat /\ a[k] < TwoTo[K - k]
  BY <1>1, <1>2, <1>3
<1> QED
  BY <1>2, <1>4, <1>5, <1>6 DEF K, a

\* Append of an element, by its places.
LEMMA AppendPlaces ==
  ASSUME NEW V, NEW q \in Seq(V), NEW e \in V
  PROVE  /\ q \o <<e>> \in Seq(V) /\ Append(q, e) = q \o <<e>>
         /\ Len(q \o <<e>>) = Len(q) + 1 /\ Len(q) \in Nat
         /\ \A j \in 1 .. Len(q) : (q \o <<e>>)[j] = q[j]
         /\ (q \o <<e>>)[Len(q) + 1] = e
<1>1. Append(q, e) = q \o <<e>>
  BY AppendIsConcat
<1>2. /\ Append(q, e) \in Seq(V) /\ Len(Append(q, e)) = Len(q) + 1 /\ Len(q) \in Nat
      /\ \A j \in 1 .. Len(q) : Append(q, e)[j] = q[j]
      /\ Append(q, e)[Len(q) + 1] = e
  BY AppendProperties, LenProperties
<1> QED
  BY <1>1, <1>2

\* The proof for leaf i: the leaf, its siblings on the way up, the root.
LEMMA ProofFacts ==
  ASSUME NEW c \in Nat \ {0}, NEW i \in 0 .. c - 1
  PROVE  LET K == CeilLog2(c)
             a == Halved(i)
             p == ComputeMerkleProof(Leaves(c), i)
         IN  /\ Len(p) = K + 2 /\ p[1] = Node(c, 0, i)
             /\ \A k \in 0 .. K - 1 : p[k + 2] = Node(c, k, AdjIndex(a[k]))
             /\ p[K + 2] = Node(c, K, 0)
<1> DEFINE K == CeilLog2(c)
           a == Halved(i)
           s == Leaves(c)
           tmp == Levels(s)
           first == s[i + 1]
           F(k, x) == x \o Sibling(tmp[k - 1], a[k - 1])
           R(m, w) == [k \in 0 .. m |-> IF k = 0 THEN <<first>> ELSE F(k, w[k - 1])]
           A == {m \in Nat : \E g : g = R(m, g)}
           node(k, x) == Node(c, k, x)
           other(k) == node(k, AdjIndex(a[k]))
           V == {first} \cup {other(k) : k \in 0 .. K} \cup {node(K, 0)}
<1>1. K \in Nat
  BY CeilLog2Facts
<1>2. first = node(0, i)
  <2>1. Len(s) \in Nat
    BY LevelFacts, CeilLog2Facts, TwoToFacts
  <2>2. tmp[0] = s
    BY <2>1, LevelSteps
  <2> QED
    BY <2>2 DEF Node
<1>3. ASSUME NEW k \in 1 .. K PROVE Sibling(tmp[k - 1], a[k - 1]) = <<other(k - 1)>>
  <2> DEFINE h == TwoTo[K - k]
             x == a[k - 1]
  <2>1. k - 1 \in 0 .. K /\ K - k \in Nat /\ (K - k) + 1 = K - (k - 1)
    BY <1>1
  <2>2. h \in Nat /\ TwoTo[K - (k - 1)] = 2 * h
    BY <2>1, TwoToFacts
  <2>3. Len(tmp[k - 1]) = 2 * h
    BY <2>1, <2>2, LevelFacts
  <2>4. x \in Nat /\ x < 2 * h
    BY <2>1, <2>2, PathFacts
  <2> HIDE DEF h
  <2>5. (2 * h) \div 2 = h
    BY <2>2
  <2> HIDE DEF x
  <2>6. AdjIndex(x) < 2 * h
    BY <2>2, <2>4, Halves
  <2>7. AdjIndex(x) < 2 * (Len(tmp[k - 1]) \div 2)
    BY <2>3, <2>5, <2>6
  <2> HIDE DEF tmp
  <2>8. Sibling(tmp[k - 1], x) = <<tmp[k - 1][AdjIndex(x) + 1]>>
    BY <2>7 DEF Sibling
  <2> QED
    BY <2>8 DEF x, tmp, Node
<1>4. first \in V /\ node(K, 0) \in V /\ \A k \in 0 .. K : other(k) \in V
  OBVIOUS
<1> HIDE DEF F, K, first, a, tmp, s, V, node, other
<1>5. 0 \in A
  <2> DEFINE g == [k \in 0 .. 0 |-> <<first>>]
  <2>1. g = R(0, g)
    OBVIOUS
  <2> HIDE DEF g
  <2> QED
    BY <2>1
<1>6. ASSUME NEW m \in Nat, m \in A PROVE m + 1 \in A
  <2>1. PICK g : g = R(m, g)
    BY <1>6
  <2>2. \A k \in 0 .. m : g[k] = IF k = 0 THEN <<first>> ELSE F(k, g[k - 1])
    BY <2>1, Zenon
  <2> DEFINE e == [k \in 0 .. m + 1 |-> IF k <= m THEN g[k] ELSE F(m + 1, g[m])]
  <2>3. ASSUME NEW k \in 0 .. m + 1 PROVE e[k] = IF k = 0 THEN <<first>> ELSE F(k, e[k - 1])
    <3>1. CASE k = 0
      BY <2>2, <3>1
    <3>2. CASE k # 0 /\ k <= m
      <4>1. k \in 0 .. m /\ k - 1 \in 0 .. m + 1 /\ k - 1 <= m
        BY <3>2
      <4>2. e[k] = g[k] /\ e[k - 1] = g[k - 1]
        BY <3>2, <4>1
      <4> HIDE DEF e
      <4> QED
        BY <2>2, <3>2, <4>1, <4>2
    <3>3. CASE k = m + 1
      <4>1. k # 0 /\ ~(k <= m) /\ k - 1 = m /\ m \in 0 .. m + 1
        BY <3>3
      <4>2. e[k] = F(m + 1, g[m]) /\ e[m] = g[m]
        BY <4>1
      <4> HIDE DEF e
      <4> QED
        BY <3>3, <4>1, <4>2
    <3> QED
      BY <3>1, <3>2, <3>3
  <2>4. e = [k \in 0 .. m + 1 |-> e[k]]
    OBVIOUS
  <2> HIDE DEF e
  <2>5. e = R(m + 1, e)
    BY <2>3, <2>4, Zenon
  <2> QED
    BY <2>5
<1>7. \A m \in Nat : m \in A
  <2> HIDE DEF A
  <2> QED
    BY <1>5, <1>6, InductionOverSet
<1>8. \E g : g = R(K, g)
  BY <1>1, <1>7
<1> DEFINE w == CHOOSE v : v = R(K, v)
<1>9. ComputeMerkleProof(s, i) = Append(w[K], node(K, 0))
  <2>1. RoundsUp(s) = K /\ tmp[K][1] = node(K, 0)
    <3>1. RoundsUp(s) = K
      BY RootIs DEF K, s
    <3>2. 0 + 1 = 1
      OBVIOUS
    <3> QED
      BY <3>1, <3>2 DEF tmp, node, Node, s
  <2>2. ComputeMerkleProof(s, i) =
          LET rounds == RoundsUp(s)
              proof[k \in 0 .. rounds] ==
                  IF k = 0 THEN <<first>>
                  ELSE proof[k - 1] \o Sibling(tmp[k - 1], a[k - 1])
          IN  Append(proof[rounds], tmp[rounds][1])
    BY Zenon DEF ComputeMerkleProof, tmp, a, first
  <2> QED
    BY <2>1, <2>2, Zenon DEF F
<1>10. w = R(K, w)
  BY <1>8, Zenon
<1> HIDE DEF w
<1>11. 0 \in 0 .. K /\ \A k \in 1 .. K : k \in 0 .. K /\ k # 0
  BY <1>1
<1>12. \A k \in 0 .. K : w[k] = IF k = 0 THEN <<first>> ELSE F(k, w[k - 1])
  BY <1>10, Zenon
<1>13. w[0] = <<first>> /\ \A k \in 1 .. K : w[k] = w[k - 1] \o <<other(k - 1)>>
  <2>1. w[0] = <<first>> /\ \A k \in 1 .. K : w[k] = F(k, w[k - 1])
    BY <1>11, <1>12
  <2> QED
    BY <1>3, <2>1 DEF F
<1> DEFINE Good(k) == /\ w[k] \in Seq(V) /\ Len(w[k]) = k + 1 /\ w[k][1] = first
                      /\ \A j \in 0 .. k - 1 : w[k][j + 2] = other(j)
           B == {k \in 0 .. K : Good(k)}
<1>14. \A k \in 0 .. K : k \in B
  <2>1. 0 \in B
    <3>1. <<first>> \in Seq(V) /\ Len(<<first>>) = 1 /\ <<first>>[1] = first
      BY <1>4
    <3>2. w[0] = <<first>> /\ 0 + 1 = 1 /\ 0 \in 0 .. K
      BY <1>11, <1>13
    <3>3. \A j \in 0 .. 0 - 1 : w[0][j + 2] = other(j)
      OBVIOUS
    <3>4. Good(0)
      <4>1. w[0] \in Seq(V) /\ w[0][1] = first
        BY <3>1, <3>2
      <4>2. Len(w[0]) = 0 + 1
        BY <3>1, <3>2
      <4> QED
        BY <3>3, <4>1, <4>2
    <3> HIDE DEF Good
    <3> QED
      BY <3>2, <3>4
  <2>2. ASSUME NEW k \in 0 .. K - 1, k \in B PROVE k + 1 \in B
    <3> DEFINE q == w[k]
               e == other(k)
    <3>1. k + 1 \in 1 .. K /\ (k + 1) - 1 = k /\ k \in 0 .. K /\ k + 1 \in 0 .. K /\ k \in Nat
      BY <1>1
    <3>2. w[k + 1] = q \o <<e>> /\ Good(k) /\ q \in Seq(V) /\ e \in V
      BY <1>4, <1>13, <2>2, <3>1
    <3>3. /\ q \o <<e>> \in Seq(V) /\ Len(q \o <<e>>) = Len(q) + 1
          /\ \A j \in 1 .. Len(q) : (q \o <<e>>)[j] = q[j]
          /\ (q \o <<e>>)[Len(q) + 1] = e
      <4> HIDE DEF q, e
      <4> QED
        BY <3>2, AppendPlaces
    <3> DEFINE z == q \o <<e>>
    <3>4. /\ z \in Seq(V) /\ Len(z) = k + 2 /\ z[k + 2] = e /\ w[k + 1] = z
          /\ \A j \in 1 .. k + 1 : z[j] = q[j]
      <4>1. Len(q) = k + 1 /\ Len(q) + 1 = k + 2
        BY <3>1, <3>2
      <4> HIDE DEF q, e, Good
      <4>2. Len(z) = Len(q) + 1 /\ z[Len(q) + 1] = e /\ z \in Seq(V) /\ w[k + 1] = z
            /\ \A j \in 1 .. Len(q) : z[j] = q[j]
        BY <3>2, <3>3
      <4> HIDE DEF z
      <4> QED
        BY <4>1, <4>2
    <3> HIDE DEF z
    <3>5. Good(k + 1)
      <4>1. z[1] = first
        BY <3>1, <3>2, <3>4
      <4>2. ASSUME NEW j \in 0 .. k PROVE z[j + 2] = other(j)
        <5>1. CASE j = k
          BY <3>4, <5>1
        <5>2. CASE j # k
          <6>1. j \in 0 .. k - 1 /\ j + 2 \in 1 .. k + 1
            BY <3>1, <5>2
          <6> QED
            BY <3>2, <3>4, <6>1
        <5> QED
          BY <5>1, <5>2
      <4>3. (k + 1) - 1 = k /\ (k + 1) + 1 = k + 2
        BY <3>1
      <4> QED
        BY <3>4, <4>1, <4>2, <4>3
    <3> QED
      BY <3>1, <3>5
  <2> HIDE DEF B
  <2> QED
    BY <1>1, <2>1, <2>2, InductionUpto
<1>15. Good(K) /\ node(K, 0) \in V
  <2>1. K \in 0 .. K
    BY <1>1
  <2> HIDE DEF Good, B
  <2>2. K \in B
    BY <1>14, <2>1
  <2>3. Good(K)
    BY <2>2 DEF B
  <2> QED
    BY <1>4, <2>3
<1> DEFINE q == w[K]
           e == node(K, 0)
           z == q \o <<e>>
<1>16. q \in Seq(V) /\ e \in V /\ Len(q) = K + 1
  BY <1>15
<1>17. /\ Append(q, e) = z /\ Len(z) = Len(q) + 1
       /\ \A j \in 1 .. Len(q) : z[j] = q[j]
       /\ z[Len(q) + 1] = e
  <2> HIDE DEF q, e
  <2> QED
    BY <1>16, AppendPlaces
<1>18. /\ ComputeMerkleProof(s, i) = z /\ Len(z) = K + 2 /\ z[K + 2] = e
       /\ \A j \in 1 .. K + 1 : z[j] = q[j]
  <2>1. ComputeMerkleProof(s, i) = Append(q, e)
    BY <1>9
  <2> HIDE DEF q, e
  <2>2. Len(q) + 1 = K + 2
    BY <1>1, <1>16
  <2> HIDE DEF z
  <2> QED
    BY <1>16, <1>17, <2>1, <2>2
<1> HIDE DEF z
<1>19. z[1] = first /\ \A k \in 0 .. K - 1 : z[k + 2] = other(k)
  <2>1. 1 \in 1 .. K + 1 /\ \A k \in 0 .. K - 1 : k + 2 \in 1 .. K + 1
    BY <1>1
  <2> QED
    BY <1>15, <1>18, <2>1
<1> QED
  BY <1>2, <1>18, <1>19 DEF K, s, a, node, other

\* h is the hash after each of the m rounds of verify_merkle_proof.
Climbs(p, b, i, m, h) ==
  /\ h[0] = <<b>>
  /\ \A k \in 1 .. m : h[k] = Combine(h[k - 1], p[k + 1], Halved(i)[k - 1])

\* The loop of verify_merkle_proof is such a row of hashes.
LEMMA ClimbFacts ==
  ASSUME NEW p, NEW b, NEW i, NEW K \in Nat, Len(p) = K + 2
  PROVE  \E h : Climbs(p, b, i, K, h) /\ Climb(p, b, i) = h[K]
<1> DEFINE a == Halved(i)
           F(k, x) == Combine(x, p[k + 1], a[k - 1])
           R(m, w) == [k \in 0 .. m |-> IF k = 0 THEN <<b>> ELSE F(k, w[k - 1])]
           A == {m \in Nat : \E g : g = R(m, g)}
<1>1. Len(p) - 2 = K
  OBVIOUS
<1> HIDE DEF F
<1>2. 0 \in A
  <2> DEFINE g == [k \in 0 .. 0 |-> <<b>>]
  <2>1. g = R(0, g)
    OBVIOUS
  <2> HIDE DEF g
  <2> QED
    BY <2>1
<1>3. ASSUME NEW m \in Nat, m \in A PROVE m + 1 \in A
  <2>1. PICK g : g = R(m, g)
    BY <1>3
  <2>2. \A k \in 0 .. m : g[k] = IF k = 0 THEN <<b>> ELSE F(k, g[k - 1])
    BY <2>1, Zenon
  <2> DEFINE e == [k \in 0 .. m + 1 |-> IF k <= m THEN g[k] ELSE F(m + 1, g[m])]
  <2>3. ASSUME NEW k \in 0 .. m + 1 PROVE e[k] = IF k = 0 THEN <<b>> ELSE F(k, e[k - 1])
    <3>1. CASE k = 0
      BY <2>2, <3>1
    <3>2. CASE k # 0 /\ k <= m
      <4>1. k \in 0 .. m /\ k - 1 \in 0 .. m + 1 /\ k - 1 <= m
        BY <3>2
      <4>2. e[k] = g[k] /\ e[k - 1] = g[k - 1]
        BY <3>2, <4>1
      <4> HIDE DEF e
      <4> QED
        BY <2>2, <3>2, <4>1, <4>2
    <3>3. CASE k = m + 1
      <4>1. k # 0 /\ ~(k <= m) /\ k - 1 = m /\ m \in 0 .. m + 1
        BY <3>3
      <4>2. e[k] = F(m + 1, g[m]) /\ e[m] = g[m]
        BY <4>1
      <4> HIDE DEF e
      <4> QED
        BY <3>3, <4>1, <4>2
    <3> QED
      BY <3>1, <3>2, <3>3
  <2>4. e = [k \in 0 .. m + 1 |-> e[k]]
    OBVIOUS
  <2> HIDE DEF e
  <2>5. e = R(m + 1, e)
    BY <2>3, <2>4, Zenon
  <2> QED
    BY <2>5
<1>4. \A m \in Nat : m \in A
  <2> HIDE DEF A
  <2> QED
    BY <1>2, <1>3, InductionOverSet
<1>5. \E g : g = R(K, g)
  BY <1>4
<1> DEFINE w == CHOOSE v : v = R(K, v)
<1>6. Climb(p, b, i) = w[K]
  <2>1. Climb(p, b, i) =
          LET top == Len(p) - 2
              h[k \in 0 .. top] == IF k = 0 THEN <<b>> ELSE F(k, h[k - 1])
          IN  h[top]
    BY Zenon DEF Climb, F
  <2> QED
    BY <1>1, <2>1, Zenon
<1>7. w = R(K, w)
  BY <1>5, Zenon
<1> HIDE DEF w
<1>8. 0 \in 0 .. K /\ \A k \in 1 .. K : k \in 0 .. K /\ k # 0
  OBVIOUS
<1>9. \A k \in 0 .. K : w[k] = IF k = 0 THEN <<b>> ELSE F(k, w[k - 1])
  BY <1>7, Zenon
<1>10. w[0] = <<b>> /\ \A k \in 1 .. K : w[k] = F(k, w[k - 1])
  BY <1>8, <1>9
<1>11. Climbs(p, b, i, K, w)
  BY <1>10 DEF Climbs, F
<1> QED
  BY <1>6, <1>11

\* A pair and its halves.
LEMMA NodeIsPair ==
  ASSUME NEW c \in Nat \ {0}, NEW k \in 0 .. CeilLog2(c) - 1,
         NEW x \in Nat, x < TwoTo[CeilLog2(c) - k]
  PROVE  /\ x \div 2 \in Nat /\ x \div 2 < TwoTo[CeilLog2(c) - (k + 1)]
         /\ AdjIndex(x) \in Nat /\ AdjIndex(x) < TwoTo[CeilLog2(c) - k] /\ AdjIndex(x) # x
         /\ x % 2 = 1 => Node(c, k + 1, x \div 2) = <<Node(c, k, AdjIndex(x)), Node(c, k, x)>>
         /\ x % 2 # 1 => Node(c, k + 1, x \div 2) = <<Node(c, k, x), Node(c, k, AdjIndex(x))>>
<1> DEFINE K == CeilLog2(c)
           h == TwoTo[K - (k + 1)]
           y == x \div 2
           z == AdjIndex(x)
<1>1. K \in Nat
  BY CeilLog2Facts
<1>2. k + 1 \in 1 .. K /\ (k + 1) - 1 = k /\ K - (k + 1) \in Nat /\ (K - (k + 1)) + 1 = K - k
  BY <1>1
<1>3. h \in Nat /\ TwoTo[K - k] = 2 * h
  BY <1>2, TwoToFacts
<1> HIDE DEF h
<1>4. x < 2 * h
  BY <1>3
<1>5. /\ y \in Nat /\ y < h
      /\ z \in Nat /\ z < 2 * h /\ z # x
      /\ x % 2 = 1 => x = 2 * y + 1 /\ z = 2 * y
      /\ x % 2 # 1 => x = 2 * y /\ z = 2 * y + 1
  BY <1>3, <1>4, Halves
<1> HIDE DEF y, z
<1>6. y \in 0 .. h - 1
  BY <1>3, <1>5
<1>7. Node(c, k + 1, y) = <<Node(c, k, 2 * y), Node(c, k, 2 * y + 1)>>
  <2>1. \A j \in 1 .. K : \A v \in 0 .. TwoTo[K - j] - 1 :
            Node(c, j, v) = <<Node(c, j - 1, 2 * v), Node(c, j - 1, 2 * v + 1)>>
    BY LevelFacts
  <2>2. \A v \in 0 .. TwoTo[K - (k + 1)] - 1 :
            Node(c, k + 1, v) = <<Node(c, (k + 1) - 1, 2 * v), Node(c, (k + 1) - 1, 2 * v + 1)>>
    BY <1>2, <2>1
  <2>3. y \in 0 .. TwoTo[K - (k + 1)] - 1
    BY <1>6 DEF h
  <2> HIDE DEF K
  <2> QED
    BY <1>2, <2>2, <2>3
<1>8. x % 2 = 1 => Node(c, k + 1, y) = <<Node(c, k, z), Node(c, k, x)>>
  BY <1>5, <1>7
<1>9. x % 2 # 1 => Node(c, k + 1, y) = <<Node(c, k, x), Node(c, k, z)>>
  BY <1>5, <1>7
<1> QED
  BY <1>3, <1>5, <1>8, <1>9 DEF h, y, z, K

\* Every proof the miner makes climbs the nodes over its leaf.
LEMMA OwnClimb ==
  ASSUME NEW c \in Nat \ {0}, NEW i \in 0 .. c - 1, NEW h,
         Climbs(ComputeMerkleProof(Leaves(c), i), i + 1, i, CeilLog2(c), h)
  PROVE  \A k \in 0 .. CeilLog2(c) : h[k] = Node(c, k, Halved(i)[k])
<1> DEFINE K == CeilLog2(c)
           a == Halved(i)
           p == ComputeMerkleProof(Leaves(c), i)
           A == {k \in 0 .. K : h[k] = Node(c, k, a[k])}
<1>1. K \in Nat /\ TwoTo[K] >= c /\ TwoTo[K] \in Nat
  BY CeilLog2Facts, TwoToFacts
<1>2. /\ a[0] = i
      /\ \A k \in 0 .. K : a[k] \in Nat /\ a[k] < TwoTo[K - k]
      /\ \A k \in 0 .. K - 1 : a[k + 1] = a[k] \div 2
  BY PathFacts
<1>3. \A k \in 0 .. K - 1 : p[k + 2] = Node(c, k, AdjIndex(a[k]))
  BY ProofFacts
<1>4. h[0] = <<i + 1>> /\ \A k \in 1 .. K : h[k] = Combine(h[k - 1], p[k + 1], a[k - 1])
  BY DEF Climbs
<1>5. 0 \in A
  <2>1. i \in 0 .. TwoTo[K] - 1 /\ i + 1 <= c /\ 0 \in 0 .. K
    BY <1>1
  <2>2. Node(c, 0, i) = <<i + 1>>
    BY <2>1, LevelFacts
  <2> QED
    BY <1>2, <1>4, <2>1, <2>2
<1> HIDE DEF K, a, p
<1>6. ASSUME NEW k \in 0 .. K - 1, k \in A PROVE k + 1 \in A
  <2> DEFINE x == a[k]
  <2>1. k \in 0 .. K /\ k + 1 \in 1 .. K /\ k + 1 \in 0 .. K /\ (k + 1) - 1 = k /\ (k + 1) + 1 = k + 2
    BY <1>1
  <2>2. x \in Nat /\ x < TwoTo[K - k] /\ a[k + 1] = x \div 2
    BY <1>2, <2>1
  <2>3. h[k + 1] = Combine(h[k], p[k + 2], x) /\ h[k] = Node(c, k, x)
    BY <1>4, <1>6, <2>1
  <2>4. p[k + 2] = Node(c, k, AdjIndex(x))
    BY <1>3
  <2> HIDE DEF x
  <2>5. /\ x % 2 = 1 => Node(c, k + 1, x \div 2) = <<Node(c, k, AdjIndex(x)), Node(c, k, x)>>
        /\ x % 2 # 1 => Node(c, k + 1, x \div 2) = <<Node(c, k, x), Node(c, k, AdjIndex(x))>>
    BY <2>2, NodeIsPair DEF K
  <2>6. h[k + 1] = Node(c, k + 1, x \div 2)
    BY <2>3, <2>4, <2>5 DEF Combine, sha256
  <2> QED
    BY <2>1, <2>2, <2>6
<1> HIDE DEF A
<1>7. \A k \in 0 .. K : k \in A
  BY <1>1, <1>5, <1>6, InductionUpto
<1> QED
  BY <1>7 DEF A, K, a

\* On every level the node over leaf i is different from all others: sha256 is
\* injective and the leaf of a chain is no other leaf.
LEMMA OwnNodeAlone ==
  ASSUME NEW c \in Nat \ {0}, NEW i \in 0 .. c - 1
  PROVE  \A k \in 0 .. CeilLog2(c) : \A x \in 0 .. TwoTo[CeilLog2(c) - k] - 1 :
            x # Halved(i)[k] => Node(c, k, x) # Node(c, k, Halved(i)[k])
<1> DEFINE K == CeilLog2(c)
           a == Halved(i)
           Alone(k) == \A x \in 0 .. TwoTo[K - k] - 1 : x # a[k] => Node(c, k, x) # Node(c, k, a[k])
           A == {k \in 0 .. K : Alone(k)}
<1>1. K \in Nat /\ TwoTo[K] >= c /\ TwoTo[K] \in Nat
  BY CeilLog2Facts, TwoToFacts
<1>2. /\ a[0] = i
      /\ \A k \in 0 .. K : a[k] \in Nat /\ a[k] < TwoTo[K - k]
      /\ \A k \in 0 .. K - 1 : a[k + 1] = a[k] \div 2
  BY PathFacts
<1>3. \A x \in 0 .. TwoTo[K] - 1 : Node(c, 0, x) = IF x + 1 <= c THEN <<x + 1>> ELSE EMPTY_LEAF
  BY LevelFacts
<1>4. \A k \in 1 .. K : \A x \in 0 .. TwoTo[K - k] - 1 :
          Node(c, k, x) = <<Node(c, k - 1, 2 * x), Node(c, k - 1, 2 * x + 1)>>
  BY LevelFacts
<1> HIDE DEF K, a
<1>5. 0 \in A
  <2>1. ASSUME NEW x \in 0 .. TwoTo[K] - 1, x # i PROVE Node(c, 0, x) # Node(c, 0, i)
    <3>1. i \in 0 .. TwoTo[K] - 1
      BY <1>1
    <3>2. Node(c, 0, i) = <<i + 1>>
      BY <1>3, <3>1
    <3>3. Node(c, 0, x) = <<x + 1>> \/ Node(c, 0, x) = <<0>>
      BY <1>3 DEF EMPTY_LEAF
    <3>4. <<x + 1>> # <<i + 1>> /\ <<0>> # <<i + 1>>
      <4>1. <<x + 1>>[1] = x + 1 /\ <<i + 1>>[1] = i + 1 /\ <<0>>[1] = 0
        OBVIOUS
      <4>2. x + 1 # i + 1 /\ 0 # i + 1
        BY <2>1
      <4> QED
        BY <4>1, <4>2
    <3> QED
      BY <3>2, <3>3, <3>4
  <2>2. 0 \in 0 .. K /\ K - 0 = K
    BY <1>1
  <2> QED
    BY <1>2, <2>1, <2>2
<1>6. ASSUME NEW k \in 0 .. K - 1, k \in A PROVE k + 1 \in A
  <2> DEFINE h == TwoTo[K - (k + 1)]
             y == a[k + 1]
  <2>1. k \in 0 .. K /\ k + 1 \in 1 .. K /\ k + 1 \in 0 .. K /\ (k + 1) - 1 = k
        /\ K - (k + 1) \in Nat /\ (K - (k + 1)) + 1 = K - k
    BY <1>1
  <2>2. h \in Nat /\ TwoTo[K - k] = 2 * h
    BY <2>1, TwoToFacts
  <2>3. y \in Nat /\ y < h
    BY <1>2, <2>1
  <2>4. a[k] = 2 * y \/ a[k] = 2 * y + 1
    BY <1>2, <2>1
  <2>5. Alone(k)
    BY <1>6
  <2>6. ASSUME NEW x \in 0 .. h - 1, x # y PROVE Node(c, k + 1, x) # Node(c, k + 1, y)
    <3>1. y \in 0 .. h - 1
      BY <2>2, <2>3
    <3>2. /\ Node(c, k + 1, x) = <<Node(c, k, 2 * x), Node(c, k, 2 * x + 1)>>
          /\ Node(c, k + 1, y) = <<Node(c, k, 2 * y), Node(c, k, 2 * y + 1)>>
      BY <1>4, <2>1, <2>6, <3>1
    <3>3. 2 * x \in 0 .. 2 * h - 1 /\ 2 * x + 1 \in 0 .. 2 * h - 1
      BY <2>2
    <3>4. 2 * x # 2 * y /\ 2 * x + 1 # 2 * y + 1
      BY <2>3, <2>6
    <3>5. \A v \in 0 .. 2 * h - 1 : v # a[k] => Node(c, k, v) # Node(c, k, a[k])
      BY <2>2, <2>5
    <3>6. CASE a[k] = 2 * y
      <4>1. Node(c, k, 2 * x) # Node(c, k, 2 * y)
        BY <3>3, <3>4, <3>5, <3>6
      <4> QED
        BY <3>2, <4>1
    <3>7. CASE a[k] = 2 * y + 1
      <4>1. Node(c, k, 2 * x + 1) # Node(c, k, 2 * y + 1)
        BY <3>3, <3>4, <3>5, <3>7
      <4> QED
        BY <3>2, <4>1
    <3> QED
      BY <2>4, <3>6, <3>7
  <2>7. Alone(k + 1)
    BY <2>6
  <2> HIDE DEF Alone
  <2> QED
    BY <2>1, <2>7
<1>7. \A k \in 0 .. K : k \in A
  <2> HIDE DEF A
  <2> QED
    BY <1>1, <1>5, <1>6, InductionUpto
<1>8. \A k \in 0 .. K : Alone(k)
  BY <1>7
<1> QED
  BY <1>8 DEF K, a

\* What a proof of leaf i shows: a climb from another parent or with another
\* index that reaches the root took the same way, so it began at the same leaf.
LEMMA OnlyClimb ==
  ASSUME NEW c \in Nat \ {0}, NEW i \in 0 .. c - 1, NEW j \in 0 .. c - 1, NEW b \in Nat, NEW h,
         Climbs(ComputeMerkleProof(Leaves(c), i), b, j, CeilLog2(c), h),
         h[CeilLog2(c)] = Node(c, CeilLog2(c), 0)
  PROVE  b = i + 1 /\ j = i
<1> DEFINE K == CeilLog2(c)
           a == Halved(i)
           u == Halved(j)
           p == ComputeMerkleProof(Leaves(c), i)
           A == {d \in 0 .. K : h[K - d] = Node(c, K - d, a[K - d]) /\ u[K - d] = a[K - d]}
<1>1. K \in Nat /\ TwoTo[K] >= c /\ TwoTo[K] \in Nat
  BY CeilLog2Facts, TwoToFacts
<1>2. /\ a[0] = i /\ a[K] = 0
      /\ \A k \in 0 .. K : a[k] \in Nat /\ a[k] < TwoTo[K - k]
      /\ \A k \in 0 .. K - 1 : a[k + 1] = a[k] \div 2
  BY PathFacts
<1>3. /\ u[0] = j /\ u[K] = 0
      /\ \A k \in 0 .. K : u[k] \in Nat /\ u[k] < TwoTo[K - k]
      /\ \A k \in 0 .. K - 1 : u[k + 1] = u[k] \div 2
  BY PathFacts
<1>4. \A k \in 0 .. K - 1 : p[k + 2] = Node(c, k, AdjIndex(a[k]))
  BY ProofFacts
<1>5. h[0] = <<b>> /\ \A k \in 1 .. K : h[k] = Combine(h[k - 1], p[k + 1], u[k - 1])
  BY DEF Climbs
<1>6. h[K] = Node(c, K, 0)
  OBVIOUS
<1>7. \A k \in 0 .. K : \A x \in 0 .. TwoTo[K - k] - 1 :
          x # a[k] => Node(c, k, x) # Node(c, k, a[k])
  BY OwnNodeAlone
<1>8. Node(c, 0, i) = <<i + 1>>
  <2>1. i \in 0 .. TwoTo[K] - 1 /\ i + 1 <= c
    BY <1>1
  <2> QED
    BY <2>1, LevelFacts
<1> HIDE DEF K, a, u, p
<1>9. 0 \in A
  <2>1. K - 0 = K /\ 0 \in 0 .. K
    BY <1>1
  <2> QED
    BY <1>2, <1>3, <1>6, <2>1
<1>10. ASSUME NEW d \in 0 .. K - 1, d \in A PROVE d + 1 \in A
  <2> DEFINE k == K - (d + 1)
             x == a[k]
             y == u[k]
             z == AdjIndex(x)
  <2>1. k \in 0 .. K - 1 /\ k \in 0 .. K /\ k + 1 \in 1 .. K /\ (k + 1) - 1 = k
        /\ (k + 1) + 1 = k + 2 /\ k + 1 = K - d /\ d + 1 \in 0 .. K
    BY <1>1
  <2> HIDE DEF k
  <2>2. /\ x \in Nat /\ x < TwoTo[K - k] /\ a[k + 1] = x \div 2
        /\ y \in Nat /\ u[k + 1] = y \div 2
    BY <1>2, <1>3, <2>1
  <2>3. h[k + 1] = Node(c, k + 1, x \div 2) /\ y \div 2 = x \div 2
    BY <1>10, <2>1, <2>2
  <2>4. h[k + 1] = Combine(h[k], p[k + 2], y)
    BY <1>5, <2>1
  <2>5. p[k + 2] = Node(c, k, z)
    BY <1>4, <2>1
  <2>6. x = a[k]
    OBVIOUS
  <2> HIDE DEF x, y
  <2>7. /\ z \in Nat /\ z < TwoTo[K - k] /\ z # x
        /\ x % 2 = 1 => Node(c, k + 1, x \div 2) = <<Node(c, k, z), Node(c, k, x)>>
        /\ x % 2 # 1 => Node(c, k + 1, x \div 2) = <<Node(c, k, x), Node(c, k, z)>>
    BY <2>1, <2>2, NodeIsPair DEF K
  <2> HIDE DEF z
  <2>8. Node(c, k, z) # Node(c, k, x)
    <3>1. TwoTo[K - k] \in Nat
      BY <1>1, <2>1, TwoToFacts
    <3>2. z \in 0 .. TwoTo[K - k] - 1
      BY <2>7, <3>1
    <3> QED
      BY <1>7, <2>1, <2>6, <2>7, <3>2
  <2>9. x % 2 \in 0 .. 1 /\ y % 2 \in 0 .. 1 /\ x = 2 * (x \div 2) + (x % 2)
        /\ y = 2 * (y \div 2) + (y % 2)
    BY <2>2
  <2>10. h[k] = Node(c, k, x) /\ y = x
    <3>1. CASE x % 2 = 1
      <4>1. h[k + 1] = <<Node(c, k, z), Node(c, k, x)>>
        BY <2>3, <2>7, <3>1
      <4>2. y % 2 = 1
        <5> SUFFICES ASSUME y % 2 # 1 PROVE FALSE
          OBVIOUS
        <5>1. h[k + 1] = <<h[k], Node(c, k, z)>>
          BY <2>4, <2>5 DEF Combine, sha256
        <5> QED
          BY <2>8, <4>1, <5>1
      <4>3. h[k + 1] = <<Node(c, k, z), h[k]>>
        BY <2>4, <2>5, <4>2 DEF Combine, sha256
      <4>4. y = x
        BY <2>3, <2>9, <3>1, <4>2
      <4> QED
        BY <4>1, <4>3, <4>4
    <3>2. CASE x % 2 # 1
      <4>1. h[k + 1] = <<Node(c, k, x), Node(c, k, z)>>
        BY <2>3, <2>7, <3>2
      <4>2. y % 2 # 1
        <5> SUFFICES ASSUME y % 2 = 1 PROVE FALSE
          OBVIOUS
        <5>1. h[k + 1] = <<Node(c, k, z), h[k]>>
          BY <2>4, <2>5 DEF Combine, sha256
        <5> QED
          BY <2>8, <4>1, <5>1
      <4>3. h[k + 1] = <<h[k], Node(c, k, z)>>
        BY <2>4, <2>5, <4>2 DEF Combine, sha256
      <4>4. y = x
        <5>1. y % 2 = 0 /\ x % 2 = 0
          BY <2>9, <3>2, <4>2
        <5> QED
          BY <2>3, <2>9, <5>1
      <4> QED
        BY <4>1, <4>3, <4>4
    <3> QED
      BY <3>1, <3>2
  <2> QED
    BY <2>1, <2>10 DEF k, x, y
<1>11. \A d \in 0 .. K : d \in A
  <2> HIDE DEF A
  <2> QED
    BY <1>1, <1>9, <1>10, InductionUpto
<1>12. h[0] = Node(c, 0, a[0]) /\ u[0] = a[0]
  <2>1. K \in 0 .. K /\ K - K = 0
    BY <1>1
  <2>2. K \in A
    BY <1>11, <2>1
  <2> QED
    BY <2>1, <2>2
<1>13. <<b>> = <<i + 1>>
  BY <1>2, <1>5, <1>8, <1>12
<1>14. <<b>>[1] = b /\ <<i + 1>>[1] = i + 1
  OBVIOUS
<1> QED
  BY <1>2, <1>3, <1>12, <1>13, <1>14

\* Node x of level k is the reference tree over the 2^k leaves from x * 2^k on.
LEMMA NodeIsReference ==
  ASSUME NEW c \in Nat \ {0}
  PROVE  Node(c, CeilLog2(c), 0) = Reference(c)[CeilLog2(c)][0]
<1> DEFINE K == CeilLog2(c)
           Lift(k, v) == [lo \in Nat |-> IF k = 0 THEN (IF lo < c THEN <<lo + 1>> ELSE <<0>>)
                                         ELSE <<v[lo], v[lo + TwoTo[k - 1]]>>]
           R(m, w) == [k \in 0 .. m |-> Lift(k, w[k - 1])]
           A == {m \in Nat : \E g : g = R(m, g)}
<1>1. K \in Nat /\ TwoTo[K] \in Nat
  BY CeilLog2Facts, TwoToFacts
<1>2. ASSUME NEW k \in Nat, NEW v
      PROVE  /\ k = 0 => \A lo \in Nat : Lift(k, v)[lo] = IF lo < c THEN <<lo + 1>> ELSE <<0>>
             /\ k # 0 => \A lo \in Nat : Lift(k, v)[lo] = <<v[lo], v[lo + TwoTo[k - 1]]>>
  OBVIOUS
<1>3. ASSUME NEW v, NEW u PROVE Lift(0, v) = Lift(0, u)
  OBVIOUS
<1> HIDE DEF Lift, K
<1>4. 0 \in A
  <2> DEFINE g == [k \in 0 .. 0 |-> Lift(k, 0)]
  <2>1. g[0] = Lift(0, 0) /\ Lift(0, 0) = Lift(0, g[0 - 1])
    BY <1>3
  <2>2. g = R(0, g)
    <3>1. g = [k \in 0 .. 0 |-> g[k]]
      OBVIOUS
    <3> HIDE DEF g
    <3>2. \A k \in 0 .. 0 : g[k] = Lift(k, g[k - 1])
      BY <2>1
    <3> QED
      BY <3>1, <3>2, Zenon
  <2> HIDE DEF g
  <2> QED
    BY <2>2
<1>5. ASSUME NEW m \in Nat, m \in A PROVE m + 1 \in A
  <2>1. PICK g : g = R(m, g)
    BY <1>5
  <2>2. \A k \in 0 .. m : g[k] = Lift(k, g[k - 1])
    BY <2>1, Zenon
  <2> DEFINE e == [k \in 0 .. m + 1 |-> IF k <= m THEN g[k] ELSE Lift(m + 1, g[m])]
  <2>3. ASSUME NEW k \in 0 .. m + 1 PROVE e[k] = Lift(k, e[k - 1])
    <3>1. CASE k = 0
      <4>1. e[0] = g[0] /\ 0 \in 0 .. m
        OBVIOUS
      <4> HIDE DEF e
      <4>2. e[0] = Lift(0, g[0 - 1])
        BY <2>2, <4>1
      <4>3. Lift(0, g[0 - 1]) = Lift(0, e[0 - 1])
        BY <1>3
      <4> QED
        BY <3>1, <4>2, <4>3
    <3>2. CASE k # 0 /\ k <= m
      <4>1. k \in 0 .. m /\ k - 1 \in 0 .. m + 1 /\ k - 1 <= m
        BY <3>2
      <4>2. e[k] = g[k] /\ e[k - 1] = g[k - 1]
        BY <3>2, <4>1
      <4> HIDE DEF e
      <4> QED
        BY <2>2, <3>2, <4>1, <4>2
    <3>3. CASE k = m + 1
      <4>1. k # 0 /\ ~(k <= m) /\ k - 1 = m /\ m \in 0 .. m + 1
        BY <3>3
      <4>2. e[k] = Lift(m + 1, g[m]) /\ e[m] = g[m]
        BY <4>1
      <4> HIDE DEF e
      <4> QED
        BY <3>3, <4>1, <4>2
    <3> QED
      BY <3>1, <3>2, <3>3
  <2>4. e = [k \in 0 .. m + 1 |-> e[k]]
    OBVIOUS
  <2> HIDE DEF e
  <2>5. e = R(m + 1, e)
    BY <2>3, <2>4, Zenon
  <2> QED
    BY <2>5
<1>6. \A m \in Nat : m \in A
  <2> HIDE DEF A
  <2> QED
    BY <1>4, <1>5, InductionOverSet
<1>7. \E g : g = R(K, g)
  BY <1>1, <1>6
<1> DEFINE w == CHOOSE v : v = R(K, v)
<1>8. Reference(c) = w
  BY Zenon DEF Reference, K, Lift
<1>9. w = R(K, w)
  BY <1>7, Zenon
<1> HIDE DEF w
<1>10. \A k \in 0 .. K : w[k] = Lift(k, w[k - 1])
  BY <1>9, Zenon
<1>11. \A lo \in Nat : w[0][lo] = IF lo < c THEN <<lo + 1>> ELSE <<0>>
  <2>1. 0 \in 0 .. K /\ 0 \in Nat
    BY <1>1
  <2>2. PICK v : w[0] = Lift(0, v)
    BY <1>10, <2>1, Zenon
  <2>3. \A lo \in Nat : Lift(0, v)[lo] = IF lo < c THEN <<lo + 1>> ELSE <<0>>
    BY DEF Lift
  <2> QED
    BY <2>2, <2>3, Zenon
<1>12. ASSUME NEW k \in 1 .. K, NEW lo \in Nat
       PROVE  w[k][lo] = <<w[k - 1][lo], w[k - 1][lo + TwoTo[k - 1]]>>
  <2>1. k \in Nat /\ k # 0 /\ k \in 0 .. K
    BY <1>1
  <2> QED
    BY <1>2, <1>10, <2>1
<1> DEFINE Same(k) == \A x \in 0 .. TwoTo[K - k] - 1 : Node(c, k, x) = w[k][x * TwoTo[k]]
           B == {k \in 0 .. K : Same(k)}
<1>13. 0 \in B
  <2>1. 0 \in 0 .. K /\ K - 0 = K /\ TwoTo[0] = 1
    BY <1>1, TwoToFacts
  <2>2. ASSUME NEW x \in 0 .. TwoTo[K] - 1 PROVE Node(c, 0, x) = w[0][x * TwoTo[0]]
    <3>1. x \in Nat /\ x * TwoTo[0] = x
      BY <1>1, <2>1
    <3>2. Node(c, 0, x) = IF x + 1 <= c THEN <<x + 1>> ELSE <<0>>
      BY <2>2, LevelFacts DEF K, EMPTY_LEAF
    <3>3. w[0][x * TwoTo[0]] = IF x < c THEN <<x + 1>> ELSE <<0>>
      BY <1>11, <3>1
    <3>4. x + 1 <= c <=> x < c
      BY <3>1
    <3> QED
      BY <3>2, <3>3, <3>4
  <2> QED
    BY <2>1, <2>2
<1>14. ASSUME NEW k \in 0 .. K - 1, k \in B PROVE k + 1 \in B
  <2> DEFINE h == TwoTo[K - (k + 1)]
             t == TwoTo[k]
  <2>1. k \in 0 .. K /\ k + 1 \in 1 .. K /\ k + 1 \in 0 .. K /\ (k + 1) - 1 = k /\ k \in Nat
        /\ K - (k + 1) \in Nat /\ (K - (k + 1)) + 1 = K - k
    BY <1>1
  <2>2. h \in Nat /\ TwoTo[K - k] = 2 * h /\ t \in Nat /\ TwoTo[k + 1] = 2 * t
    BY <2>1, TwoToFacts
  <2>3. Same(k)
    BY <1>14
  <2>4. ASSUME NEW x \in 0 .. h - 1 PROVE Node(c, k + 1, x) = w[k + 1][x * TwoTo[k + 1]]
    <3>1. Node(c, k + 1, x) = <<Node(c, k, 2 * x), Node(c, k, 2 * x + 1)>>
      BY <2>1, <2>4, LevelFacts DEF K
    <3>2. 2 * x \in 0 .. 2 * h - 1 /\ 2 * x + 1 \in 0 .. 2 * h - 1
      BY <2>2
    <3>3. \A v \in 0 .. 2 * h - 1 : Node(c, k, v) = w[k][v * t]
      BY <2>2, <2>3
    <3>4. Node(c, k, 2 * x) = w[k][(2 * x) * t] /\ Node(c, k, 2 * x + 1) = w[k][(2 * x + 1) * t]
      BY <3>2, <3>3
    <3> DEFINE y == x * t
    <3>5. x \in Int /\ t \in Int /\ x >= 0 /\ t >= 0
      BY <2>2
    <3>6. y \in Int /\ y >= 0
      <4> HIDE DEF t
      <4> QED
        BY <3>5
    <3>7. (2 * x) * t = 2 * y /\ (2 * x + 1) * t = 2 * y + t /\ x * (2 * t) = 2 * y
      <4> HIDE DEF t
      <4> QED
        BY <3>5
    <3> HIDE DEF y
    <3>8. 2 * y \in Nat
      BY <3>6
    <3>9. w[k + 1][2 * y] = <<w[k][2 * y], w[k][2 * y + t]>>
      BY <1>12, <2>1, <3>8
    <3> QED
      BY <2>2, <3>1, <3>4, <3>7, <3>9
  <2>5. Same(k + 1)
    BY <2>4
  <2> HIDE DEF Same
  <2> QED
    BY <2>1, <2>5
<1>15. \A k \in 0 .. K : k \in B
  <2> HIDE DEF B
  <2> QED
    BY <1>1, <1>13, <1>14, InductionUpto
<1>16. Node(c, K, 0) = w[K][0]
  <2>1. K \in 0 .. K /\ K - K = 0
    BY <1>1
  <2>2. Same(K)
    BY <1>15, <2>1
  <2>3. 0 \in 0 .. TwoTo[K - K] - 1 /\ 0 * TwoTo[K] = 0
    BY <1>1, <2>1, TwoToFacts
  <2> QED
    BY <2>2, <2>3
<1> QED
  BY <1>8, <1>16 DEF K

\* A proof is accepted with its own parent and chain, and with no other.
LEMMA Accepted ==
  ASSUME NEW c \in Nat \ {0}, NEW i \in 0 .. c - 1, NEW j \in 0 .. c - 1, NEW b \in Nat
  PROVE  LET p == ComputeMerkleProof(Leaves(c), i)
         IN  /\ VerifyMerkleProof(p, b, ComputeMerkleTreeRoot(Leaves(c)), j)
                  <=> (b = i + 1 /\ j = i)
             /\ Len(p) = MerkleProofLength(c)
<1> DEFINE K == CeilLog2(c)
           p == ComputeMerkleProof(Leaves(c), i)
           root == ComputeMerkleTreeRoot(Leaves(c))
           top == Node(c, K, 0)
           Verified == VerifyMerkleProof(p, b, root, j)
<1>1. K \in Nat /\ TwoTo[K] >= c /\ TwoTo[K] \in Nat
  BY CeilLog2Facts, TwoToFacts
<1>2. Len(p) = K + 2 /\ p[1] = Node(c, 0, i) /\ p[K + 2] = top
  BY ProofFacts
<1>3. root = top
  BY RootIs
<1>4. Node(c, 0, i) = <<i + 1>>
  <2>1. i \in 0 .. TwoTo[K] - 1 /\ i + 1 <= c
    BY <1>1
  <2> QED
    BY <2>1, LevelFacts
<1>5. \E h : Climbs(p, b, j, K, h) /\ Climb(p, b, j) = h[K]
  <2> HIDE DEF p, K
  <2> QED
    BY <1>1, <1>2, ClimbFacts
<1>6. PICK h : Climbs(p, b, j, K, h) /\ Climb(p, b, j) = h[K]
  BY <1>5
<1>7. Last(p) = top
  BY <1>2 DEF Last
<1>8. Verified <=> ((p[1] = <<b>> \/ p[2] = <<b>>) /\ Last(p) = h[K] /\ root = h[K])
  BY <1>6 DEF VerifyMerkleProof
<1>9. ASSUME b = i + 1, j = i PROVE Verified
  <2>1. \A k \in 0 .. K : h[k] = Node(c, k, Halved(i)[k])
    BY <1>6, <1>9, OwnClimb
  <2>2. Halved(i)[K] = 0 /\ K \in 0 .. K
    BY <1>1, PathFacts
  <2>3. h[K] = top
    BY <2>1, <2>2
  <2>4. p[1] = <<b>>
    BY <1>2, <1>4, <1>9
  <2> HIDE DEF Verified, p, root, top, K
  <2> QED
    BY <1>3, <1>7, <1>8, <2>3, <2>4
<1>10. ASSUME Verified PROVE b = i + 1 /\ j = i
  <2>1. h[K] = top
    BY <1>3, <1>8, <1>10
  <2> QED
    BY <1>6, <2>1, OnlyClimb
<1>11. Len(p) = MerkleProofLength(c)
  <2> HIDE DEF p
  <2> QED
    BY <1>1, <1>2 DEF MerkleProofLength
<1> QED
  BY <1>9, <1>10, <1>11

\* The miner's chain is one of the network's, and the receiver checks a parent
\* and an id of one of its chains.
MerkleTypeOK ==
  /\ n \in Nat \ {0} /\ index \in 0 .. n - 1
  /\ bh \in 1 .. n /\ id \in 0 .. n - 1

\* It is inductive.
LEMMA MerkleTypes == MerkleSpec => []MerkleTypeOK
<1>1. MerkleInit => MerkleTypeOK
  BY MaxChainsAssumption DEF MerkleInit, MerkleTypeOK
<1>2. MerkleTypeOK /\ [MerkleNext]_merkleVars => MerkleTypeOK'
  <2> SUFFICES ASSUME MerkleTypeOK, [MerkleNext]_merkleVars PROVE MerkleTypeOK'
    OBVIOUS
  <2>1. ASSUME NEW i \in 0 .. n - 1, Mine(i) PROVE MerkleTypeOK'
    BY <2>1 DEF MerkleTypeOK, Mine
  <2>2. ASSUME NEW i \in 0 .. n - 1, NEW b \in 1 .. n, Check(b, i) PROVE MerkleTypeOK'
    BY <2>2 DEF MerkleTypeOK, Check
  <2>3. CASE UNCHANGED merkleVars
    BY <2>3 DEF MerkleTypeOK, merkleVars
  <2> QED
    BY <2>1, <2>2, <2>3 DEF MerkleNext
<1> QED
  BY <1>1, <1>2, PTL DEF MerkleSpec

\* For any number of chains the root the miner hashes covers every chain at its
\* place (compute_merkle_tree_root).
THEOREM RootSafety == MerkleSpec => []RootCoversAllChains
<1>1. MerkleTypeOK => RootCoversAllChains
  BY RootIs, NodeIsReference DEF MerkleTypeOK, RootCoversAllChains, Root
<1> QED
  BY <1>1, MerkleTypes, PTL

\* For any number of chains a block is accepted exactly with its own parent and
\* chain, by a proof of the length that is parsed (verify_merkle_proof).
THEOREM PlaceSafety == MerkleSpec => []AcceptedIffItsPlace
<1>1. MerkleTypeOK => AcceptedIffItsPlace
  <2> SUFFICES ASSUME MerkleTypeOK PROVE AcceptedIffItsPlace
    OBVIOUS
  <2>1. n \in Nat \ {0} /\ index \in 0 .. n - 1 /\ bh \in Nat /\ id \in 0 .. n - 1
    BY DEF MerkleTypeOK
  <2>2. /\ VerifyMerkleProof(ComputeMerkleProof(Leaves(n), index), bh,
                             ComputeMerkleTreeRoot(Leaves(n)), id)
             <=> (bh = index + 1 /\ id = index)
        /\ Len(ComputeMerkleProof(Leaves(n), index)) = MerkleProofLength(n)
    BY <2>1, Accepted
  <2> QED
    BY <2>2 DEF AcceptedIffItsPlace, Proof, Root
<1> QED
  BY <1>1, MerkleTypes, PTL

------------------------------------------------------------------------------
(* The transaction pool *)

Slot == [from : Clients, seq : 0 .. MAX_SEQ + 1]
Maps == {S \in SUBSET Tx : OnePerKey(S)}

\* The values pool can have.
PoolSet ==
    [next_seqs : [Clients -> 0 .. MAX_SEQ + 1], pending : Maps, mempool : Seq(Tx),
     dependencies : [Key -> Seq(Slot)], last_promised : Key \cup {EMPTY}]

\* The parts of a transaction.
LEMMA TxParts ==
  ASSUME NEW t \in Tx
  PROVE  /\ t.from \in Clients /\ t.seq \in 0 .. MAX_SEQ /\ t.dep \in Key \cup {EMPTY}
         /\ KeyOf(t) \in Key /\ KeyOf(t).from = t.from /\ KeyOf(t).seq = t.seq
BY DEF Tx, Key, KeyOf

\* A key is a slot of the map dependencies.
LEMMA KeyParts ==
  ASSUME NEW k \in Key
  PROVE  /\ k.from \in Clients /\ k.seq \in 0 .. MAX_SEQ /\ k \in Slot
BY BoundsAssumption DEF Key, Slot

\* Putting a transaction into a map replaces the one with its key.
LEMMA PutMap ==
  ASSUME NEW S \in Maps, NEW tx \in Tx
  PROVE  /\ Put(S, tx) \in Maps
         /\ With(S, KeyOf(tx)) = {} => S \cup {tx} \in Maps
         /\ \A T \in SUBSET S : T \in Maps
BY DEF Maps, OnePerKey, Put, With

\* check_dependencies notes at most that a transaction waits.
LEMMA SavedPool ==
  ASSUME NEW p \in PoolSet, NEW from \in Clients, NEW seq \in 0 .. MAX_SEQ + 1,
         NEW dep \in Key \cup {EMPTY}
  PROVE  /\ Saved(p, from, seq, dep) \in PoolSet
         /\ Saved(p, from, seq, dep).next_seqs = p.next_seqs
         /\ Saved(p, from, seq, dep).pending = p.pending
         /\ Saved(p, from, seq, dep).mempool = p.mempool
<1> DEFINE k == [from |-> from, seq |-> seq]
           q == [p EXCEPT !.dependencies[dep] = Append(@, k)]
<1>1. k \in Slot
  BY DEF Slot
<1>2. ASSUME dep # EMPTY
      PROVE  q \in PoolSet /\ q.next_seqs = p.next_seqs /\ q.pending = p.pending
             /\ q.mempool = p.mempool
  <2>1. dep \in Key /\ p.dependencies[dep] \in Seq(Slot)
    BY <1>2 DEF PoolSet
  <2>2. Append(p.dependencies[dep], k) \in Seq(Slot)
    BY <1>1, <2>1
  <2> HIDE DEF k
  <2> QED
    BY <2>1, <2>2 DEF PoolSet
<1>3. Saved(p, from, seq, dep) = IF dep = EMPTY \/ IsPromised(p, dep)
                                    \/ k \in ToSet(p.dependencies[dep]) THEN p ELSE q
  BY DEF Saved
<1> HIDE DEF q
<1> QED
  BY <1>2, <1>3

\* A transaction whose dependencies are met moves on.
LEMMA ToMempoolPool ==
  ASSUME NEW p \in PoolSet, NEW t \in Tx
  PROVE  /\ ToMempool(p, t) \in PoolSet
         /\ ToMempool(p, t).next_seqs = p.next_seqs
<1> DEFINE P == p.pending \ With(p.pending, KeyOf(t))
<1>1. P \in Maps
  BY PutMap DEF PoolSet
<1>2. Append(p.mempool, t) \in Seq(Tx)
  BY DEF PoolSet
<1>3. ToMempool(p, t) = [p EXCEPT !.mempool = Append(@, t), !.pending = P]
  BY DEF ToMempool
<1> HIDE DEF P
<1> QED
  BY <1>1, <1>2, <1>3 DEF PoolSet

\* notify_dependencies, implicit part.
LEMMA NotifyNextPool ==
  ASSUME NEW p \in PoolSet, NEW from \in Clients
  PROVE  /\ NotifyNext(p, from) \in PoolSet
         /\ NotifyNext(p, from).next_seqs = p.next_seqs
<1> DEFINE next == p.next_seqs[from]
           waits == With(p.pending, [from |-> from, seq |-> next])
           t == CHOOSE x \in waits : TRUE
           q == Saved(p, from, next, t.dep)
           r == ToMempool(q, t)
<1>1. NotifyNext(p, from) = IF waits = {} THEN p
                            ELSE IF Met(p, from, next, t.dep) THEN r ELSE q
  BY DEF NotifyNext
<1>2. CASE waits = {}
  BY <1>1, <1>2
<1>3. CASE waits # {}
  <2>1. t \in waits
    BY <1>3
  <2>2. t \in Tx /\ next \in 0 .. MAX_SEQ + 1
    BY <2>1 DEF With, PoolSet, Maps
  <2> HIDE DEF t, next
  <2>3. q \in PoolSet /\ q.next_seqs = p.next_seqs
    BY <2>2, TxParts, SavedPool
  <2> HIDE DEF q
  <2>4. r \in PoolSet /\ r.next_seqs = p.next_seqs
    BY <2>2, <2>3, ToMempoolPool
  <2> QED
    BY <1>1, <1>3, <2>3, <2>4
<1> QED
  BY <1>2, <1>3

\* One transaction that waits for a promised key.
LEMMA NotifyPool ==
  ASSUME NEW p \in PoolSet, NEW k \in Key, NEW d
  PROVE  /\ Notify(p, k, d) \in PoolSet
         /\ Notify(p, k, d).next_seqs = p.next_seqs
<1> DEFINE next == p.next_seqs[k.from]
           waits == With(p.pending, d)
           t == CHOOSE x \in waits : TRUE
           q == Saved(p, k.from, next, t.dep)
           r == ToMempool(q, t)
<1>1. Notify(p, k, d) = IF d = [from |-> k.from, seq |-> next] \/ waits = {} THEN p
                        ELSE IF Met(p, k.from, next, t.dep) THEN r ELSE q
  BY DEF Notify
<1>2. CASE waits = {}
  BY <1>1, <1>2
<1>3. CASE waits # {}
  <2>1. t \in waits
    BY <1>3
  <2>2. t \in Tx /\ next \in 0 .. MAX_SEQ + 1 /\ k.from \in Clients
    BY <2>1, KeyParts DEF With, PoolSet, Maps
  <2> HIDE DEF t, next
  <2>3. q \in PoolSet /\ q.next_seqs = p.next_seqs
    BY <2>2, TxParts, SavedPool
  <2> HIDE DEF q
  <2>4. r \in PoolSet /\ r.next_seqs = p.next_seqs
    BY <2>2, <2>3, ToMempoolPool
  <2> QED
    BY <1>1, <1>3, <2>3, <2>4
<1> QED
  BY <1>2, <1>3

\* notify_dependencies, explicit part, over any number of waiting transactions.
LEMMA NotifyDependentsPool ==
  ASSUME NEW p \in PoolSet, NEW k \in Key
  PROVE  /\ NotifyDependents(p, k) \in PoolSet
         /\ NotifyDependents(p, k).next_seqs = p.next_seqs
<1> DEFINE S == {q \in PoolSet : q.next_seqs = p.next_seqs}
           waiting == p.dependencies[k]
           f == [i \in Nat |-> [q \in S |-> Notify(q, k, waiting[i + 1])]]
<1>1. f \in [Nat -> [S -> S]]
  BY NotifyPool
<1>2. \A i \in Nat, q \in S : f[i][q] = Notify(q, k, waiting[i + 1])
  OBVIOUS
<1>3. p \in S
  OBVIOUS
<1> HIDE DEF f, S
<1>4. PICK g \in [Nat -> S] : g[0] = p /\ \A i \in Nat : g[i + 1] = f[i][g[i]]
  <2>1. PICK g : Iterates(S, p, f, g)
    BY <1>1, <1>3, RecursiveFunction
  <2> QED
    BY <2>1 DEF Iterates
<1> DEFINE R(w) == [i \in Nat |-> IF i = 0 THEN p ELSE Notify(w[i - 1], k, waiting[i])]
<1>5. g = R(g)
  <2>1. ASSUME NEW i \in Nat PROVE g[i] = IF i = 0 THEN p ELSE Notify(g[i - 1], k, waiting[i])
    <3>1. CASE i = 0
      BY <3>1, <1>4
    <3>2. CASE i # 0
      <4>1. i - 1 \in Nat /\ (i - 1) + 1 = i
        BY <3>2
      <4>2. g[(i - 1) + 1] = Notify(g[i - 1], k, waiting[(i - 1) + 1])
        BY <4>1, <1>2, <1>4
      <4> QED
        BY <3>2, <4>1, <4>2
    <3> QED
      BY <3>1, <3>2
  <2> QED
    BY <2>1
<1> DEFINE w == CHOOSE v : v = R(v)
<1>6. NotifyDependents(p, k) = [w[Len(waiting)] EXCEPT !.dependencies[k] = <<>>]
  BY DEF NotifyDependents
<1>7. w = R(w)
  BY <1>5
<1> HIDE DEF w
<1>8. w[0] = p /\ \A i \in Nat : w[i + 1] = Notify(w[i], k, waiting[i + 1])
  BY <1>7
<1>9. \A i \in Nat : w[i] \in S
  <2> DEFINE P == {i \in Nat : w[i] \in S}
  <2>1. 0 \in P
    BY <1>3, <1>8
  <2>2. ASSUME NEW i \in Nat, i \in P PROVE i + 1 \in P
    BY <1>8, <2>2, NotifyPool DEF S
  <2> HIDE DEF P
  <2>3. \A i \in Nat : i \in P
    BY <2>1, <2>2, InductionOverSet
  <2> QED
    BY <2>3 DEF P
<1>10. Len(waiting) \in Nat /\ <<>> \in Seq(Slot)
  BY LenProperties, EmptySeq DEF PoolSet
<1> DEFINE e == w[Len(waiting)]
<1>11. e \in PoolSet /\ e.next_seqs = p.next_seqs
  BY <1>9, <1>10 DEF S
<1> HIDE DEF e
<1>12. NotifyDependents(p, k) = [e EXCEPT !.dependencies[k] = <<>>]
  BY <1>6 DEF e
<1> QED
  BY <1>10, <1>11, <1>12 DEF PoolSet

\* promise_transaction: only the sender's own next number is counted.
LEMMA PromisePool ==
  ASSUME NEW p \in PoolSet, NEW k \in Key
  PROVE  /\ Promise(p, k) \in PoolSet
         /\ \A c \in Clients : Promise(p, k).next_seqs[c] =
              IF c = k.from /\ k.seq = p.next_seqs[c] THEN p.next_seqs[c] + 1
              ELSE p.next_seqs[c]
<1> DEFINE a == Advanced(p, k)
           b == NotifyNext(a, k.from)
           c == NotifyDependents(b, k)
<1>1. k.from \in Clients /\ k.seq \in 0 .. MAX_SEQ
  BY KeyParts
<1>2. a \in PoolSet /\ \A d \in Clients : a.next_seqs[d] =
              IF d = k.from /\ k.seq = p.next_seqs[d] THEN p.next_seqs[d] + 1
              ELSE p.next_seqs[d]
  <2>1. p.next_seqs \in [Clients -> 0 .. MAX_SEQ + 1]
    BY DEF PoolSet
  <2> DEFINE after == IF k.seq = p.next_seqs[k.from] THEN p.next_seqs[k.from] + 1
                           ELSE p.next_seqs[k.from]
  <2>2. after \in 0 .. MAX_SEQ + 1
    BY <1>1, <2>1, BoundsAssumption
  <2>3. a = [p EXCEPT !.next_seqs[k.from] = after]
    BY DEF Advanced
  <2>4. a \in PoolSet /\ a.next_seqs = [p.next_seqs EXCEPT ![k.from] = after]
    <3> HIDE DEF after, a
    <3> QED
      BY <1>1, <2>1, <2>2, <2>3 DEF PoolSet
  <2> HIDE DEF a
  <2> QED
    BY <1>1, <2>1, <2>4
<1> HIDE DEF a
<1>3. b \in PoolSet /\ b.next_seqs = a.next_seqs
  BY <1>1, <1>2, NotifyNextPool
<1> HIDE DEF b
<1>4. c \in PoolSet /\ c.next_seqs = a.next_seqs
  BY <1>3, NotifyDependentsPool
<1> HIDE DEF c
<1>5. Promise(p, k) = [c EXCEPT !.last_promised = k]
  BY DEF Promise, a, b, c
<1>6. Promise(p, k) \in PoolSet /\ Promise(p, k).next_seqs = a.next_seqs
  BY <1>4, <1>5 DEF PoolSet
<1> QED
  BY <1>2, <1>6

------------------------------------------------------------------------------
\* The inductive invariant.
PoolTypes ==
    /\ pool \in PoolSet /\ aging \in Maps /\ aged \in Maps
    /\ blocks \subseteq Tx /\ created \subseteq Tx /\ IsFiniteSet(created)
    /\ held \subseteq Mutexes /\ promised \subseteq Key
NothingSkipped == \A k \in Key : pool.next_seqs[k.from] > k.seq => k \in promised
PoolInv == PoolTypes /\ NothingSkipped /\ AgedOnlyOnConflict

\* It holds at first.
LEMMA PoolInitInv == Init => PoolInv
<1> SUFFICES ASSUME Init PROVE PoolInv
  OBVIOUS
<1>1. {} \in Maps
  BY DEF Maps, OnePerKey
<1>2. pool \in PoolSet
  <2>1. [c \in Clients |-> 0] \in [Clients -> 0 .. MAX_SEQ + 1]
    BY BoundsAssumption
  <2>2. <<>> \in Seq(Tx) /\ [k \in Key |-> <<>>] \in [Key -> Seq(Slot)]
    BY EmptySeq
  <2> QED
    BY <1>1, <2>1, <2>2 DEF Init, PoolSet
<1>3. IsFiniteSet(created)
  BY FS_EmptySet DEF Init
<1>4. NothingSkipped
  BY KeyParts, BoundsAssumption DEF Init, NothingSkipped
<1> QED
  BY <1>1, <1>2, <1>3, <1>4 DEF Init, PoolInv, PoolTypes, AgedOnlyOnConflict

\* A promise counts one number, the one that is promised.
LEMMA PromiseSkipsNothing ==
  ASSUME PoolInv, NEW k \in Key, pool' = Promise(pool, k), promised' = promised \cup {k}
  PROVE  pool' \in PoolSet /\ promised' \subseteq Key /\ NothingSkipped'
<1>1. /\ pool' \in PoolSet
      /\ \A c \in Clients : pool'.next_seqs[c] =
           IF c = k.from /\ k.seq = pool.next_seqs[c] THEN pool.next_seqs[c] + 1
           ELSE pool.next_seqs[c]
  BY PromisePool DEF PoolInv, PoolTypes
<1>2. ASSUME NEW j \in Key, pool'.next_seqs[j.from] > j.seq PROVE j \in promised'
  <2>1. j.from \in Clients /\ j.seq \in Nat /\ k.from \in Clients /\ k.seq \in Nat
    BY KeyParts, BoundsAssumption
  <2>2. pool.next_seqs[j.from] \in Nat
    BY <2>1, BoundsAssumption DEF PoolInv, PoolTypes, PoolSet
  <2>3. CASE pool.next_seqs[j.from] > j.seq
    BY <2>3 DEF PoolInv, NothingSkipped
  <2>4. CASE ~(pool.next_seqs[j.from] > j.seq)
    <3>1. j.from = k.from /\ k.seq = pool.next_seqs[j.from] /\ j.seq = k.seq
      BY <1>1, <1>2, <2>1, <2>2, <2>4
    <3>2. j = k
      BY <3>1 DEF Key
    <3> QED
      BY <3>2
  <2> QED
    BY <2>3, <2>4
<1> QED
  BY <1>1, <1>2 DEF NothingSkipped, PoolInv, PoolTypes

\* What reaches this node is a transaction.
LEMMA BroadcastTx ==
  ASSUME PoolInv, NEW tx \in Broadcast
  PROVE  tx \in Tx /\ tx \in Offered \cup created
BY OfferedAssumption DEF Broadcast, PoolInv, PoolTypes

\* transaction_creator numbers its transactions without a gap or a repeat.
LEMMA CreateInv ==
  ASSUME PoolInv, NEW c \in Local, CreateTransaction(c)
  PROVE  PoolInv'
<1> DEFINE tx == [from |-> c, seq |-> NextNew(c), dep |-> pool.last_promised, v |-> 0]
           q  == Saved(pool, c, tx.seq, tx.dep)
<1>1. NextNew(c) \in 0 .. MAX_SEQ
  <2>1. IsFiniteSet({t \in created : t.from = c})
    <3> DEFINE own == {t \in created : t.from = c}
    <3>1. own \subseteq created
      OBVIOUS
    <3> HIDE DEF own
    <3>2. IsFiniteSet(own)
      BY <3>1, FS_Subset DEF PoolInv, PoolTypes
    <3> QED
      BY <3>2 DEF own
  <2>2. NextNew(c) \in Nat
    BY <2>1, FS_CardinalityType DEF NextNew
  <2> QED
    BY <2>2, BoundsAssumption DEF CreateTransaction
<1>2. c \in Clients /\ pool.last_promised \in Key \cup {EMPTY} /\ 0 \in 0 .. MAX_V
  BY BoundsAssumption DEF Clients, PoolInv, PoolTypes, PoolSet
<1>3. tx \in Tx /\ tx.seq \in 0 .. MAX_SEQ + 1 /\ tx.dep \in Key \cup {EMPTY}
  BY <1>1, <1>2, BoundsAssumption DEF Tx
<1>4. /\ \/ pool' = [q EXCEPT !.mempool = Append(@, tx)]
         \/ pool' = [q EXCEPT !.pending = Put(@, tx)]
      /\ aging' = Put(aging, tx) /\ created' = created \cup {tx}
      /\ UNCHANGED <<aged, blocks, held, promised>>
  BY DEF CreateTransaction
<1> HIDE DEF tx
<1>5. q \in PoolSet /\ q.next_seqs = pool.next_seqs
  BY <1>2, <1>3, SavedPool DEF PoolInv, PoolTypes
<1> HIDE DEF q
<1>6. pool' \in PoolSet /\ pool'.next_seqs = pool.next_seqs
  <2>1. Append(q.mempool, tx) \in Seq(Tx)
    BY <1>3, <1>5 DEF PoolSet
  <2>2. q.pending \in Maps
    BY <1>5 DEF PoolSet
  <2>3. Put(q.pending, tx) \in Maps
    BY <1>3, <2>2, PutMap
  <2> QED
    BY <1>4, <1>5, <2>1, <2>3 DEF PoolSet
<1>7. aging' \in Maps
  BY <1>3, <1>4, PutMap DEF PoolInv, PoolTypes
<1>8. IsFiniteSet(created')
  BY <1>4, FS_AddElement DEF PoolInv, PoolTypes
<1>9. PoolTypes'
  BY <1>3, <1>4, <1>6, <1>7, <1>8 DEF PoolInv, PoolTypes
<1>10. NothingSkipped' /\ AgedOnlyOnConflict'
  BY <1>4, <1>6 DEF PoolInv, NothingSkipped, AgedOnlyOnConflict
<1> QED
  BY <1>9, <1>10 DEF PoolInv

\* verify_transaction, a new key.
LEMMA VerifyNewInv ==
  ASSUME PoolInv, NEW tx \in Broadcast, VerifyNew(tx)
  PROVE  PoolInv'
<1> DEFINE q == Saved(pool, tx.from, tx.seq, tx.dep)
<1>1. tx \in Tx /\ tx.from \in Clients /\ tx.seq \in 0 .. MAX_SEQ + 1
      /\ tx.dep \in Key \cup {EMPTY}
  <2>1. tx \in Tx
    BY BroadcastTx
  <2> QED
    BY <2>1, TxParts, BoundsAssumption
<1>2. /\ \/ pool' = [q EXCEPT !.mempool = Append(@, tx)]
         \/ With(pool.pending, KeyOf(tx)) = {} /\ pool' = [q EXCEPT !.pending = @ \cup {tx}]
      /\ With(aging, KeyOf(tx)) = {} /\ aging' = aging \cup {tx}
      /\ UNCHANGED <<aged, blocks, held, created, promised>>
  BY DEF VerifyNew, NewKey
<1>3. q \in PoolSet /\ q.next_seqs = pool.next_seqs /\ q.pending = pool.pending
  BY <1>1, SavedPool DEF PoolInv, PoolTypes
<1> HIDE DEF q
<1>4. pool' \in PoolSet /\ pool'.next_seqs = pool.next_seqs
  <2>1. Append(q.mempool, tx) \in Seq(Tx)
    BY <1>1, <1>3 DEF PoolSet
  <2>2. With(pool.pending, KeyOf(tx)) = {} => q.pending \cup {tx} \in Maps
    BY <1>1, <1>3, PutMap DEF PoolSet
  <2> QED
    BY <1>2, <1>3, <2>1, <2>2 DEF PoolSet
<1>5. aging' \in Maps
  BY <1>1, <1>2, PutMap DEF PoolInv, PoolTypes
<1>6. PoolTypes'
  BY <1>2, <1>4, <1>5 DEF PoolInv, PoolTypes
<1>7. NothingSkipped' /\ AgedOnlyOnConflict'
  BY <1>2, <1>4 DEF PoolInv, NothingSkipped, AgedOnlyOnConflict
<1> QED
  BY <1>6, <1>7 DEF PoolInv

\* verify_transaction, a double spend: the other transaction was broadcast.
LEMMA VerifyConflictInv ==
  ASSUME PoolInv, NEW tx \in Broadcast, VerifyConflict(tx)
  PROVE  PoolInv'
<1>1. PICK t \in With(aging, KeyOf(tx)) :
         tx # t /\ aged' = Put(aged, t) /\ aging' = aging \ {t}
  BY DEF VerifyConflict, Conflicts
<1>2. UNCHANGED <<pool, blocks, held, created, promised>>
  BY DEF VerifyConflict
<1>3. t \in aging /\ KeyOf(t) = KeyOf(tx) /\ t \in Tx
  BY DEF With, PoolInv, PoolTypes, Maps
<1>4. aged' \in Maps /\ aging' \in Maps
  BY <1>1, <1>3, PutMap DEF PoolInv, PoolTypes
<1>5. PoolTypes'
  BY <1>2, <1>4 DEF PoolInv, PoolTypes
<1>6. NothingSkipped'
  BY <1>2 DEF PoolInv, NothingSkipped
<1>7. AgedOnlyOnConflict'
  <2>1. tx \in Offered \cup created
    BY BroadcastTx
  <2>2. aged' \subseteq aged \cup {t}
    BY <1>1 DEF Put
  <2> QED
    BY <1>1, <1>2, <1>3, <2>1, <2>2 DEF PoolInv, AgedOnlyOnConflict
<1> QED
  BY <1>5, <1>6, <1>7 DEF PoolInv

\* aging_monitor
LEMMA MonitorInv ==
  ASSUME PoolInv, NEW tx \in aging, AgingMonitor(tx)
  PROVE  PoolInv'
<1>1. tx \in Tx
  BY DEF PoolInv, PoolTypes, Maps
<1>2. UNCHANGED <<aged, blocks, held, created>>
  BY DEF AgingMonitor
<1>3. tx.from \in Clients /\ tx.seq \in 0 .. MAX_SEQ + 1 /\ tx.dep \in Key \cup {EMPTY}
      /\ KeyOf(tx) \in Key
  BY <1>1, TxParts, BoundsAssumption
<1>4. CASE Met(pool, tx.from, tx.seq, tx.dep)
  <2>1. /\ pool' = Promise(pool, KeyOf(tx))
        /\ aging' = aging \ {tx} /\ promised' = promised \cup {KeyOf(tx)}
    BY <1>4 DEF AgingMonitor
  <2>2. pool' \in PoolSet /\ promised' \subseteq Key /\ NothingSkipped'
    BY <1>3, <2>1, PromiseSkipsNothing
  <2>3. aging' \in Maps
    BY <1>1, <2>1, PutMap DEF PoolInv, PoolTypes
  <2>4. PoolTypes' /\ AgedOnlyOnConflict'
    BY <1>2, <2>2, <2>3 DEF PoolInv, PoolTypes, AgedOnlyOnConflict
  <2> QED
    BY <2>2, <2>4 DEF PoolInv
<1>5. CASE ~Met(pool, tx.from, tx.seq, tx.dep)
  <2>1. pool' = Saved(pool, tx.from, tx.seq, tx.dep) /\ UNCHANGED <<aging, promised>>
    BY <1>5 DEF AgingMonitor
  <2>2. pool' \in PoolSet /\ pool'.next_seqs = pool.next_seqs
    BY <1>3, <2>1, SavedPool DEF PoolInv, PoolTypes
  <2>3. PoolTypes' /\ AgedOnlyOnConflict' /\ NothingSkipped'
    BY <1>2, <2>1, <2>2 DEF PoolInv, PoolTypes, AgedOnlyOnConflict, NothingSkipped
  <2> QED
    BY <2>3 DEF PoolInv
<1> QED
  BY <1>4, <1>5

\* get_one_transaction
LEMMA GetOneInv ==
  ASSUME PoolInv, GetOneTransaction
  PROVE  PoolInv'
<1>1. /\ pool.mempool # <<>> /\ blocks' = blocks \cup {Head(pool.mempool)}
      /\ pool' = [pool EXCEPT !.mempool = Tail(@)]
      /\ UNCHANGED <<aging, aged, held, created, promised>>
  BY DEF GetOneTransaction
<1>2. Head(pool.mempool) \in Tx /\ Tail(pool.mempool) \in Seq(Tx)
  <2>1. pool.mempool \in Seq(Tx)
    BY DEF PoolInv, PoolTypes, PoolSet
  <2> QED
    BY <1>1, <2>1, HeadTailProperties
<1>3. pool' \in PoolSet /\ pool'.next_seqs = pool.next_seqs
  BY <1>1, <1>2 DEF PoolInv, PoolTypes, PoolSet
<1>4. PoolTypes' /\ AgedOnlyOnConflict' /\ NothingSkipped'
  BY <1>1, <1>2, <1>3 DEF PoolInv, PoolTypes, AgedOnlyOnConflict, NothingSkipped
<1> QED
  BY <1>4 DEF PoolInv

\* The mempool without one transaction.
LEMMA WithoutSeq ==
  ASSUME NEW s \in Seq(Tx), NEW k
  PROVE  Without(s, k) \in Seq(Tx)
<1> DEFINE I == {i \in 1 .. Len(s) : KeyOf(s[i]) = k}
           least == Min(I)
<1>1. SelectInSeq(s, LAMBDA t : KeyOf(t) = k) = IF I # {} THEN least ELSE 0
  BY DEF SelectInSeq
<1>2. I \subseteq Nat /\ Len(s) \in Nat
  BY LenProperties
<1>3. CASE I = {}
  BY <1>1, <1>3 DEF Without
<1>4. CASE I # {}
  <2>1. least \in I
    <3> HIDE DEF I
    <3>1. \E m \in I : \A j \in I : m <= j
      BY <1>2, <1>4, LeastNat
    <3> QED
      BY <3>1 DEF Min
  <2>2. least \in 1 .. Len(s)
    BY <2>1
  <2> HIDE DEF least
  <2>3. Without(s, k) = RemoveAt(s, least)
    BY <1>1, <1>2, <1>4, <2>2 DEF Without
  <2>4. RemoveAt(s, least) \in Seq(Tx)
    <3>1. \A i \in 1 .. Len(s) : s[i] \in Tx
      BY ElementOfSeq
    <3>2. (\A i \in 1 .. least - 1 : s[i] \in Tx) /\ (\A i \in least + 1 .. Len(s) : s[i] \in Tx)
      BY <1>2, <2>2, <3>1
    <3>3. SubSeq(s, 1, least - 1) \in Seq(Tx) /\ SubSeq(s, least + 1, Len(s)) \in Seq(Tx)
      BY <1>2, <2>2, <3>2, SubSeqProperties
    <3> QED
      BY <3>3, ConcatProperties DEF RemoveAt
  <2> QED
    BY <2>3, <2>4
<1> QED
  BY <1>3, <1>4

\* verify_transaction_from_block
LEMMA VerifyFromBlockInv ==
  ASSUME PoolInv, NEW tx \in Broadcast, NEW short \in BOOLEAN, NEW accepted \in BOOLEAN,
         VerifyFromBlock(tx, short, accepted)
  PROVE  PoolInv'
<1> DEFINE k == KeyOf(tx)
           P == pool.pending \ With(pool.pending, k)
<1>1. tx \in Tx
  BY BroadcastTx
<1>2. /\ \/ pool' = [pool EXCEPT !.pending = P]
         \/ pool' = [pool EXCEPT !.mempool = Without(@, k)]
      /\ blocks' \subseteq blocks \cup {tx}
      /\ held' \subseteq held \cup ToSet(RemoveLocks) \cup {"aged", "bc"}
      /\ UNCHANGED <<aging, aged, created, promised>>
  BY DEF VerifyFromBlock
<1>3. P \in Maps /\ Without(pool.mempool, k) \in Seq(Tx)
  <2>1. pool.pending \in Maps /\ pool.mempool \in Seq(Tx)
    BY DEF PoolInv, PoolTypes, PoolSet
  <2>2. P \in Maps
    BY <1>1, <2>1, PutMap
  <2>3. k \in Key
    BY <1>1, TxParts
  <2>4. Without(pool.mempool, k) \in Seq(Tx)
    BY <2>1, <2>3, WithoutSeq
  <2> QED
    BY <2>2, <2>4
<1> HIDE DEF P
<1>4. pool' \in PoolSet /\ pool'.next_seqs = pool.next_seqs
  BY <1>2, <1>3 DEF PoolInv, PoolTypes, PoolSet
<1>5. held' \subseteq Mutexes
  <2>1. ToSet(RemoveLocks) \subseteq Mutexes
    BY DEF ToSet, RemoveLocks, Mutexes
  <2>2. {"aged", "bc"} \subseteq Mutexes
    BY DEF Mutexes
  <2> QED
    BY <1>2, <2>1, <2>2 DEF PoolInv, PoolTypes
<1>6. PoolTypes' /\ AgedOnlyOnConflict' /\ NothingSkipped'
  BY <1>1, <1>2, <1>4, <1>5 DEF PoolInv, PoolTypes, AgedOnlyOnConflict, NothingSkipped
<1> QED
  BY <1>6 DEF PoolInv

\* commit_block
LEMMA CommitInv ==
  ASSUME PoolInv, NEW tx \in blocks, CommitBlock(tx)
  PROVE  PoolInv'
<1> DEFINE k == KeyOf(tx)
<1>1. tx \in Tx /\ k \in Key
  BY TxParts DEF PoolInv, PoolTypes
<1>2. blocks' = blocks \ {tx} /\ UNCHANGED <<aging, held, created>>
  BY DEF CommitBlock
<1>3. CASE IsPromised(pool, k)
  <2>1. UNCHANGED <<pool, aged, promised>>
    BY <1>3 DEF CommitBlock
  <2> QED
    BY <1>2, <2>1 DEF PoolInv, PoolTypes, AgedOnlyOnConflict, NothingSkipped
<1>4. CASE ~IsPromised(pool, k)
  <2>1. pool' = Promise(pool, k) /\ aged' = aged \ {tx} /\ promised' = promised \cup {k}
    BY <1>4 DEF CommitBlock
  <2> HIDE DEF k
  <2>2. pool' \in PoolSet /\ promised' \subseteq Key /\ NothingSkipped'
    BY <1>1, <2>1, PromiseSkipsNothing
  <2>3. aged' \in Maps
    BY <1>1, <2>1, PutMap DEF PoolInv, PoolTypes
  <2>4. PoolTypes' /\ AgedOnlyOnConflict'
    BY <1>2, <2>1, <2>2, <2>3 DEF PoolInv, PoolTypes, AgedOnlyOnConflict
  <2> QED
    BY <2>2, <2>4 DEF PoolInv
<1> QED
  BY <1>3, <1>4

\* A thread that runs into a mutex locked for good.
LEMMA BlocksInv ==
  ASSUME PoolInv, NEW locks \in Seq(Mutexes), Blocks(locks)
  PROVE  PoolInv'
<1>1. PICK i \in 1 .. Len(locks) : held' = held \cup {locks[j] : j \in 1 .. i - 1}
  BY DEF Blocks
<1>2. UNCHANGED <<pool, aging, aged, blocks, created, promised>>
  BY DEF Blocks
<1>3. \A j \in 1 .. i - 1 : locks[j] \in Mutexes
  <2>1. \A j \in 1 .. i - 1 : j \in 1 .. Len(locks)
    BY LenProperties
  <2> QED
    BY <2>1, ElementOfSeq
<1>4. held' \subseteq Mutexes
  BY <1>1, <1>3 DEF PoolInv, PoolTypes
<1> QED
  BY <1>2, <1>4 DEF PoolInv, PoolTypes, AgedOnlyOnConflict, NothingSkipped

\* The lock lists name mutexes.
LEMMA LockLists == {VerifyLocks, MonitorLocks, MinerLocks, CommitLocks} \subseteq Seq(Mutexes)
<1> DEFINE a == <<"bc">>
           b == <<"aged">>
           c == <<"dependencies", "aged">>
<1>1. CreatorLocks \in Seq(Mutexes) /\ a \in Seq(Mutexes) /\ b \in Seq(Mutexes)
      /\ c \in Seq(Mutexes)
  BY DEF CreatorLocks, Mutexes
<1>2. MinerLocks \in Seq(Mutexes) /\ CommitLocks \in Seq(Mutexes)
  BY DEF MinerLocks, CommitLocks, Mutexes
<1>3. VerifyLocks = a \o CreatorLocks \o b /\ MonitorLocks = CreatorLocks \o c
  BY DEF VerifyLocks, MonitorLocks
<1> HIDE DEF a, b, c
<1>4. VerifyLocks \in Seq(Mutexes) /\ MonitorLocks \in Seq(Mutexes)
  BY <1>1, <1>3, ConcatProperties
<1> QED
  BY <1>2, <1>4

\* Every step keeps the invariant.
LEMMA PoolNextInv == PoolInv /\ [Next]_poolVars => PoolInv'
<1> SUFFICES ASSUME PoolInv, [Next]_poolVars PROVE PoolInv'
  OBVIOUS
<1>1. CASE UNCHANGED poolVars
  BY <1>1 DEF poolVars, PoolInv, PoolTypes, AgedOnlyOnConflict, NothingSkipped
<1>2. ASSUME NEW c \in Local, CreateTransaction(c) PROVE PoolInv'
  BY <1>2, CreateInv
<1>3. ASSUME NEW tx \in Broadcast, VerifyNew(tx) \/ VerifyConflict(tx) PROVE PoolInv'
  BY <1>3, VerifyNewInv, VerifyConflictInv
<1>4. ASSUME NEW tx \in aging, AgingMonitor(tx) PROVE PoolInv'
  BY <1>4, MonitorInv
<1>5. CASE GetOneTransaction
  BY <1>5, GetOneInv
<1>6. ASSUME NEW tx \in Broadcast, NEW short \in BOOLEAN, NEW accepted \in BOOLEAN,
             VerifyFromBlock(tx, short, accepted)
      PROVE  PoolInv'
  BY <1>6, VerifyFromBlockInv
<1>7. ASSUME NEW tx \in blocks, CommitBlock(tx) PROVE PoolInv'
  BY <1>7, CommitInv
<1>8. ASSUME NEW locks \in {VerifyLocks, MonitorLocks, MinerLocks, CommitLocks}, Blocks(locks)
      PROVE  PoolInv'
  BY <1>8, LockLists, BlocksInv
<1> QED
  BY <1>1, <1>2, <1>3, <1>4, <1>5, <1>6, <1>7, <1>8 DEF Next

\* The invariant holds in every state of the pool.
LEMMA PoolInvariant == Spec => []PoolInv
BY PoolInitInv, PoolNextInv, PTL DEF Spec

\* next_seqs never skips a number: whatever order blocks commit in and
\* transactions age in, is_promised is true only of keys that
\* promise_transaction was called for; the maps hold one transaction per key.
THEOREM SequenceSafety == Spec => []NoSeqSkipped
<1>1. PoolInv => NoSeqSkipped
  <2> SUFFICES ASSUME PoolInv PROVE NoSeqSkipped
    OBVIOUS
  <2>1. pool.next_seqs \in [Clients -> 0 .. MAX_SEQ + 1]
    BY DEF PoolInv, PoolTypes, PoolSet
  <2>2. pool.next_seqs \in [Clients -> Nat]
    BY <2>1, BoundsAssumption
  <2>3. TypeOK
    BY <2>2 DEF TypeOK, PoolInv, PoolTypes, PoolSet, Maps, Slot
  <2> QED
    BY <2>3 DEF NoSeqSkipped, PoolInv, NothingSkipped
<1> QED
  BY <1>1, PoolInvariant, PTL

\* verify_transaction gives a transaction up as a double spend only if another
\* transaction with its key was broadcast or created.
THEOREM ConflictSafety == Spec => []AgedOnlyOnConflict
<1>1. PoolInv => AgedOnlyOnConflict
  BY DEF PoolInv
<1> QED
  BY <1>1, PoolInvariant, PTL
=============================================================================
