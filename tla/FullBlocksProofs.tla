-------------------------- MODULE FullBlocksProofs --------------------------
(***************************************************************************)
(* Proofs about FullBlocks: the queue of missing bodies, the list of       *)
(* blocks waited for and the progress counters, for every number of nodes, *)
(* chains and blocks and every loss of messages.                           *)
(***************************************************************************)
EXTENDS FullBlocks, BlockTreeProofs, FiniteSetTheorems

\* A node begs only for blocks of its main trees, which it never forgets: the
\* reply may come at any later time.
BegsAreKnown == \A n \in Nodes : begs[n] \subseteq chains[n]

\* The inductive invariant.  The counters can only be compared with the size
\* of the queue because finitely many blocks have been mined.
FullInv ==
    /\ BodyInv
    /\ FullTypeOK
    /\ IsFiniteSet(DOMAIN hdr)
    /\ NonFullTracked
    /\ WaitingIsMissing
    /\ Accounting
    /\ BegsAreKnown

\* The constructor starts with the genesis blocks, all of them full.
LEMMA FullInitInv == FullInit => FullInv
<1> SUFFICES ASSUME FullInit PROVE FullInv
  OBVIOUS
<1>1. BodyInv
  BY BodyInitInv DEF FullInit
<1>2. FullTypeOK
  BY <1>1 DEF FullInit, FullTypeOK, BodyInv, TreeInv
<1>3. IsFiniteSet(DOMAIN hdr)
  <2>1. DOMAIN hdr = 0 .. CHAINS - 1
    BY DEF FullInit, BodyInit, Init, Chain
  <2> QED
    BY <2>1, FS_Interval, ChainsAssumption
<1>4. NonFullTracked /\ WaitingIsMissing /\ BegsAreKnown
  BY DEF FullInit, BodyInit, Init, NonFullTracked, WaitingIsMissing, BegsAreKnown
<1>5. Accounting
  BY <1>2, FS_EmptySet DEF FullInit, Accounting
<1> QED
  BY <1>1, <1>2, <1>3, <1>4, <1>5 DEF FullInv

\* The queue of a node is finite: it holds mined blocks only.
LEMMA QueueFinite ==
  ASSUME FullInv, NEW n \in Nodes
  PROVE  /\ IsFiniteSet(received_non_full[n])
         /\ Cardinality(received_non_full[n]) \in Nat
<1>1. received_non_full[n] \subseteq DOMAIN hdr
  BY DEF FullInv, BodyInv, TreeInv, Shape, NonFullTracked
<1> QED
  BY <1>1, FS_Subset, FS_CardinalityType DEF FullInv

\* Mining makes a block that is full at once: nothing is queued.
LEMMA MineInv ==
  ASSUME FullInv, NEW n \in Nodes, NEW h \in Hashes, NEW c \in Chain, Mine(n, h, c)
  PROVE  FullInv'
<1>1. MineFullBlock(n, h, c) /\ UNCHANGED <<queueVars, netVars>>
  BY DEF Mine
<1>2. BodyInv'
  BY <1>1, MineFullBlockInv DEF FullInv
<1>3. FullTypeOK'
  BY <1>1, <1>2 DEF FullInv, FullTypeOK, BodyInv, TreeInv, queueVars, netVars
<1>4. IsFiniteSet(DOMAIN hdr')
  <2>1. DOMAIN hdr' = DOMAIN hdr \cup {h}
    BY <1>1 DEF MineFullBlock, MineNewBlock
  <2> QED
    BY <2>1, FS_AddElement DEF FullInv
<1>5. /\ chains' = [chains EXCEPT ![n] = @ \cup {h}]
      /\ is_full' = [is_full EXCEPT ![n] = @ \cup {h}]
      /\ h \notin chains[n]
  BY <1>1 DEF MineFullBlock, MineNewBlock, FullInv, BodyInv, TreeInv, Shape
<1>6. NonFullTracked'
  BY <1>1, <1>5 DEF FullInv, FullTypeOK, TypeOK, NonFullTracked, queueVars
<1>7. WaitingIsMissing' /\ Accounting'
  BY <1>1, <1>3 DEF FullInv, WaitingIsMissing, Accounting, queueVars
<1>8. BegsAreKnown'
  BY <1>1, <1>5 DEF FullInv, FullTypeOK, TypeOK, BegsAreKnown, netVars
<1> QED
  BY <1>2, <1>3, <1>4, <1>6, <1>7, <1>8 DEF FullInv

\* A header that arrives queues every block it brings into the main tree, the
\* blocks of a grafted tree included, and counts each of them once.
LEMMA ReceiveHeaderInv ==
  ASSUME FullInv, NEW n \in Nodes, NEW h \in DOMAIN hdr, ReceiveHeader(n, h)
  PROVE  FullInv'
<1> DEFINE Q == Queued(n, h)
<1>1. /\ AddReceivedBlock(n, h) /\ is_full' = is_full
      /\ received_non_full' = [received_non_full EXCEPT ![n] = @ \cup Q]
      /\ total_received' = [total_received EXCEPT ![n] = @ + Cardinality(Q)]
      /\ UNCHANGED <<waiting, processed, netVars>>
  BY DEF ReceiveHeader, ProcessBlock
<1>2. Next
  BY <1>1 DEF Next
<1>3. BodyInv'
  BY <1>1, <1>2, SameBodiesInv DEF FullInv
<1>4. hdr' = hdr /\ \A m \in Nodes : chains[m] \subseteq chains'[m]
                    /\ (m # n => chains'[m] = chains[m])
  <2>1. \A m \in Nodes : chains[m] \subseteq chains'[m]
    BY <1>2, MainTreesGrow DEF FullInv, BodyInv
  <2>2. CASE AddToMain(n, h)
    BY <2>1, <2>2 DEF AddToMain, FullInv, FullTypeOK, TypeOK
  <2>3. CASE NewTree(n, h) \/ GrowTree(n, h) \/ RaiseRoot(n, h) \/ JoinTrees(n, h)
    BY <2>3 DEF NewTree, GrowTree, RaiseRoot, JoinTrees, AddToIncomplete
  <2> QED
    BY <1>1, <2>2, <2>3 DEF AddReceivedBlock
<1>5. IsFiniteSet(DOMAIN hdr')
  BY <1>4 DEF FullInv
<1>6. \A m \in Nodes : /\ chains'[m] \subseteq DOMAIN hdr
                       /\ chains'[m] \subseteq Chain \cup Hashes
                       /\ Chain \subseteq is_full[m] /\ is_full[m] \subseteq chains[m]
  <2>1. \A m \in Nodes : chains'[m] \subseteq DOMAIN hdr /\ chains'[m] \subseteq BlockHash
    BY <1>3, <1>4 DEF BodyInv, TreeInv, Shape, TypeOK
  <2>2. \A m \in Nodes : Chain \subseteq is_full[m] /\ is_full[m] \subseteq chains[m]
    BY DEF FullInv, BodyInv, FullIsGrounded
  <2> QED
    BY <2>1, <2>2 DEF BlockHash
<1>7. Q = chains'[n] \ chains[n]
  BY <1>6 DEF Queued, FullInv, NonFullTracked
<1> HIDE DEF Q
<1>8. NonFullTracked'
  BY <1>1, <1>4, <1>6, <1>7 DEF FullInv, FullTypeOK, NonFullTracked
<1>9. IsFiniteSet(Q) /\ Cardinality(Q) \in Nat
  BY <1>6, <1>7, FS_Subset, FS_CardinalityType DEF FullInv
<1>10. FullTypeOK'
  <2>1. Q \subseteq Hashes
    BY <1>6, <1>7, HashAssumption DEF FullInv, BodyInv, TreeInv, Shape
  <2> QED
    BY <2>1, <1>1, <1>3, <1>9 DEF FullInv, FullTypeOK, BodyInv, TreeInv, netVars
<1>11. WaitingIsMissing'
  BY <1>1 DEF FullInv, FullTypeOK, WaitingIsMissing
<1>12. Cardinality(received_non_full[n] \cup Q)
         = Cardinality(received_non_full[n]) + Cardinality(Q)
  <2>1. received_non_full[n] \cap Q = {}
    BY <1>7 DEF FullInv, NonFullTracked
  <2>2. Cardinality(received_non_full[n] \cup Q)
          = Cardinality(received_non_full[n]) + Cardinality(Q)
              - Cardinality(received_non_full[n] \cap Q)
    BY <1>9, QueueFinite, FS_Union
  <2>3. Cardinality(received_non_full[n] \cap Q) = 0
    BY <2>1, FS_EmptySet
  <2> QED
    BY <2>2, <2>3, <1>9, QueueFinite
<1>13. Accounting'
  <2> SUFFICES ASSUME NEW m \in Nodes
               PROVE  total_received'[m] = processed'[m] + Cardinality(received_non_full'[m])
    BY <1>10 DEF Accounting
  <2>1. total_received[m] = processed[m] + Cardinality(received_non_full[m])
    BY DEF FullInv, Accounting
  <2>2. total_received[m] \in Nat /\ processed[m] \in Nat /\ processed'[m] = processed[m]
    BY <1>1 DEF FullInv, FullTypeOK
  <2>3. CASE m = n
    <3>1. /\ total_received'[n] = total_received[n] + Cardinality(Q)
          /\ received_non_full'[n] = received_non_full[n] \cup Q
      BY <1>1 DEF FullInv, FullTypeOK
    <3> QED
      BY <2>1, <2>2, <2>3, <3>1, <1>9, <1>12, QueueFinite
  <2>4. CASE m # n
    BY <2>1, <2>2, <2>4, <1>1 DEF FullInv, FullTypeOK
  <2> QED
    BY <2>3, <2>4
<1>14. BegsAreKnown'
  BY <1>1, <1>4 DEF FullInv, BegsAreKnown, netVars
<1> QED
  BY <1>3, <1>5, <1>8, <1>10, <1>11, <1>13, <1>14 DEF FullInv

\* Asking for the missing roots, or giving them up, touches no main tree.
LEMMA AskHeadersInv ==
  ASSUME FullInv, NEW n \in Nodes, NEW due \in SUBSET inchains[n], AskHeaders(n, due)
  PROVE  FullInv'
<1>1. /\ AskForIncomplete(n, due) /\ is_full' = is_full
      /\ UNCHANGED <<queueVars, netVars>>
  BY DEF AskHeaders, AskIncomplete
<1>2. Next
  BY <1>1 DEF Next
<1>3. BodyInv'
  BY <1>1, <1>2, SameBodiesInv DEF FullInv
<1>4. hdr' = hdr /\ chains' = chains
  BY <1>1 DEF AskForIncomplete
<1>5. FullTypeOK'
  BY <1>1, <1>3 DEF FullInv, FullTypeOK, BodyInv, TreeInv, queueVars, netVars
<1> QED
  BY <1>1, <1>3, <1>4, <1>5
     DEF FullInv, NonFullTracked, WaitingIsMissing, Accounting, BegsAreKnown,
         queueVars, netVars

\* A step that leaves trees, bodies, queue and counters alone.
LEMMA QueueKeptInv ==
  ASSUME FullInv, UNCHANGED <<bodyVars, received_non_full, total_received, processed>>,
         FullTypeOK', WaitingIsMissing', BegsAreKnown'
  PROVE  FullInv'
<1>1. BodyInv'
  <2>1. [Next]_vars /\ is_full' = is_full
    BY DEF bodyVars
  <2> QED
    BY <2>1, SameBodiesInv DEF FullInv
<1>2. hdr' = hdr /\ chains' = chains /\ is_full' = is_full
  BY DEF bodyVars, vars, nodeVars
<1>3. NonFullTracked' /\ Accounting'
  BY <1>2 DEF FullInv, NonFullTracked, Accounting
<1> QED
  BY <1>1, <1>2, <1>3 DEF FullInv

\* run_network: no full block is in the queue, so get_non_full_blocks removes
\* none; the blocks that waited too long are released.
LEMMA AskForFullBlocksInv ==
  ASSUME FullInv, NEW n \in Nodes, NEW due \in SUBSET received_non_full[n],
         NEW late \in SUBSET waiting[n], AskForFullBlocks(n, due, late)
  PROVE  FullInv'
<1>1. due \cap is_full[n] = {}
  BY DEF FullInv, NonFullTracked
<1>2. received_non_full' = received_non_full
  BY <1>1 DEF AskForFullBlocks, FullInv, FullTypeOK
<1>3. /\ begs'    = [begs EXCEPT ![n] = @ \cup (due \ is_full[n])]
      /\ waiting' = [waiting EXCEPT ![n] = waiting[n] \ late]
      /\ UNCHANGED <<bodyVars, total_received, processed, sent>>
  BY DEF AskForFullBlocks, StillWaiting
<1>4. TypeOK' /\ is_full' = is_full
  <2>1. [Next]_vars /\ is_full' = is_full
    BY <1>3 DEF bodyVars
  <2> QED
    BY <2>1, NextInv DEF FullInv, BodyInv, TreeInv
<1>5. FullTypeOK'
  BY <1>2, <1>3, <1>4 DEF FullInv, FullTypeOK
<1>6. WaitingIsMissing'
  BY <1>2, <1>3 DEF FullInv, FullTypeOK, WaitingIsMissing
<1>7. BegsAreKnown'
  <2>1. chains' = chains
    BY <1>3 DEF bodyVars, vars, nodeVars
  <2> QED
    BY <2>1, <1>3 DEF FullInv, FullTypeOK, NonFullTracked, BegsAreKnown
<1> QED
  BY <1>2, <1>3, <1>5, <1>6, <1>7, QueueKeptInv

\* The first #have_full_block: the block is in a main tree, and not full here
\* (the handler looks), so it is in the queue still.
LEMMA HaveFullBlockInv ==
  ASSUME FullInv, NEW n \in Nodes, NEW h \in Hashes, HaveFullBlock(n, h)
  PROVE  FullInv'
<1>1. /\ h \in begs[n] /\ ~HaveFull(n, h)
      /\ waiting' = [waiting EXCEPT ![n] = @ \cup {h}]
      /\ sent'    = [sent EXCEPT ![n] = @ \cup {h}]
      /\ UNCHANGED <<bodyVars, received_non_full, total_received, processed, begs>>
  BY DEF HaveFullBlock, FirstReply
<1>2. h \in received_non_full[n]
  BY <1>1 DEF HaveFull, FullInv, BegsAreKnown, NonFullTracked
<1>3. hdr' = hdr /\ chains' = chains /\ is_full' = is_full /\ TypeOK'
  <2>1. [Next]_vars
    BY <1>1 DEF bodyVars
  <2> QED
    BY <2>1, <1>1, NextInv DEF bodyVars, vars, nodeVars, FullInv, BodyInv, TreeInv
<1>4. FullTypeOK'
  BY <1>1, <1>3 DEF FullInv, FullTypeOK
<1>5. WaitingIsMissing' /\ BegsAreKnown'
  BY <1>1, <1>2, <1>3 DEF FullInv, FullTypeOK, WaitingIsMissing, BegsAreKnown
<1> QED
  BY <1>1, <1>4, <1>5, QueueKeptInv

\* set_block_full takes the block out of the queue and off the waiting list and
\* counts it once: a second body finds it full.
LEMMA FullBlockInv ==
  ASSUME FullInv, NEW n \in Nodes, NEW h \in Hashes, FullBlock(n, h)
  PROVE  FullInv'
<1>1. /\ ReceiveBody(n, h)
      /\ received_non_full' = [received_non_full EXCEPT ![n] = @ \ {h}]
      /\ waiting'   = [waiting EXCEPT ![n] = waiting[n] \ {h}]
      /\ processed' = [processed EXCEPT ![n] = @ + 1]
      /\ UNCHANGED <<total_received, netVars>>
  BY DEF FullBlock, NotWaitedFor
<1>2. /\ h \in chains[n] \ is_full[n]
      /\ is_full' = [is_full EXCEPT ![n] = @ \cup {h}]
      /\ hdr' = hdr /\ chains' = chains
  BY <1>1 DEF ReceiveBody, BodyWanted, HaveFull, vars, nodeVars
<1>3. BodyInv'
  BY <1>1, ReceiveBodyInv DEF FullInv
<1>4. h \in received_non_full[n]
  BY <1>2 DEF FullInv, NonFullTracked
<1>5. FullTypeOK'
  <2>1. TypeOK' /\ is_full' \in [Nodes -> SUBSET BlockHash]
    BY <1>3 DEF BodyInv, TreeInv
  <2>2. processed' \in [Nodes -> Nat]
    BY <1>1 DEF FullInv, FullTypeOK
  <2> QED
    BY <1>1, <2>1, <2>2 DEF FullInv, FullTypeOK, netVars
<1>6. NonFullTracked'
  BY <1>1, <1>2 DEF FullInv, FullTypeOK, NonFullTracked
<1>7. WaitingIsMissing' /\ BegsAreKnown'
  BY <1>1, <1>2 DEF FullInv, FullTypeOK, WaitingIsMissing, BegsAreKnown, netVars
<1>8. Accounting'
  <2> SUFFICES ASSUME NEW m \in Nodes
               PROVE  total_received'[m] = processed'[m] + Cardinality(received_non_full'[m])
    BY <1>5 DEF Accounting
  <2>1. /\ total_received[m] = processed[m] + Cardinality(received_non_full[m])
        /\ processed[m] \in Nat /\ total_received'[m] = total_received[m]
    BY <1>1 DEF FullInv, FullTypeOK, Accounting
  <2>2. CASE m = n
    <3>1. /\ processed'[n] = processed[n] + 1
          /\ received_non_full'[n] = received_non_full[n] \ {h}
      BY <1>1 DEF FullInv, FullTypeOK
    <3>2. Cardinality(received_non_full[n] \ {h}) = Cardinality(received_non_full[n]) - 1
      BY <1>4, QueueFinite, FS_RemoveElement
    <3> QED
      BY <2>1, <2>2, <3>1, <3>2, QueueFinite
  <2>3. CASE m # n
    BY <2>1, <2>3, <1>1 DEF FullInv, FullTypeOK
  <2> QED
    BY <2>2, <2>3
<1> QED
  BY <1>2, <1>3, <1>5, <1>6, <1>7, <1>8 DEF FullInv

\* Losing what is under way changes nothing a node knows.
LEMMA LoseInv ==
  ASSUME FullInv, NEW n \in Nodes, NEW h \in Hashes, Lose(n, h)
  PROVE  FullInv'
<1>1. /\ begs' = [begs EXCEPT ![n] = @ \ {h}] \/ begs' = begs
      /\ sent' = [sent EXCEPT ![n] = @ \ {h}] \/ sent' = sent
      /\ UNCHANGED <<bodyVars, received_non_full, waiting, total_received, processed>>
  BY DEF Lose, queueVars
<1>2. chains' = chains /\ is_full' = is_full /\ TypeOK'
  <2>1. [Next]_vars
    BY <1>1 DEF bodyVars
  <2> QED
    BY <2>1, <1>1, NextInv DEF bodyVars, vars, nodeVars, FullInv, BodyInv, TreeInv
<1>3. FullTypeOK'
  BY <1>1, <1>2 DEF FullInv, FullTypeOK
<1>4. WaitingIsMissing' /\ BegsAreKnown'
  BY <1>1, <1>2 DEF FullInv, FullTypeOK, WaitingIsMissing, BegsAreKnown
<1> QED
  BY <1>1, <1>3, <1>4, QueueKeptInv

\* Every step keeps the invariant.
LEMMA FullNextInv == FullInv /\ [FullNext]_fullVars => FullInv'
<1> SUFFICES ASSUME FullInv, [FullNext]_fullVars PROVE FullInv'
  OBVIOUS
<1>1. ASSUME NEW n \in Nodes, NEW h \in Hashes, NEW c \in Chain, Mine(n, h, c)
      PROVE  FullInv'
  BY <1>1, MineInv
<1>2. ASSUME NEW n \in Nodes, NEW h \in DOMAIN hdr, ReceiveHeader(n, h)
      PROVE  FullInv'
  BY <1>2, ReceiveHeaderInv
<1>3. ASSUME NEW n \in Nodes, NEW due \in SUBSET inchains[n], AskHeaders(n, due)
      PROVE  FullInv'
  BY <1>3, AskHeadersInv
<1>4. ASSUME NEW n \in Nodes, NEW due \in SUBSET received_non_full[n],
             NEW late \in SUBSET waiting[n], AskForFullBlocks(n, due, late)
      PROVE  FullInv'
  BY <1>4, AskForFullBlocksInv
<1>5. ASSUME NEW n \in Nodes, NEW h \in Hashes,
             HaveFullBlock(n, h) \/ FullBlock(n, h) \/ Lose(n, h)
      PROVE  FullInv'
  BY <1>5, HaveFullBlockInv, FullBlockInv, LoseInv
<1>6. CASE UNCHANGED fullVars
  <2>1. UNCHANGED <<bodyVars, queueVars, netVars>>
    BY <1>6 DEF fullVars
  <2>2. chains' = chains /\ is_full' = is_full /\ TypeOK'
    <3>1. [Next]_vars
      BY <2>1 DEF bodyVars
    <3> QED
      BY <2>1, <3>1, NextInv DEF bodyVars, vars, nodeVars, FullInv, BodyInv, TreeInv
  <2>3. FullTypeOK' /\ WaitingIsMissing' /\ BegsAreKnown'
    BY <2>1, <2>2
       DEF FullInv, FullTypeOK, WaitingIsMissing, BegsAreKnown, queueVars, netVars
  <2> QED
    BY <2>1, <2>3, QueueKeptInv DEF queueVars
<1> QED
  BY <1>1, <1>2, <1>3, <1>4, <1>5, <1>6 DEF FullNext

\* The three invariants of the request protocol, and the counters.
LEMMA FullSafety == FullSpec => []FullInv
<1> QED
  BY FullInitInv, FullNextInv, PTL DEF FullSpec

\* A block is full only where its parent and its trailing block are attached
\* (MineNewBlock, #full_block): whatever the order of headers and bodies.
THEOREM GroundedSafety == FullSpec => []FullIsGrounded
<1>1. FullInv => FullIsGrounded
  BY DEF FullInv, BodyInv
<1> QED
  BY <1>1, FullSafety, PTL

\* No block without a body is forgotten by received_non_full_blocks, and no
\* full one stays in it (add_received_block, set_block_full,
\* get_non_full_blocks).
THEOREM TrackedSafety == FullSpec => []NonFullTracked
<1>1. FullInv => NonFullTracked
  BY DEF FullInv
<1> QED
  BY <1>1, FullSafety, PTL

\* waiting_for_full_blocks never holds a block that needs no body: a late body
\* or reply leaves nothing behind (still_waiting_for_full_block,
\* set_block_full, remove_waiting_blocks).
THEOREM WaitingSafety == FullSpec => []WaitingIsMissing
<1>1. FullInv => WaitingIsMissing
  BY DEF FullInv
<1> QED
  BY <1>1, FullSafety, PTL

\* total_received_blocks is processed_full_blocks plus the length of the queue,
\* however often headers and bodies are duplicated.
THEOREM AccountingSafety == FullSpec => []Accounting
<1>1. FullInv => Accounting
  BY DEF FullInv
<1> QED
  BY <1>1, FullSafety, PTL

\* Seen through the trees only, the nodes that fetch bodies run BlockTree: all
\* that is proved of Spec holds of FullSpec.
THEOREM FullRefinesTrees == FullSpec => Spec
<1>1. FullInit => Init
  BY DEF FullInit, BodyInit
<1>2. [FullNext]_fullVars => [Next]_vars
  <2> SUFFICES ASSUME [FullNext]_fullVars PROVE [Next]_vars
    OBVIOUS
  <2>1. CASE UNCHANGED fullVars
    BY <2>1 DEF fullVars, bodyVars
  <2>2. ASSUME NEW n \in Nodes, NEW h \in Hashes, NEW c \in Chain, Mine(n, h, c)
        PROVE  Next
    BY <2>2 DEF Mine, MineFullBlock, Next
  <2>3. ASSUME NEW n \in Nodes, NEW h \in DOMAIN hdr, ReceiveHeader(n, h)
        PROVE  Next
    BY <2>3 DEF ReceiveHeader, ProcessBlock, Next
  <2>4. ASSUME NEW n \in Nodes, NEW due \in SUBSET inchains[n], AskHeaders(n, due)
        PROVE  Next
    BY <2>4 DEF AskHeaders, AskIncomplete, Next
  <2>5. ASSUME NEW n \in Nodes, NEW due \in SUBSET received_non_full[n],
               NEW late \in SUBSET waiting[n], AskForFullBlocks(n, due, late)
        PROVE  UNCHANGED vars
    BY <2>5 DEF AskForFullBlocks, bodyVars
  <2>6. ASSUME NEW n \in Nodes, NEW h \in Hashes,
               HaveFullBlock(n, h) \/ FullBlock(n, h) \/ Lose(n, h)
        PROVE  UNCHANGED vars
    BY <2>6 DEF HaveFullBlock, FullBlock, Lose, ReceiveBody, bodyVars
  <2> QED
    BY <2>1, <2>2, <2>3, <2>4, <2>5, <2>6 DEF FullNext
<1> QED
  BY <1>1, <1>2, PTL DEF FullSpec, Spec
=============================================================================
