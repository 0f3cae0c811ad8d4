----------------------------- MODULE FullBlocks -----------------------------
(***************************************************************************)
(* How a node gets the bodies of the blocks it knows by header only.       *)
(*                                                                         *)
(*   node n                                   a peer                       *)
(*   #got_full_block to all peers       ->    has it full?                 *)
(*   first reply: #ask_full_block       <-    #have_full_block             *)
(*   set_block_full                     <-    #full_block                  *)
(*                                                                         *)
(* The block stays in waiting_for_full_blocks between the second and the   *)
(* last line, or until a timeout, so that one peer at a time is asked.     *)
(* Messages may be delayed, duplicated (several peers answer) and lost     *)
(* with their connection.                                                  *)
(***************************************************************************)
EXTENDS Bodies, FiniteSets

CONSTANT MAX_ASK_NON_FULL_IN_ONE_GO   \* blocks asked for in one pass

ASSUME AskInOneGoAssumption == MAX_ASK_NON_FULL_IN_ONE_GO \in Nat \ {0}

VARIABLES
    received_non_full,   \* received_non_full_blocks: headers without body
    waiting,             \* waiting_for_full_blocks: body asked from a peer
    total_received,      \* total_received_blocks
    processed,           \* processed_full_blocks
    begs,    \* begs[n]: #got_full_block of n or its replies are under way
    sent     \* sent[n]: #ask_full_block of n or the body are under way

queueVars == <<received_non_full, waiting, total_received, processed>>
netVars   == <<begs, sent>>
fullVars  == <<bodyVars, queueVars, netVars>>

\* Types.
FullTypeOK ==
    /\ TypeOK
    /\ is_full \in [Nodes -> SUBSET BlockHash]
    /\ received_non_full \in [Nodes -> SUBSET Hashes]
    /\ waiting \in [Nodes -> SUBSET Hashes]
    /\ total_received \in [Nodes -> Nat] /\ processed \in [Nodes -> Nat]
    /\ begs \in [Nodes -> SUBSET Hashes] /\ sent \in [Nodes -> SUBSET Hashes]

FullInit ==
    /\ BodyInit
    /\ received_non_full = [n \in Nodes |-> {}] /\ waiting = [n \in Nodes |-> {}]
    /\ total_received = [n \in Nodes |-> 0]     /\ processed = [n \in Nodes |-> 0]
    /\ begs = [n \in Nodes |-> {}]              /\ sent = [n \in Nodes |-> {}]

Mine(n, h, c) == MineFullBlock(n, h, c) /\ UNCHANGED <<queueVars, netVars>>

\* (Mutant: only the header that arrived is queued, not the tree below it.)
QueuedTop(n, h) == {h} \cap (chains'[n] \ chains[n])
\* add_subtree_to_received_non_full: every block that just came into a main
\* tree, none of which was queued or full before.
Queued(n, h) == {x \in chains'[n] \ chains[n] :
                   x \notin received_non_full[n] \cup is_full[n]}

ReceiveHeader(n, h) ==
    /\ ProcessBlock(n, h)
    /\ received_non_full' = [received_non_full EXCEPT ![n] = @ \cup Queued(n, h)]
    /\ total_received' = [total_received EXCEPT ![n] = @ + Cardinality(Queued(n, h))]
    /\ UNCHANGED <<waiting, processed, netVars>>

AskHeaders(n, due) == AskIncomplete(n, due) /\ UNCHANGED <<queueVars, netVars>>

\* (Mutant: a block that was asked for once is never released.)
StillWaitingForever(n, late) == waiting[n]
\* remove_waiting_blocks: the blocks late that waited too long are released.
StillWaiting(n, late) == waiting[n] \ late

\* run_network, "Get full blocks": begs all peers for the bodies of blocks that
\* are due (get_non_full_blocks, at most MAX_ASK_NON_FULL_IN_ONE_GO), then drops
\* the blocks that waited too long from waiting_for_full_blocks.  The clock
\* is abstracted: any blocks may be due, any may be late.
AskForFullBlocks(n, due, late) ==
    /\ due \subseteq received_non_full[n] /\ late \subseteq waiting[n]
    /\ due \cup late # {}
    /\ Cardinality(due \ is_full[n]) <= MAX_ASK_NON_FULL_IN_ONE_GO
    /\ received_non_full' = [received_non_full EXCEPT ![n] = @ \ (due \cap is_full[n])]
    /\ begs'    = [begs EXCEPT ![n] = @ \cup (due \ is_full[n])]
    /\ waiting' = [waiting EXCEPT ![n] = StillWaiting(n, late)]
    /\ UNCHANGED <<bodyVars, total_received, processed, sent>>

\* still_waiting_for_full_block: true, and the block recorded, for the first
\* reply only.
FirstReply(n, h) ==
    h \notin waiting[n] /\ waiting' = [waiting EXCEPT ![n] = @ \cup {h}]

\* #have_full_block from a peer: the first one is asked for the body.
HaveFullBlock(n, h) ==
    /\ h \in begs[n]
    /\ PeerHas(n, h)
    /\ ~HaveFull(n, h)
    /\ FirstReply(n, h)
    /\ sent'    = [sent EXCEPT ![n] = @ \cup {h}]
    /\ UNCHANGED <<bodyVars, received_non_full, total_received, processed, begs>>

\* (Mutant: set_block_full forgets waiting_for_full_blocks.)
NotWaitedForKept(n, h) == waiting[n]
NotWaitedFor(n, h) == waiting[n] \ {h}

\* #full_block, accepted: set_block_full.
FullBlock(n, h) ==
    /\ h \in sent[n]
    /\ ReceiveBody(n, h)
    /\ received_non_full' = [received_non_full EXCEPT ![n] = @ \ {h}]
    /\ waiting'   = [waiting EXCEPT ![n] = NotWaitedFor(n, h)]
    /\ processed' = [processed EXCEPT ![n] = @ + 1]
    /\ UNCHANGED <<total_received, netVars>>

\* The network: what is under way for h is lost with its connection.
Lose(n, h) ==
    /\ \/ h \in begs[n] /\ begs' = [begs EXCEPT ![n] = @ \ {h}] /\ UNCHANGED sent
       \/ h \in sent[n] /\ sent' = [sent EXCEPT ![n] = @ \ {h}] /\ UNCHANGED begs
    /\ UNCHANGED <<bodyVars, queueVars>>

FullNext == \E n \in Nodes :
    \/ \E h \in Hashes, c \in Chain : Mine(n, h, c)
    \/ \E h \in DOMAIN hdr : ReceiveHeader(n, h)
    \/ \E due \in SUBSET inchains[n] : AskHeaders(n, due)
    \/ \E due \in SUBSET received_non_full[n], late \in SUBSET waiting[n] :
         AskForFullBlocks(n, due, late)
    \/ \E h \in Hashes : HaveFullBlock(n, h) \/ FullBlock(n, h) \/ Lose(n, h)

FullSpec == FullInit /\ [][FullNext]_fullVars

\* run_network comes round every RUN_NETWORK_EACH_MILLISECONDS: a block that
\* stays due is asked for (an assumption about the load: smaller hashes that keep
\* arriving can starve it, NoneStarves of AskQueue), a block that waits too long
\* is released.  Replies may be lost, but a peer that keeps being asked is heard
\* in the end.
Fairness == \A n \in Nodes, h \in Hashes :
    /\ WF_fullVars(\E due \in SUBSET received_non_full[n], late \in SUBSET waiting[n] :
                     h \in due /\ AskForFullBlocks(n, due, late))
    /\ WF_fullVars(\E due \in SUBSET received_non_full[n], late \in SUBSET waiting[n] :
                     h \in late /\ AskForFullBlocks(n, due, late))
    /\ SF_fullVars(HaveFullBlock(n, h))

FairSpec == FullSpec /\ Fairness

------------------------------------------------------------------------------
\* received_non_full_blocks is exactly the main blocks without a body: no
\* grafted block is forgotten (its body would never be asked for), and no
\* full block stays queued.
NonFullTracked ==
    \A n \in Nodes : received_non_full[n] = chains[n] \ is_full[n]

\* A node waits for the body of a missing main block only, whatever the order
\* of first replies, late bodies and timeouts.
WaitingIsMissing ==
    \A n \in Nodes : waiting[n] \subseteq received_non_full[n]

\* The counters printed as progress agree with the queue: a body that arrives
\* twice or late is not counted twice.
Accounting ==
    /\ FullTypeOK
    /\ \A n \in Nodes :
           total_received[n] = processed[n] + Cardinality(received_non_full[n])

\* Retry: a missing body is asked from a peer again and again, however often
\* the reply or the body gets lost, until it has come.
AskedUntilFull ==
    \A n \in Nodes, h \in Hashes :
        h \in received_non_full[n] ~> (h \in is_full[n] \/ h \in sent[n])
=============================================================================
