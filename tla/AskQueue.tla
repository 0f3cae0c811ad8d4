------------------------------ MODULE AskQueue ------------------------------
(***************************************************************************)
(* Which missing bodies run_network asks for, and when.  FullBlocks leaves *)
(* the clock out and assumes that a block that stays due is asked for in   *)
(* the end; get_non_full_blocks however takes the due blocks in the order  *)
(* of their hashes and stops at MAX_ASK_NON_FULL_IN_ONE_GO, in every pass  *)
(* from the smallest hash again.  Here a block has its age, the time since *)
(* it was asked for last, and a pass comes after one of the times Gaps.    *)
(*                                                                         *)
(* A queued block is in the main tree and not full (FullBlocks,            *)
(* NonFullTracked), so the other cases of get_non_full_blocks do not occur.*)
(***************************************************************************)
EXTENDS Integers, FiniteSets, FiniteSetsExt

CONSTANTS
    BodyHashes,                   \* hashes of blocks, numbers
    MAX_ASK_NON_FULL_IN_ONE_GO,   \* blocks asked for in one pass
    INDIVIDUAL,   \* ASK_FOR_FULL_BLOCKS_INDIVIDUAL_EACH_MILLISECONDS
    Gaps          \* times between two passes; the least one is just above
                  \* ASK_FOR_FULL_BLOCKS_EACH_MILLISECONDS

ASSUME BodiesAssumption == BodyHashes \subseteq Nat /\ IsFiniteSet(BodyHashes)
ASSUME LimitAssumption  == MAX_ASK_NON_FULL_IN_ONE_GO \in Nat \ {0}
ASSUME TimeAssumption   == INDIVIDUAL \in Nat /\ Gaps \subseteq Nat \ {0}
ASSUME GapAssumption    == \E g \in Gaps : \A x \in Gaps : g >= x

VARIABLES
    received_non_full_blocks,   \* age of every queued block
    full,     \* blocks whose body has come
    skipped,  \* history: passes in a row that left a queued block out
    ahead     \* history: blocks of smaller hashes queued in one of these passes

askVars == <<received_non_full_blocks, full, skipped, ahead>>

Queue == DOMAIN received_non_full_blocks

\* An age above INDIVIDUAL is as good as any: a new block is asked for at
\* once.
Oldest == INDIVIDUAL + 1

\* The least number of passes until a block that was asked for is due again;
\* skipped counts up to it.
RetryPasses == INDIVIDUAL \div Max(Gaps) + 1

\* State and types.
QueueTypeOK ==
    /\ Queue \subseteq BodyHashes
    /\ received_non_full_blocks \in [Queue -> 0 .. Oldest]
    /\ full \subseteq BodyHashes \ Queue
    /\ skipped \in [Queue -> 0 .. RetryPasses]
    /\ ahead \in [Queue -> SUBSET BodyHashes]

QueueInit ==
    /\ received_non_full_blocks = <<>> /\ full = {}
    /\ skipped = <<>> /\ ahead = <<>>

------------------------------------------------------------------------------
\* add_received_block, add_subtree_to_received_non_full: headers arrive.
Arrive(new) ==
    /\ new # {} /\ new \cap (Queue \cup full) = {}
    /\ received_non_full_blocks' =
         [h \in Queue \cup new |-> IF h \in new THEN Oldest ELSE received_non_full_blocks[h]]
    /\ skipped' = [h \in Queue \cup new |-> IF h \in new THEN 0 ELSE skipped[h]]
    /\ ahead' = [h \in Queue \cup new |-> IF h \in new THEN {} ELSE ahead[h]]
    /\ UNCHANGED full

\* What set_block_full leaves queued.
Done(h) == Queue \ {h}

\* set_block_full: the body of h has come.
SetBlockFull(h) ==
    /\ h \in Queue
    /\ received_non_full_blocks' = [x \in Done(h) |-> received_non_full_blocks[x]]
    /\ full' = full \cup {h}
    /\ skipped' = [x \in Done(h) |-> skipped[x]]
    /\ ahead' = [x \in Done(h) |-> ahead[x]]

Age(h, gap) == Min({Oldest, received_non_full_blocks[h] + gap})

\* (Mutant: a block is due when the time is just up.)
IsDueAtOnce(age) == age >= INDIVIDUAL
IsDue(age) == age > INDIVIDUAL

\* The loop of get_non_full_blocks ends with the block that fills the pass.
Taken(due) ==
    {h \in due : Cardinality({x \in due : x < h}) < MAX_ASK_NON_FULL_IN_ONE_GO}

\* The queued blocks that a pass looks at before h.
Before(h) == {x \in Queue : x < h}

OneMore(passes) == IF passes < RetryPasses THEN passes + 1 ELSE passes

GetNonFullBlocks(gap) ==
    LET due   == {h \in Queue : IsDue(Age(h, gap))}
        taken == Taken(due)
    IN  /\ received_non_full_blocks' =
             [h \in Queue |-> IF h \in taken THEN 0 ELSE Age(h, gap)]
        /\ skipped' = [h \in Queue |-> IF h \in due \ taken THEN OneMore(skipped[h]) ELSE 0]
        /\ ahead' = [h \in Queue |-> IF h \in due \ taken THEN ahead[h] \cup Before(h) ELSE {}]
        /\ UNCHANGED full

QueueNext ==
    \/ \E new \in SUBSET BodyHashes : Arrive(new)
    \/ \E h \in BodyHashes : SetBlockFull(h)
    \/ \E gap \in Gaps : GetNonFullBlocks(gap)

QueueSpec == QueueInit /\ [][QueueNext]_askVars

------------------------------------------------------------------------------
\* A block starves only behind many smaller hashes: when get_non_full_blocks has
\* left a due block out in RetryPasses passes in a row, the bodies of as many
\* blocks of smaller hashes as these passes can ask for were missing in one of
\* them or another, whatever arrived and whenever the passes came.  (It does
\* starve if smaller hashes keep arriving as fast as passes ask for them,
\* however few are missing at a time.)
NoneStarves ==
    /\ QueueTypeOK
    /\ \A h \in Queue :
         Cardinality(ahead[h]) < MAX_ASK_NON_FULL_IN_ONE_GO * RetryPasses
             => skipped[h] < RetryPasses
=============================================================================
