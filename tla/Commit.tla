------------------------------- MODULE Commit -------------------------------
(***************************************************************************)
(* When a node commits a block: update_blocks_commited_time discards the   *)
(* last T_DISCARD blocks of every chain and commits, behind them, the full *)
(* blocks whose next_rank is below the smallest next_rank of the cut       *)
(* blocks.  commits counts the calls of commit_block.  The latencies the   *)
(* function also gathers (time_partial among them) feed statistics only    *)
(* and are left out.                                                       *)
(***************************************************************************)
EXTENDS Bodies, FiniteSetsExt

CONSTANTS
    T_DISCARD,   \* blocks at the end of a chain that are not trusted yet
    MAX_EARLY    \* bound: blocks mined ahead of a node's clock in one pass

ASSUME DiscardAssumption == T_DISCARD \in Nat
ASSUME EarlyAssumption   == MAX_EARLY \in Nat

VARIABLES
    time_commited,   \* time_commited[n]: blocks whose time_commited is set
    commits,         \* history: calls of commit_block for every block
    cut              \* history: the cut blocks of the pass with the highest bar

history    == <<commits, cut>>
commitVars == <<bodyVars, time_commited, history>>

Committed(n) == {h \in BlockHash : commits[n][h] > 0}

\* Types; a committed block has its body (commit_block exits with "PANIC: BLOCK
\* IS NOT STORED" on one that has not).
CommitTypeOK ==
    /\ is_full \in [Nodes -> SUBSET BlockHash]
    /\ time_commited \in [Nodes -> SUBSET BlockHash]
    /\ commits \in [Nodes -> [BlockHash -> Nat]]
    /\ \A n \in Nodes : time_commited[n] \cup Committed(n) \subseteq is_full[n]
    /\ cut \in [Nodes -> [Chain -> BlockHash]]

CommitInit ==
    /\ BodyInit
    /\ time_commited = [n \in Nodes |-> Chain]
    /\ commits = [n \in Nodes |-> [h \in BlockHash |-> 0]]
    /\ cut = [n \in Nodes |-> [c \in Chain |-> c]]

Up(n, b) == Walk(parent[n], b)

\* b and its ancestors.
Path(n, b) == {Up(n, b)[k] : k \in 0 .. hdr[b].depth}

\* The last block of chain c that is not discarded, NULL on a short chain.
CutBlock(n, c) == Up(n, deepest[n][c])[T_DISCARD]

\* confirm_bar exists once every chain is longer than T_DISCARD.
HasBar(n) == \A c \in Chain : CutBlock(n, c) # NULL /\ CutBlock(n, c) \in nb[n]

\* The smallest next_rank of one block per chain.
Bar(cuts) == Min({hdr[cuts[c]].next_rank : c \in Chain})

\* (Mutant: the loop over the chains stops after the first.)
ConfirmBarOfFirst(n) == hdr[CutBlock(n, 0)].next_rank
ConfirmBar(n) == Bar([c \in Chain |-> CutBlock(n, c)])

\* (Mutant: an off-by-one in the comparison with the bar.)
AtMostBar(n, h) == hdr[h].next_rank <= ConfirmBar(n)
BelowBar(n, h) == hdr[h].next_rank < ConfirmBar(n)

\* The blocks of chain c behind its cut; none on a short chain.
Behind(n, c) == IF CutBlock(n, c) = NULL THEN {} ELSE Path(n, CutBlock(n, c))

\* (Mutant: blocks known by header only are committed as well.)
ReadyByHeader(n, h, early) == h \notin time_commited[n] \cup early /\ BelowBar(n, h)
Ready(n, h, early) ==
    h \in is_full[n] \ (time_commited[n] \cup early) /\ BelowBar(n, h)

\* The blocks one pass hands to commit_block, each of them once: the walk sets
\* time_commited as it goes.
Batch(n, early) ==
    IF HasBar(n) THEN {h \in UNION {Behind(n, c) : c \in Chain} : Ready(n, h, early)}
                 ELSE {}

\* update_blocks_commited_time.  early: blocks whose time_mined is not before
\* this node's clock (clocks of different nodes differ), which are left alone.
UpdateBlocksCommitedTime(n, early) ==
    LET batch == Batch(n, early)
        cuts  == [c \in Chain |-> CutBlock(n, c)]
    IN  /\ time_commited' = [time_commited EXCEPT ![n] = @ \cup batch]
        /\ commits' = [commits EXCEPT ![n] =
                         [h \in BlockHash |-> IF h \in batch THEN @[h] + 1 ELSE @[h]]]
        /\ cut' = [cut EXCEPT ![n] = IF HasBar(n) /\ Bar(cuts) >= Bar(@)
                                     THEN cuts ELSE @]
        /\ UNCHANGED bodyVars

\* #full_block, accepted: the handler resets the times of the block.
TakeBody(n, h) ==
    /\ ReceiveBody(n, h)
    /\ time_commited' = [time_commited EXCEPT ![n] = @ \ {h}]
    /\ UNCHANGED history

CommitNext == \E n \in Nodes :
    \/ \E h \in Hashes, c \in Chain :
         MineFullBlock(n, h, c) /\ UNCHANGED <<time_commited, history>>
    \/ \E h \in DOMAIN hdr : ProcessBlock(n, h) /\ UNCHANGED <<time_commited, history>>
    \/ \E due \in SUBSET inchains[n] :
         AskIncomplete(n, due) /\ UNCHANGED <<time_commited, history>>
    \/ \E h \in Hashes : TakeBody(n, h)
    \/ \E early \in SUBSET (is_full[n] \ time_commited[n]) :
         Cardinality(early) <= MAX_EARLY /\ UpdateBlocksCommitedTime(n, early)

CommitSpec == CommitInit /\ [][CommitNext]_commitVars

------------------------------------------------------------------------------
\* The blocks of chain c that node n builds on.
MainPath(n, c) == Path(n, deepest[n][c])

\* commit_block reads a block's transactions once: neither a body that comes
\* late or twice (which resets time_commited) nor a change of branch and back
\* commits a block again.
NoDoubleCommit == \A n \in Nodes, h \in BlockHash : commits[n][h] <= 1

\* What is committed is final in rank: every committed block is below the
\* highest bar so far, and while node n still builds on the blocks of that
\* bar, every block it has or gets above one of them, mined on whatever view
\* of the other chains, ranks at or above it.
NothingRanksBelowTheBar ==
    \A n \in Nodes :
        LET bar == Bar(cut[n]) IN
        /\ \A h \in Committed(n) : hdr[h].next_rank < bar
        /\ (\A c \in Chain : cut[n][c] \in MainPath(n, c)) =>
             \A c \in Chain : \A h \in MainPath(n, c) :
               hdr[h].depth > hdr[cut[n][c]].depth => hdr[h].rank >= bar

\* A shallow fork never undoes a commit: a committed block leaves the branch a
\* node builds on only together with T_DISCARD + 1 blocks on top of it.
ShallowForkKeepsCommits ==
    [][\A n \in Nodes, c \in Chain :
         LET abandoned == MainPath(n, c) \ MainPath(n, c)'
         IN  abandoned \cap Committed(n) # {} =>
               Cardinality(abandoned) > T_DISCARD + 1]_commitVars
=============================================================================
