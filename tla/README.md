# OHIE in TLA+

A verification development for this repository: a prototype node of the OHIE
blockchain protocol, which runs many longest-chain instances in parallel and
orders their blocks by rank, extended with transactions that are *promised*
once they have aged without a conflict. The TLA+ modules model what a node
keeps and what its handlers do; TLC checks them on small instances; TLAPS
proves all safety properties the runs check, and four refinements, for every
instance.

Paths are relative to `src/code/`.

## The system

A node is one process (`node.cpp`): a network thread that runs the sessions with
its peers, the periodic task `run_network` and all callbacks (`io_service.run`),
a miner thread, a thread that creates transactions and a thread that watches
transactions age. One mutex with a flag (`Blockchain::lock`, `locker_write`)
makes the message handlers, `run_network` and the miner exclude each other. The
transaction threads do not take it; they use a mutex per map of the pool.

| component | state | operations | talks to |
|---|---|---|---|
| block trees (`Blockchain.cpp`) | a tree of blocks per chain, a list of incomplete trees per chain, `deepest`; each node of a tree is in a search tree over hashes and in a family tree | `add_received_block`, `add_block_by_parent_hash_and_chain_id`, `get_incomplete_chain_hashes` | handlers, miner, `run_network` |
| miner (`miner.cpp`) | none of its own | `mine_new_block` | trees, pool, peers |
| header gossip (`process_buffer.cpp`, `requests.cpp`) | messages under way | `#process_block`, `#ask_block`, requests of `run_network` | trees, peers |
| full block requests (`Blockchain.cpp`, `process_buffer.cpp`) | `received_non_full_blocks`, `waiting_for_full_blocks`, `is_full_block`, counters | `get_non_full_blocks`, `still_waiting_for_full_block`, `remove_waiting_blocks`, `set_block_full` | peers, pool |
| commit rule (`Blockchain.cpp`) | `time_commited` | `update_blocks_commited_time` | pool (`commit_block`) |
| transaction pool (`transactions.cpp`) | `next_seqs`, `pending_transactions`, `mempool`, `dependencies`, `aging_transactions`, `aged_transactions`, `last_promised`, seven mutexes | `transaction_creator`, `aging_monitor`, `verify_transaction`, `verify_transaction_from_block`, `get_one_transaction`, `commit_block` | miner, handlers, commit rule |
| handlers (`process_buffer.cpp`, `requests.cpp`) | the receive buffer | one per message type | all of the above |
| connections (`MyServer.cpp`) | `peers` with session, strand and write queue; `pings`; the log of hashes | connect, read, write, reconnect, add a peer, ping | handlers |
| Merkle proofs (`verify.cpp`) | none | `compute_merkle_tree_root`, `compute_merkle_proof`, `verify_merkle_proof` | miner, `#full_block` |
| start (`node.cpp`, `configuration.cpp`) | parameters, file of peers | `set_configuration`, the loops of `main` | all |

What is hard here: headers arrive in any order and any number of times and are
filed in trees whose roots are missing; whole subtrees move at once, between
search trees and child lists that live in the same nodes; bodies follow headers
with retries, several answering peers and timeouts; blocks are mined on views
that differ between nodes and must still be ordered by rank; the pool has two
ways to a promise that race with each other; four threads share it under eight
mutexes, and some paths leave a mutex locked; callbacks of a session that was
dropped work, by index, on the one that replaced it. `PROJECT.json` lists these
hazards with their lines and the properties that guard against them.

What makes each component correct:

- trees: a block is in one place, links are those of the headers, `deepest` is
  deepest and first seen, nothing gets lost but what was given up; search trees
  and child lists agree;
- ranks: they grow along a chain and respect the trailing block;
- gossip: an answer closes the gap it was asked for, a node that missed headers
  gets them all, and the relaying ends;
- bodies: the queues agree with the trees, a missing body is asked for until it
  comes, it is passed over for long only behind many others, a full block has its
  parent and its trailing block;
- commits: once per block, only with a body, below everything that can still be
  added, not undone by a shallow fork;
- pool: numbers are promised without gaps, only a real conflict stops a
  transaction, the mempool holds what may be mined; no deadlock and no race in
  what is locked;
- connections: a lossy channel that does not reorder or repeat, and whose queue
  moves; one peer per address; pings that end and measure distances.

## Modules

| module | models | state and actions |
|---|---|---|
| `LongestChain` | abstract: what the trees promise | blocks, known blocks and tip of each node; `Mine`, `Learn` |
| `BlockTree` | `Blockchain.cpp` header part, `mine_new_block` | `chains`, `inchains`, `parent`, `nb`, `deepest` per node, headers in `hdr`; `MineNewBlock`; `AddToMain`, `NewTree`, `GrowTree`, `RaiseRoot`, `JoinTrees` are the cases of `add_received_block` / `add_block_to_incomplete`; `AskForIncomplete` |
| `HashTree` | the trees of one chain as pointers: `insert_one_node`, `insert_subtree_by_hash`, `add_block_by_parent_hash`, `find_max_depth`, `remove_one_chain` | `heap` of nodes with `left`, `right`, `child`, `sibling`, `parent`; `AddToMain`, `AddToIncomplete`, `AskForIncomplete`, whose loops are walks along pointers and whose recursive functions go down one level per round; implements `BlockTree` |
| `HashLog` | `BlockTree` with the log of hashes written by `run_network` | `last_stored`, `file`; `StoreHashes` |
| `CatchUp` | `BlockTree` with `#process_block`, `#ask_block` and the requests of `run_network` | messages `told` and `asks`; `Mine`, `ProcessHeader`, `AskBlock`, `AskTrailing`, `RunNetwork`, `Restart`; `Lose` is the network; `why` of a request is history |
| `Bodies` | `BlockTree` with `is_full_block` | `MineFullBlock`, `ProcessBlock`, `ReceiveBody` |
| `FullBlocks` | `Bodies` with the queues and messages of full block requests | `ReceiveHeader`, `AskForFullBlocks`, `HaveFullBlock`, `FullBlock`; `Lose` is the network |
| `AskQueue` | `get_non_full_blocks` with its retry times and its limit, which `FullBlocks` leaves out | the age of every queued block; `Arrive`, `SetBlockFull`, `GetNonFullBlocks`; `skipped` and `ahead` are history |
| `Commit` | `Bodies` with the commit rule | `time_commited`, the calls of `commit_block` counted, the cut blocks of the pass with the highest bar; `UpdateBlocksCommitedTime`, `TakeBody` |
| `TxPool` | `transactions.cpp` on one node: what its sections do | `CreateTransaction`, `VerifyNew`, `VerifyConflict`, `AgingMonitor`, `GetOneTransaction`, `VerifyFromBlock`, `CommitBlock`; `Blocks` is a thread that runs into a mutex left locked |
| `TxLocks` | the four threads and eight mutexes of a node: how the sections run against each other | `todo` of every thread, a sequence of instructions; `owner` of the mutexes, `locker_write`; `Begin`, `Enter`, `Leave`, `DoLock`, `DoUnlock`, `DoAccess`, `Keep`, `Quit`, `Interrupt`, `Take`, `Sleep` |
| `LossyChannel` | abstract: what a connection promises | messages in transit and sent; `Send`, `Deliver`, `Lose` |
| `PeerConn` | the outgoing connection of `tcp_server`: strand, write queue, callbacks | `ConnectPass`, `Connected`, `ConnectFailed`, `Post`, `RunTask`, `WriteDone`, `WriteFailed`, `PeersGrow`; implements `LossyChannel` |
| `PeerList` | the loop of `main` over the file of peers, `add_peer`, peers learned from messages | `tmp`, `peers`, `speers` of every node; `ReadPeers`, `AddOne`, `Run`, `Hear` |
| `Pings` | the pings of `run_network` and the `#ping` handler | `pings` of every node, the wires and receive buffers; `StartPing`, `ReadPings` |
| `Framing` | `tcp_connection::start` and the loop of `process_buffer` | the bytes in `full_buffer`; `ReadSome` |
| `Merkle` | `verify.cpp` and its use in `miner.cpp` and `#full_block` | pure operators; `Mine` and `Check` choose the inputs |
| `Configuration` | `set_configuration` | `value` of the parameters; `ReadLine` |
| `MC*` | constants, symmetry and constraints for TLC | |
| `BlockTreeProofs`, `HashTreeProofs`, `FullBlocksProofs`, `TxLocksProofs` | theorems about the module of that name (`BlockTreeProofs`: `Bodies` too) | |
| `WalkProofs` | theorems about what walks along the parent pointers: `Commit`, `HashLog` and `CatchUp` | |
| `StructureProofs` | theorems about `AskQueue`, `Framing`, `Merkle` and `TxPool` | |
| `WireProofs` | theorems about `PeerConn`, `PeerList`, `Pings` and `Configuration` | |
| `NatLemmas` | induction and recursion over the naturals, and division, for the proofs | |

`MCStructures` and `MCWire` put components that share no state into one run:
the initial state chooses which of them works, the others stay where they are.

Atomicity. Handlers, `run_network` and the miner hold `Blockchain::lock` from
start to end, so each is one action of `BlockTree`, `CatchUp`, `Bodies`,
`FullBlocks` and `Commit`. In `TxPool` a section of code between locking and
unlocking is one action; `NoDataRace` of `TxLocks` is what justifies this: two
sections that share a map share one of its mutexes, `next_seqs_mtx` or
`Blockchain::lock`, although not always the mutex of that map. What the code
does outside any mutex is a `peek` of `TxLocks` (`is_promised` in
`verify_transaction_from_block`, whose answer only ever turns to true; the
sizes in the report; the list of peers in `write_to_all_peers`). In `PeerConn`
an action is one callback of the network thread or one task of the strand.

Data. A hash determines its header. In all modules but `HashTree` the binary
search tree over hashes and the child lists are a set and the parent pointers.
Times are replaced by choice (a request may be due or not, a transaction aged or
not, a block mined ahead of the local clock or not) except in `AskQueue`. A
transaction has a sender, a number, a dependency and a variant that stands for
recipient and amount. Parameters are a few that stand for their kind.

Network. In `BlockTree` a mined header may arrive anywhere, any time, again and
again. In `CatchUp` and `FullBlocks` messages are explicit, overtake each other
and may be lost. The peers' part of `#got_full_block` and `#ask_full_block` is
in the guard of `HaveFullBlock`: some other node has the body. Why messages
overtake each other and get lost is in `PeerConn`.

Restart. A node that restarts starts from the genesis blocks and loses
everything: `CatchUp` has this as an action. What is under way does not go with it:
a peer keeps the messages it has queued (`close_peer_connection` does not clear them,
`MyServer.cpp:258`) and answers the requests it has read, so any part of the messages to
and from the node may survive, and a request sized for its old tree may be answered to
the new one. Other nodes also notice that it uses
its transaction numbers again, and `TxPool` has that in `Offered`.

## Runs

| run | bounds | shows |
|---|---|---|
| `trees` | 2 nodes, 2 chains, 5 blocks, trees dropped at the second request, hashes logged one below the deepest block | `OneHome`, `RankOrder`; `TreeInv`, the inductive invariant of the proofs; `FirstSeenKept`, `LosesOnlyExpired`; the refinement of `LongestChain`; `LogInv`: logs have no gaps and disagree on deep forks only |
| `bodies` | 2 nodes, 2 chains, 3 blocks, one body asked for in one pass | `FullIsGrounded`, `NonFullTracked`, `WaitingIsMissing`, `Accounting` |
| `retry` | 2 nodes, 1 chain, 2 blocks, with fairness | `AskedUntilFull` |
| `catch_up` | 2 nodes, 2 chains, 4 blocks (up to 3 missing in one chain, a fork, trailing blocks in the other), answers of 2 headers, one restart and one lost message, with fairness | `OneAnswerClosesTheGap`, `CatchesUp`, `GossipDiesOut` |
| `commit` | 2 nodes, 2 chains, 4 blocks, `T_DISCARD` 0, at most one block ahead of the clock | `NothingRanksBelowTheBar`, `NoDoubleCommit`; a committed block has its body |
| `forks` | 2 nodes, 1 chain, 5 blocks, `T_DISCARD` 0 | `ShallowForkKeepsCommits` |
| `transactions` | one client here and one elsewhere, numbers 0 and 1, four broadcasts of others | `NoSeqSkipped`, `AgedOnlyOnConflict` |
| `threads` | the four threads, at most one transaction in the mempool, blocks of 0 or 1 transactions, interrupts on or off, with fairness | `NoCircularWait`, `NoDataRace`, `OnlyKnownLeaks`, `EveryoneComesRound` |
| `structures` | pointers: all trees of 5 blocks, all orders; queue: 5 bodies, 2 per pass, 2 passes in a retry time; Merkle: 1 to 20 chains (20 is the shipped configuration); receiving: all streams of 3 messages of 2 or 3 bytes in all cuts; configuration: all files of 2 lines | `PointersAgree`, `ImplementsBlockTree`; `NoneStarves`; `RootCoversAllChains`, `AcceptedIffItsPlace`; `OnceInOrder`, `HandledAtOnce`; `LastLineCounts` |
| `wire` | connection: 4 messages, any failures; peers: 3 nodes on 2 machines, at most 2 peers from the file; pings: 2 pings, a triangle with a tail; with fairness | `ConnectionInv`, `ImplementsChannel`, `QueueMoves`; `OnePeerPerAddress`, `Starts`; `DistancesMeasured`, `PingsDieOut` |
| `mempool`, `released` | as small as needed | comments of the code that the code does not keep, see below |

Why the bounds are enough. On a chain of five blocks the headers 2 and 4 start two
incomplete trees, 5 extends the second, 3 joins them and 1 grafts the result; a
second node mines the forks that compete with it. Ranks need a second chain and
nothing else. Two branches of two blocks and a root are what logs need to
disagree. Five nodes are the smallest search trees in which a moved tree has
nodes on both sides at two levels. With `T_DISCARD` 0 a commit needs two blocks and
a fork that undoes it three: five; `T_DISCARD` 6, as configured, only shifts the
cut (and the theorems are for all values of it). Two numbers and two variants per client in `TxPool` are what a chain of an
explicit and an implicit dependency and a double spend need. Answers of two
headers are shorter than the gap of a node that restarts behind four blocks, and the
second chain is there for trailing blocks. With five bodies and two passes of two the
largest hash has four ahead of it, the least number at which a block can starve, and the
others fewer: `NoneStarves` is about both. A connection that crosses its own reconnect needs two messages, and
the queue it leaves behind two more. In the triangle a ping comes on the longer
path first; the tail shows that the correction is passed on.

Deadlock is not checked: the numbers of blocks, messages and transactions are
bounded, and `TxPool` and `TxLocks` really stop when a mutex stays locked.
`MCTxLocks` follows a behaviour up to the first lock that is left taken
(constraint `UpToFirstLeak`): afterwards threads only get stuck. The state in
which it happens is still checked, so `OnlyKnownLeaks` sees every leak.

Hashes in `FullBlocks`, `Commit` and `CatchUp` are numbers mined in increasing
order (constraints `HashOrder`, `MinedInOrder`); they are interchangeable, so
nothing is lost. In `HashTree` their order matters and all orders are explored.

### Fairness

- `FullBlocks`. `run_network` runs every `RUN_NETWORK_EACH_MILLISECONDS`: weak
  fairness of asking for a block that stays queued and of releasing one that
  waits too long. Strong fairness of `HaveFullBlock`: a peer that is asked again
  and again is heard once. Weak fairness per block is an assumption about the load, which
  the code does not guarantee: `get_non_full_blocks` goes in the order of hashes and
  stops at `MAX_ASK_NON_FULL_IN_ONE_GO`. On a node that runs for long, if as many
  blocks of smaller hashes arrive before every pass as the pass asks for, a block of a
  large hash is passed over for ever, although few bodies are missing at a time.
  `NoneStarves` of `AskQueue` says what it takes: while a block is passed over in
  `RetryPasses` passes in a row, at least `RetryPasses` times the limit (three passes of
  250 with the shipped configuration) different blocks of smaller hashes are missing.
  With fewer the block is asked for; that is all it justifies. `AskedUntilFull` says that a peer is asked for the body, not that the
  body comes: that needs the peer's connection and valid transactions.
- `TxLocks`. Every thread is scheduled (weak fairness of its steps), and gets a
  mutex that is free again and again (strong fairness), since the other threads
  sleep or wait for the network between two sections. `EveryoneComesRound` assumes
  in its statement that no lock leaks and that the mempool does not stay empty.
- `CatchUp`. What is not lost arrives and `run_network` comes round; a body whose
  trailing block is missing is asked for, and comes, again, as in `FullBlocks`. A root is
  asked for again only when nothing about it is under way
  (`ASK_FOR_INCOMPLETE_INDIVIDUAL_MILLISECONDS` exceeds a round trip), and less
  messages are lost than `NO_ASKS_BEFORE_REMOVING`: otherwise a tree is dropped, as
  the code intends. A block that only a restarting node had is gone.
- `PeerConn`. `run_network` comes round, callbacks and tasks of the strand run, and a
  peer that is tried again and again can be reached (strong fairness of `Connected`).
- `PeerList`. `main` goes on, and the random index hits an address that can be added.
- `Pings`. What is on the wire is read, followed by other traffic (transactions
  are sent every second), without which a kept message stays in the buffer.

### Refinements

`BlockTree` implements `LongestChain` (checked and proved). `HashTree` implements
the steps of `BlockTree` on one chain: sets are what hangs below a root in the
family tree. `PeerConn` implements `LossyChannel` until its history variable `upset`
records one of the two events that break the queue: a connection that comes up while
messages wait in its strand (`strand_proceed` and `strand_write` then each start a
write, `MyServer.cpp:358`), or a vector of peers that grows under a write
(`MyServer.cpp:221`). `ConnectionInv` and `ImplementsChannel` show that nothing else
does.

### Where comments and code differ

- `mempool`: `pending_transactions` (`transactions.cpp:55`) is for transactions
  with unmet dependencies, "the explicit ones and previous sequence no".
  `notify_dependencies` calls `check_dependencies` with the promised
  transaction's sender and number, so a transaction whose sender's previous number
  is not promised gets into the mempool.
- `released`: the map `dependencies` (`transactions.cpp:61`) is there so that "when
  key finishes move value from pending to mempool". `promise_transaction` clears the
  entry also when the transaction was promised out of order and does not count as
  promised yet, so its dependents stay pending when it does; only a later round of
  `aging_monitor` may take them up.

## Proofs

The theorems hold for every value of the constants that satisfies the assumptions
named in the modules; the bounds that keep TLC finite (`MAX_POSTS`, `MAX_EARLY`,
`MAX_SEQ`, ...) are arbitrary naturals in them. Sets of nodes and hashes may be
infinite, except where a module assumes them finite: the bodies of `AskQueue`, whose
number is compared with a limit, the nodes of `Pings`, and the hashes of `HashTree`,
whose number bounds the length of a walk.

| theorem | states | rests on |
|---|---|---|
| `TreeSafety`, `HomeSafety`, `RankSafety` | `[]TreeInv`, `[]OneHome`, `[]RankOrder` | `TreeInv` |
| `Refinement`, `FirstSeen`, `NothingLost` | `BlockTree` implements `LongestChain`; `FirstSeenKept`; `LosesOnlyExpired` | `TreeInv` |
| `GroundedSafety`, `TrackedSafety`, `WaitingSafety`, `AccountingSafety` | `FullIsGrounded`, `NonFullTracked`, `WaitingIsMissing`, `Accounting` | `FullInv` |
| `PointerSafety` | `[]PointersAgree` | `HeapInv` |
| `HeapRefines` | `HashTree` takes the steps of `BlockTree` | `HeapInv` |
| `FullRefinesTrees` | `FullBlocks` implements `BlockTree` | |
| `CommitTypes`, `CommitOnce`, `CommitFinal` | `CommitTypeOK`, `NoDoubleCommit`, `NothingRanksBelowTheBar` | `CommitInv` |
| `ForkSafety` | `ShallowForkKeepsCommits` | `CommitInv` before and after the step |
| `LogSafety` | `LogInv` | `HashLogInv` |
| `GapSafety` | `OneAnswerClosesTheGap` | `CatchUpInv` |
| `NoStarvation` | `NoneStarves` | `StarvationInv` |
| `OrderSafety`, `PromptSafety` | `OnceInOrder`, `HandledAtOnce` | `FrameInv` |
| `RootSafety`, `PlaceSafety` | `RootCoversAllChains`, `AcceptedIffItsPlace` | lemmas about the levels of the tree |
| `SequenceSafety`, `ConflictSafety` | `NoSeqSkipped`, `AgedOnlyOnConflict` | `PoolInv` |
| `DeadlockFreedom`, `RaceFreedom`, `LeakSafety` | `NoCircularWait`, `NoDataRace`, `OnlyKnownLeaks` | `LockInv` |
| `ConnectionSafety` | `ConnectionInv` | `ConnInv` |
| `ConnectionRefines` | `PeerConn` implements `LossyChannel` | `ConnInv` |
| `PeersSafety` | `OnePeerPerAddress` | `PeersInv` |
| `PingsMeasure` | `DistancesMeasured` | `PingInv` |
| `ConfigurationSafety` | `LastLineCounts` | itself |

The arguments:

- **Trees.** `TreeInv` is the conjunction of the type invariant, `OneHome`,
  `WellLinked`, `NbSet`, `DeepestIsDeepest`, `RankOrder` and `Shape`. None of the first
  is inductive alone: that grafting keeps trees apart needs that an incomplete tree
  belongs to one chain and that its root is its least deep node (no tree grows into a
  cycle), that `deepest` stays deepest needs that depth follows the links, and that a
  new link starts from a clean pointer needs that hashes outside the trees have none:
  this is `Shape`. One lemma per action. In the refinement `AddToMain` is a `Learn` of
  the moved subtree, `MineNewBlock` a `Mine`, the rest stutters.
- **Pointers.** A search tree is described by spans (`SearchTree`): the span of a node
  is the set of numbers whose search comes by it. The root's is all numbers, a child's is
  the part of its parent's on its side, and two spans are nested or disjoint. So a search
  ends at its number or where the number is to be linked, and a linked node takes over
  the part of a span that was nobody's. A child list is a sequence without repetition
  that the pointers `child` and `sibling` read out (`ChildList`); a family tree has such a
  list of the nodes below it for every node, and the parents of the headers
  (`FamilyTree`), which make no cycle. `HeapInv` says
  that there are sets of nodes, one per root, apart from each other, with both trees
  on each (`Forest`), and that all other nodes are fresh. Moving a tree takes its nodes
  in an order in which whatever a node points to is still to come, so the part not yet
  moved can be overwritten (`MoveOne`, `Join`). The list of incomplete trees has every
  root once. For the refinement every call is one of the five cases of `BlockTree`
  (`HookedIs`, `GraftedIs`), the sets of the forest are the trees of `BlockTree`, and the
  first deepest block in the order of the child lists is one that no other is deeper than.
- **Bodies.** `BodyInv` adds `FullIsGrounded` and that genesis blocks are full.
  `FullInv` adds the three queue invariants, that finitely many blocks have been mined
  (so that the counters can be compared with a cardinality) and that a node only begs
  for blocks of its main trees, which it never forgets (`MainTreesGrow`): the reply may
  come at any later time.
- **Commits.** The walks along the parent pointers (`Walk`, a function on the
  naturals) are treated by induction: after k steps from a main block of depth d one is
  at a main block of depth d - k of the same chain, and the walk is the same in every
  later state. `CommitInv` has that a committed block is full and stamped (an accepted
  body resets the stamp, but only of a block that was not full), that the deepest block of
  its chain is more than `T_DISCARD` blocks deeper (`Buried`; it only gets deeper), and
  that committed blocks rank below the highest bar. Finality then follows
  from `RankOrder`: ranks grow along a chain, so what is above a cut ranks at or above
  its `next_rank`. A fork that abandons a committed block abandons the blocks above it
  too, and a tip only moves to a deeper one.
- **Log.** `HashLogInv` says of every entry that its block is in the node's main tree, at
  the depth and in the chain it should be, and overgrown unless it is the genesis block
  (which is the same everywhere: `GenesisIsFirst`). Both stay true because main trees and the
  walks in them do not change (`PointersStay`, `WalkSame`). The pass over the depths is
  an induction: one depth more is one entry more exactly at the multiples of
  `STORE_HASH_FREQ` (`NextMultiple`).
- **Requests.** `CatchUpInv` says that a request for missing blocks is `Enough`: for
  `MAX_ASK_BLOCKS` blocks, or for all above the asker's deepest block. That block only gets
  deeper before the answer comes. Two kinds of requests are excepted, and would break
  the claim: one for an unknown trailing block is for one block (`process_buffer.cpp:435`),
  and one that survives a restart of the asker was sized for the tree it had before.
  The headers they bring lead to requests of the first kind, and `CatchesUp` (with TLC)
  is about all of them. If the fork is at most one below that block, then the walk of the answer
  reaches the block above the fork, or has `MAX_ASK_BLOCKS` different blocks before.
- **Starvation.** A pass that leaves a block out is full, of blocks of smaller hashes
  (`FullPass`, `TakenBelow`). None of these is due again before one retry time is over, so
  up to `RetryPasses` passes in a row have served different ones: `WaitInv` counts those
  whose body has come or whose age says that they were asked for in these passes. They
  are among the blocks that were missing ahead of it (`ahead`), so there are at least as
  many of those.
- **Framing.** The bytes of a session are those of its messages, one behind the other
  (`WireLayout`). `FrameInv` says that the buffer has the bytes that came since the
  beginning of the first message that is not done, and that everything before it was
  handed over once and in order, or has a reason not to be. The same, for the position of
  the loop in the buffer, is the invariant of the loop in `process_buffer`; every round
  of it keeps it and goes forward or stops.
- **Merkle.** Node x of level k covers the leaves x 2^k to (x+1) 2^k - 1, so the root is
  the reference tree over all leaves. For soundness, on every level the node over leaf i
  is different from all others, since sha256 is injective and the leaf of a chain is no
  other leaf. A proof that climbs to the root must then, from the root down, take the
  way up from i: another parent has another leaf, another id another side.
- **Pool.** Every step of a section (`Saved`, `NotifyNext`, `NotifyDependents` over any
  number of dependents, `Promise`) keeps the maps one transaction per key and
  moves `next_seqs` only over promised keys.
- **Locks.** Every section is a program annotated with the mutexes held before each
  instruction (`Prog`), where an instruction is legal only if it takes a mutex above all
  it holds in one fixed order (`Rank`) and uses a structure only under mutexes any two of
  which meet (`Guarded`). Programs compose; so the annotation of each function follows
  from those of the functions it calls, for blocks of any size. `LockInv` says that what
  a thread still has to do is annotated from what it owns. In a circle of waiting threads
  the one that wants the highest mutex contradicts the order.
- **Connection.** `InStep` (one write at most, of the front of the queue, and
  `strand_proceed` only at the head of the strand with no write under way) is inductive
  only together with `NoLateWrite`, which ties writes and callbacks to the session they
  belong to; both are conditional on `upset`, the two known events. For the refinement
  the queue and the tasks of the strand behind it are the channel.
- **Peers.** `peers` is a list without repetition with the elements of `speers`, which
  never has the node's own address.
- **Configuration.** `LastLineCounts` is inductive: a line either leaves a parameter
  alone or is the last one that sets it. (The derived parameters are compared modulo the
  word: the product may overflow.)
- **Pings.** `NotTooNear`: what is on a link or recorded was not reached in fewer hops.
  `PassedOn`: what a node recorded, its neighbour has recorded as near or will read. When
  nothing is under way the second gives, by induction over the distance, that every node
  recorded at most its distance, the first at least. `WithinHops` is a recursive function
  on the naturals, and the number of nodes bounds the distances it has to look at.

`ConnInv`, `PingInv`, `FullInv`, `CommitInv`, `PoolInv` and the others were first
checked with TLC on the instances of the runs. `HeapInv` and `FrameInv` quantify over
families of sets and over histories; of them TLC has checked what they are for.

Induction over data. The library's induction theorems take a predicate as parameter,
which the provers cannot instantiate. `NatLemmas` has induction over a *set* of naturals
(`InductionOverSet`, `InductionUpto`), from the well-foundedness of `<`, and that a
function defined by a first value and a step exists (`RecursiveFunction`, and
`BoundedRecursion` for a function on `0 .. n`); recursive functions and sequences are
treated with these. Definitions have the form they have because of this: what
the code does in loops and recursive calls is a recursive function over the rounds, the
positions of a sequence or the levels of a tree, and no module declares a `RECURSIVE`
operator. A function on the naturals need not be bounded (`Walk` of `BlockTree`,
`WithinHops`), one over a tree is bounded by the number of its nodes (`PreOrder`,
`Family` and `MaxDepth` of `HashTree`), one over a stream by its messages or bytes.

What a proof found. `NothingRanksBelowTheBar` used to be about the bar of the last pass.
The proof of that failed for a good reason: a fork deeper than `T_DISCARD` in one
chain may put a lower cut block into the place of a higher one, and the bar of the next
pass is lower than what was committed before. The smallest instance needs more
blocks than the run has. What holds, and what the property now says, is about the
highest bar a node has had.

### Only model-checked

- Liveness: `AskedUntilFull`, `CatchesUp`, `GossipDiesOut`, `EveryoneComesRound`,
  `QueueMoves`, `Starts`, `PingsDieOut`. The prover has no reasoning about fairness and
  `ENABLED`. The action part of `CatchesUp` is no invariant for all constants either: with
  `MAX_LOSSES` above `NO_ASKS_BEFORE_REMOVING` a tree is dropped while a peer has its root.
- The two runs that find a comment violated: a counterexample is TLC's.

## Not modelled

- `MersenneTwister.h` (vendored); signatures (disabled in the code),
  `crypto_stuff`, `get_ip`, `machine_id`, `misc` (library calls and strings without
  state); `amazonEC2/` and the docker files.
- Printing and statistics, among them the latencies of blocks and the files other
  than the log of hashes.
- The arguments of `main`, the folders it makes and the file of allowed addresses:
  they are read once into constants.
- What happens in memory when the code reads a map or a vector that another thread
  changes (the `peek`s of `TxLocks`: `next_seqs`, `peers`, the random generator):
  `TxLocks` shows where such accesses are, no property says they do not meet.
- A mined block's chain id is taken as valid, since sha256 decides it.
- What the code's recursion costs (the depth of the stack, the shape of a search tree
  that is not balanced) is no property of the models.

## Where it stands

The modules were written from the trees outwards: `BlockTree`, then what uses it
(`Bodies`, `FullBlocks`, `Commit`, `CatchUp`, `HashLog`), the pool and its threads, the
connections, and last the data structures. Every invariant and every action property
that a run checks is a theorem. A change of the code
that touches a mapped definition should be made in the model first: the run of its
component takes minutes and tells whether the invariant is still one, the proof then
tells why.

What a next step could be: fairness (the liveness properties stay with TLC until the
prover has rules for it), and the two accesses outside a mutex under *Not modelled*,
for which the models of `TxLocks` would have to say what a torn read returns.
