------------------------------- MODULE TxLocks -------------------------------
(***************************************************************************)
(* The threads of a node and the mutexes they take: the network thread     *)
(* ("main": handlers, run_network and the callbacks of io_service.run),    *)
(* the miner, aging_monitor and transaction_creator.  TxPool says what the *)
(* sections do to the transaction pool; this module says how they run      *)
(* against each other.                                                     *)
(*                                                                         *)
(* A section is a sequence of instructions in the order of the code:       *)
(*   enter, leave   Blockchain::lock with locker_write and can_write       *)
(*   lock, unlock   a mutex of transactions.cpp, several unlocks at once   *)
(*   use            work on shared data under the section's mutexes        *)
(*   peek           work on shared data the code does under no mutex       *)
(*   keep           a return that leaves mutexes locked                    *)
(*   quit           the early return of mine_new_block                     *)
(*   take, sleep    get_one_transaction                                    *)
(*   interrupt      boost::thread::interrupt on the miner                  *)
(* Data is the name of the structure; of the mempool the number of         *)
(* transactions in it is kept, as the miner waits for one.                 *)
(***************************************************************************)
EXTENDS Integers, FiniteSets, SequencesExt

CONSTANTS
    MAX_MEMPOOL,    \* bound: transactions in the mempool
    BlockSizes,     \* transactions a block holds (0 : BLOCK_SIZE_IN_BYTES = 0)
    Interrupts,     \* values of CAN_INTERRUPT
    None

Threads == {"main", "miner", "monitor", "creator"}
Mutexes == {"bc", "aging", "next_seqs", "pending", "mempool", "dependencies", "aged",
            "promise_stats"}

ASSUME BoundAssumption  == MAX_MEMPOOL \in Nat \ {0}
ASSUME ConfigAssumption == BlockSizes \subseteq Nat /\ Interrupts \subseteq BOOLEAN
ASSUME NoneAssumption   == None \notin Threads

VARIABLES
    todo,           \* the instructions a thread still has to do
    owner,          \* who holds each mutex
    locker_write,   \* Blockchain::locker_write
    mempool,        \* number of transactions in the mempool
    interrupted,    \* an interrupt of the miner is pending
    lost,           \* history: mutexes that a known early exit left taken
    config          \* the configuration of this run of the program

vars == <<todo, owner, locker_write, mempool, interrupted, lost, config>>

------------------------------------------------------------------------------
\* Instructions
Do(op, on)     == [op |-> op, on |-> on, write |-> {}, adds |-> {0}]
Lock(m)        == Do("lock", {m})
Unlock(S)      == Do("unlock", S)
Access(op, r, w, adds) == [op |-> op, on |-> r \cup w, write |-> w, adds |-> adds]
Use(r, w)      == Access("use", r, w, {0})
UsePool(r, w)  == Access("use", r, w, {0, 1})
Peek(r, w)     == Access("peek", r, w, {0})

Locking(locks) == [i \in 1 .. Len(locks) |-> Lock(locks[i])]
Holding(locks, body) == Locking(locks) \o body \o <<Unlock(ToSet(locks))>>
InBlockchain(body)   == <<Do("enter", {"bc"})>> \o body \o <<Do("leave", {"bc"})>>

\* The mutexes of the sections, in locking order.
CreatorLocks == <<"aging", "next_seqs", "pending", "mempool">>
VerifyLocks  == <<"aging", "next_seqs", "pending", "mempool", "aged">>
MonitorLocks == <<"aging", "next_seqs", "pending", "mempool", "dependencies", "aged">>
RemoveLocks  == <<"pending", "mempool">>
\* (Mutant: in another order.)
CommitLocksReversed == <<"aged", "dependencies", "next_seqs">>
\* (Mutant: without next_seqs_mtx.)
CommitLocksFewer == <<"dependencies", "aged">>
CommitLocks == <<"next_seqs", "dependencies", "aged">>

\* update_promise_stats, get_average_promise_time, get_promised_count
PromiseStats == Holding(<<"promise_stats">>, <<Use({}, {"promise_stats"})>>)

\* What check_dependencies and promise_transaction work on; reading
\* next_seqs with [] inserts.
Checked  == {"next_seqs", "dependencies"}
Promised == Checked \cup {"pending", "mempool", "last_promised"}

\* write_to_all_peers reads the list of peers and their strands.
WriteToPeers == <<Peek({"peers"}, {})>>

\* One round of transaction_creator.
\* (Mutant: the last mutex is not unlocked.)
TransactionCreatorForgets ==
    Locking(CreatorLocks)
        \o <<UsePool({"last_promised"}, {"aging", "pending", "mempool"} \cup Checked)>>
        \o <<Unlock(ToSet(Front(CreatorLocks)))>> \o WriteToPeers
TransactionCreator ==
    Holding(CreatorLocks,
            <<UsePool({"last_promised"}, {"aging", "pending", "mempool"} \cup Checked)>>)
        \o WriteToPeers

\* One round of aging_monitor, with or without a promise.
AgingMonitor(promises) ==
    Holding(MonitorLocks,
            <<UsePool({}, {"aging", "aged"} \cup Promised)>>
                \o (IF promises THEN PromiseStats ELSE <<>>))

\* #transactions: verify_transaction looks into next_seqs before it locks.
HandleTransactions ==
    InBlockchain(
        <<Peek({"next_seqs"}, {})>>
            \o Holding(VerifyLocks,
                       <<UsePool({}, {"aging", "aged", "pending", "mempool"} \cup Checked)>>)
            \o WriteToPeers)

\* remove_from_mempool_and_pending: it returns with its mutexes locked when
\* the key is pending.
RemoveFromMempoolAndPending(pends) ==
    Locking(RemoveLocks)
        \o IF pends THEN <<Use({"mempool"}, {"pending"}), Do("keep", ToSet(RemoveLocks))>>
           ELSE <<Access("use", {"pending"}, {"mempool"}, {0, -1}), Unlock(ToSet(RemoveLocks))>>

\* #full_block, one transaction: the sequence number is read under the mutex,
\* the dependency is looked up without.  A refusal leaves aged_transactions_mtx
\* locked.
VerifyFromBlock(pends, refused) ==
    RemoveFromMempoolAndPending(pends)
        \o <<Lock("aged"), Use({"aged"}, {}),
             IF refused THEN Do("keep", {"aged"}) ELSE Unlock({"aged"})>>
HandleFullBlock(ready, pends, refused) ==
    InBlockchain(
        Holding(<<"next_seqs">>, <<Use({}, {"next_seqs"})>>)
            \o <<Peek({}, {"next_seqs"})>>
            \o (IF ready THEN VerifyFromBlock(pends, refused) ELSE <<>>)
            \o <<Use({}, {"trees"})>>)

\* #process_block interrupts the miner first.
HandleProcessBlock ==
    InBlockchain(
        (IF config.can_interrupt THEN <<Do("interrupt", {})>> ELSE <<>>)
            \o <<Use({}, {"trees"}), Peek({}, {"peers"})>>)

\* run_network: connections, requests, the commit pass and the report, each
\* when it is due.
CommitBlock ==
    Holding(CommitLocks, <<UsePool({}, {"aged"} \cup Promised)>> \o PromiseStats)
ReportCounts ==
    Holding(<<"aging">>, <<Use({"aging"}, {})>>) \o PromiseStats
        \o <<Peek({"aged", "pending", "mempool"}, {})>>
RunNetwork(commits, reports) ==
    InBlockchain(
        <<Peek({}, {"peers", "rng"}), Use({}, {"trees"})>>
            \o (IF commits THEN CommitBlock ELSE <<>>)
            \o (IF reports THEN ReportCounts ELSE <<>>))

\* Callbacks of the connections: connected, written, accepted.
ConnectionCallback == <<Peek({}, {"peers", "rng"})>>

\* One round of the miner: the time to the next block, then mine_new_block.
GetOneTransaction == <<Lock("mempool"), Do("take", {"mempool"}), Unlock({"mempool"})>>
CreateTransactionBlock ==
    [i \in 1 .. 3 * config.block_size |-> GetOneTransaction[((i - 1) % 3) + 1]]
MineNewBlock ==
    <<Peek({}, {"rng"})>>
        \o IF config.block_size = 0
           THEN <<Do("enter", {"bc"}), Use({"trees"}, {}), Do("quit", {"bc"})>>
           ELSE InBlockchain(<<Use({"trees"}, {})>> \o CreateTransactionBlock
                                \o <<Use({}, {"trees"})>> \o WriteToPeers)

Sections(t) ==
    CASE t = "creator" -> {TransactionCreator}
      [] t = "monitor" -> {AgingMonitor(p) : p \in BOOLEAN}
      [] t = "miner"   -> {MineNewBlock}
      [] t = "main"    ->
            {HandleTransactions, HandleProcessBlock, ConnectionCallback}
                \cup {HandleFullBlock(r, p, f) : r, p, f \in BOOLEAN}
                \cup {RunNetwork(c, r) : c, r \in BOOLEAN}

------------------------------------------------------------------------------
Data == Mutexes \cup {"last_promised", "peers", "rng", "trees"}

\* State and types.
TypeOK ==
    /\ \A t \in Threads : \A i \in 1 .. Len(todo[t]) :
            todo[t][i].on \subseteq Data /\ todo[t][i].write \subseteq todo[t][i].on
    /\ owner \in [Mutexes -> Threads \cup {None}]
    /\ locker_write \in BOOLEAN /\ interrupted \in BOOLEAN
    /\ mempool \in 0 .. MAX_MEMPOOL
    /\ lost \subseteq Mutexes
    /\ config \in [block_size : BlockSizes, can_interrupt : Interrupts]

Init ==
    /\ todo = [t \in Threads |-> <<>>]
    /\ owner = [m \in Mutexes |-> None]
    /\ locker_write = FALSE /\ interrupted = FALSE
    /\ mempool = 0 /\ lost = {}
    /\ config \in [block_size : BlockSizes, can_interrupt : Interrupts]

\* The thread of the miner has ended.
MinerDead == "bc" \in lost /\ config.block_size > 0

\* A thread starts its next section.
Begin(t) ==
    /\ todo[t] = <<>> /\ ~(t = "miner" /\ MinerDead)
    /\ \E s \in Sections(t) : todo' = [todo EXCEPT ![t] = s]
    /\ interrupted' = (interrupted /\ t # "miner")
    /\ UNCHANGED <<owner, locker_write, mempool, lost, config>>

At(t, op) == todo[t] # <<>> /\ Head(todo[t]).op = op
On(t)     == Head(todo[t]).on
Step(t)   == todo' = [todo EXCEPT ![t] = Tail(@)]
Owned(S, t) == [m \in Mutexes |-> IF m \in S THEN t ELSE owner[m]]

\* unique_lock and can_write.wait
Enter(t) ==
    /\ At(t, "enter") /\ owner["bc"] = None /\ ~locker_write
    /\ owner' = Owned({"bc"}, t) /\ locker_write' = TRUE
    /\ Step(t) /\ UNCHANGED <<mempool, interrupted, lost, config>>

\* (Mutant: locker_write is not reset.)
LeaveWritten(t) ==
    /\ At(t, "leave")
    /\ owner' = Owned({"bc"}, None)
    /\ Step(t) /\ UNCHANGED <<locker_write, mempool, interrupted, lost, config>>
Leave(t) ==
    /\ At(t, "leave")
    /\ owner' = Owned({"bc"}, None) /\ locker_write' = FALSE
    /\ Step(t) /\ UNCHANGED <<mempool, interrupted, lost, config>>

DoLock(t) ==
    /\ At(t, "lock") /\ \A m \in On(t) : owner[m] = None
    /\ owner' = Owned(On(t), t)
    /\ Step(t) /\ UNCHANGED <<locker_write, mempool, interrupted, lost, config>>

DoUnlock(t) ==
    /\ At(t, "unlock")
    /\ owner' = Owned(On(t), None)
    /\ Step(t) /\ UNCHANGED <<locker_write, mempool, interrupted, lost, config>>

DoAccess(t) ==
    /\ At(t, "use") \/ At(t, "peek")
    /\ \E d \in Head(todo[t]).adds : mempool + d >= 0 /\ mempool' = Min({mempool + d, MAX_MEMPOOL})
    /\ Step(t) /\ UNCHANGED <<owner, locker_write, interrupted, lost, config>>

\* The function returns and its mutexes stay locked.
Keep(t) ==
    /\ At(t, "keep") /\ lost' = lost \cup On(t)
    /\ Step(t) /\ UNCHANGED <<owner, locker_write, mempool, interrupted, config>>

\* mine_new_block returns early: the unique_lock goes, locker_write stays.
Quit(t) ==
    /\ At(t, "quit")
    /\ owner' = Owned({"bc"}, None) /\ lost' = lost \cup {"bc"}
    /\ Step(t) /\ UNCHANGED <<locker_write, mempool, interrupted, config>>

Interrupt(t) ==
    /\ At(t, "interrupt") /\ interrupted' = ~MinerDead
    /\ Step(t) /\ UNCHANGED <<owner, locker_write, mempool, lost, config>>

\* get_one_transaction takes a transaction, or sleeps and tries again.
Take(t) ==
    /\ At(t, "take")
    /\ IF mempool > 0
       THEN Step(t) /\ mempool' = mempool - 1
       ELSE /\ todo' = [todo EXCEPT ![t] = <<Unlock({"mempool"}), Do("sleep", {}),
                                             Lock("mempool")>> \o @]
            /\ UNCHANGED mempool
    /\ UNCHANGED <<owner, locker_write, interrupted, lost, config>>

\* The sleep is an interruption point: the exception leaves mine_new_block,
\* which gives back the mutex but not locker_write, and ends the thread.
Sleep(t) ==
    /\ At(t, "sleep")
    /\ IF interrupted
       THEN /\ todo' = [todo EXCEPT ![t] = <<>>]
            /\ owner' = Owned({"bc"}, None) /\ lost' = lost \cup {"bc"}
       ELSE Step(t) /\ UNCHANGED <<owner, lost>>
    /\ interrupted' = FALSE
    /\ UNCHANGED <<locker_write, mempool, config>>

Run(t) ==
    \/ Leave(t) \/ DoUnlock(t) \/ DoAccess(t) \/ Keep(t) \/ Quit(t)
    \/ Interrupt(t) \/ Take(t) \/ Sleep(t)

Acquire(t) == Enter(t) \/ DoLock(t)

Next == \E t \in Threads : Begin(t) \/ Run(t) \/ Acquire(t)

\* The scheduler runs every thread.  The threads sleep or wait for the
\* network between two sections, so that whoever waits for a mutex gets it.
Fairness ==
    \A t \in Threads : WF_vars(Begin(t)) /\ WF_vars(Run(t)) /\ SF_vars(Acquire(t))

Spec     == Init /\ [][Next]_vars
FairSpec == Spec /\ Fairness

------------------------------------------------------------------------------
\* No threads wait for each other in a circle, over any number of mutexes,
\* unless a section has kept some (the sections of transactions.cpp lock in
\* five different orders, inside and outside Blockchain::lock).
WaitsFor(t, u) ==
    (At(t, "lock") \/ At(t, "enter")) /\ \E m \in On(t) : owner[m] = u
NoCircularWait ==
    \A S \in (SUBSET Threads) \ {{}} :
        (\A t \in S : \E u \in S : WaitsFor(t, u)) => lost # {}

\* Two threads never work on the same structure at once, one of them writing,
\* when both do so in a section that locks: commit_block changes pending and
\* mempool without their mutexes, creator and handlers change dependencies
\* without its mutex, and next_seqs_mtx or Blockchain::lock covers for them.
NoDataRace ==
    \A t, u \in Threads :
        t # u /\ At(t, "use") /\ At(u, "use")
            => Head(todo[t]).write \cap On(u) = {}

\* Locks stay taken between two sections only by the known early exits:
\* remove_from_mempool_and_pending, verify_transaction_from_block and
\* mine_new_block.  locker_write without its mutex is such a lock.
OnlyKnownLeaks ==
    /\ TypeOK
    /\ \A t \in Threads : todo[t] = <<>> => \A m \in Mutexes : owner[m] = t => m \in lost
    /\ locker_write /\ owner["bc"] = None => "bc" \in lost

\* If no early exit keeps a lock, and the mempool does not stay empty, every
\* thread gets through its sections again and again: the miner may hold
\* Blockchain::lock while it waits for a transaction, but creator and monitor
\* can bring one without it.
EveryoneComesRound ==
    <>[](lost = {}) /\ []<>(mempool > 0) => \A t \in Threads : []<>(todo[t] = <<>>)
=============================================================================
