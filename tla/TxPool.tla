------------------------------- MODULE TxPool -------------------------------
(***************************************************************************)
(* The transaction pool of one node (transactions.cpp).  A transaction     *)
(* names its sender, a sequence number and one explicit dependency; it     *)
(* depends on that one and, implicitly, on its sender's previous number.   *)
(* It waits in pending_transactions until both are promised, then goes to  *)
(* the mempool the miner takes from.  A transaction is promised when it    *)
(* has aged long enough without a conflicting one, or when a block with it *)
(* is committed.                                                           *)
(*                                                                         *)
(* Threads: transaction_creator, aging_monitor, the miner, the network     *)
(* handlers and the commit pass.  Each locks the mutexes of what it works  *)
(* on, in order, for a whole section of code: a section is one action, and *)
(* a section of verify_transaction_from_block that leaves mutexes locked   *)
(* puts them in held, where the other threads run into them.  Loops over   *)
(* independent transactions (a batch of new ones, the aging map, the lines *)
(* of a block) are one action per transaction.                             *)
(*                                                                         *)
(* Abstractions: recipient, amount and signature are the variant v of a    *)
(* transaction; the clock is replaced by choice (a transaction may have    *)
(* aged or not, a block may have suffix enough or not); blocks commit in   *)
(* any order, as the commit pass goes from new blocks to old ones and      *)
(* skips blocks without a body.  commit_block changes the mempool without  *)
(* mempool_mtx, but next_seqs_mtx keeps the creator and the monitor away   *)
(* and Blockchain::lock ("bc") the miner and the other handlers.           *)
(***************************************************************************)
EXTENDS Integers, FiniteSets, SequencesExt

CONSTANTS
    Local,      \* addresses of this node's clients
    Remote,     \* addresses of the clients of other nodes
    EMPTY,      \* EMPTY_DEPENDENCY
    MAX_SEQ,    \* bound: largest sequence number
    MAX_V,      \* bound: largest variant
    Offered     \* what the other nodes broadcast, among it what this node
                \* and others broadcast before a restart, with other variants

Clients == Local \cup Remote
Key == [from : Clients, seq : 0 .. MAX_SEQ]
Tx  == [from : Clients, seq : 0 .. MAX_SEQ, dep : Key \cup {EMPTY}, v : 0 .. MAX_V]

ASSUME ClientsAssumption == Local \cap Remote = {} /\ EMPTY \notin Key
ASSUME BoundsAssumption  == MAX_SEQ \in Nat /\ MAX_V \in Nat
ASSUME OfferedAssumption == Offered \subseteq Tx

KeyOf(tx) == [from |-> tx.from, seq |-> tx.seq]

VARIABLES
    pool,       \* next_seqs, pending, mempool, dependencies, last_promised
    aging,      \* aging_transactions
    aged,       \* aged_transactions: keys that met a conflicting transaction
    blocks,     \* transactions in blocks this node may commit
    held,       \* mutexes that are locked for good
    created,    \* transactions transaction_creator made
    promised    \* history: keys promise_transaction was called for

poolVars == <<pool, aging, aged, blocks, held, created, promised>>

\* transaction_creator's next_new_seqs
NextNew(c) == Cardinality({t \in created : t.from = c})

With(S, k) == {t \in S : KeyOf(t) = k}

\* A map of the code: one transaction per key.
Put(S, tx)  == (S \ With(S, KeyOf(tx))) \cup {tx}
OnePerKey(S) == \A t, u \in S : KeyOf(t) = KeyOf(u) => t = u

Mutexes == {"bc", "aging", "next_seqs", "pending", "mempool", "dependencies", "aged"}

\* The mutexes of each section, in locking order.
CreatorLocks == <<"aging", "next_seqs", "pending", "mempool">>
VerifyLocks  == <<"bc">> \o CreatorLocks \o <<"aged">>
MonitorLocks == CreatorLocks \o <<"dependencies", "aged">>
MinerLocks   == <<"bc", "mempool">>
RemoveLocks  == <<"pending", "mempool">>
CommitLocks  == <<"bc", "next_seqs", "dependencies", "aged">>

Free(locks) == ToSet(locks) \cap held = {}

\* State and types; the three maps hold one transaction per key.
TypeOK ==
    /\ pool.next_seqs \in [Clients -> Nat]
    /\ pool.pending \subseteq Tx /\ OnePerKey(pool.pending)
    /\ pool.mempool \in Seq(Tx)
    /\ pool.dependencies \in [Key -> Seq([from : Clients, seq : 0 .. MAX_SEQ + 1])]
    /\ pool.last_promised \in Key \cup {EMPTY}
    /\ aging \subseteq Tx /\ OnePerKey(aging)
    /\ aged \subseteq Tx /\ OnePerKey(aged)
    /\ blocks \subseteq Tx /\ created \subseteq Tx
    /\ held \subseteq Mutexes /\ promised \subseteq Key

Init ==
    /\ pool = [next_seqs |-> [c \in Clients |-> 0], pending |-> {}, mempool |-> <<>>,
               dependencies |-> [k \in Key |-> <<>>], last_promised |-> EMPTY]
    /\ aging = {} /\ aged = {} /\ blocks = {} /\ held = {}
    /\ created = {} /\ promised = {}

------------------------------------------------------------------------------
\* All numbers below next_seqs count as promised.  The sender of
\* EMPTY_DEPENDENCY sends nothing, so EMPTY never does.
IsPromised(p, k) == k # EMPTY /\ p.next_seqs[k.from] > k.seq

\* check_dependencies: its result ...
Met(p, from, seq, dep) ==
    (dep = EMPTY \/ IsPromised(p, dep)) /\ p.next_seqs[from] = seq

\* ... and its effect: the transaction waits for a dependency not promised yet.
Saved(p, from, seq, dep) ==
    LET k == [from |-> from, seq |-> seq]
    IN  IF dep = EMPTY \/ IsPromised(p, dep) \/ k \in ToSet(p.dependencies[dep])
        THEN p
        ELSE [p EXCEPT !.dependencies[dep] = Append(@, k)]

ToMempool(p, tx) ==
    [p EXCEPT !.mempool = Append(@, tx), !.pending = @ \ With(@, KeyOf(tx))]

\* notify_dependencies, implicit part: the sender's next transaction.
NotifyNext(p, from) ==
    LET next == p.next_seqs[from]
        Move(t) == LET q == Saved(p, from, next, t.dep)
                   IN  IF Met(p, from, next, t.dep) THEN ToMempool(q, t) ELSE q
        waits == With(p.pending, [from |-> from, seq |-> next])
    IN  IF waits = {} THEN p ELSE Move(CHOOSE t \in waits : TRUE)

\* notify_dependencies, explicit part: a transaction d that waits for key k.
\* The code checks its dependencies with the sender and the next number of
\* the promised transaction, not with its own.
Notify(p, k, d) ==
    LET next  == p.next_seqs[k.from]
        waits == With(p.pending, d)
        t == CHOOSE x \in waits : TRUE
        saved == Saved(p, k.from, next, t.dep)
    IN  IF d = [from |-> k.from, seq |-> next] \/ waits = {} THEN p
        ELSE IF Met(p, k.from, next, t.dep) THEN ToMempool(saved, t) ELSE saved

NotifyDependents(p, k) ==
    LET waiting == p.dependencies[k]
        done[i \in Nat] == IF i = 0 THEN p ELSE Notify(done[i - 1], k, waiting[i])
    IN  [done[Len(waiting)] EXCEPT !.dependencies[k] = <<>>]

\* (Mutant: next_seqs jumps past numbers that were not promised.)
AdvancedToLast(p, k) == [p EXCEPT !.next_seqs[k.from] = IF k.seq >= @ THEN k.seq + 1 ELSE @]
Advanced(p, k) == [p EXCEPT !.next_seqs[k.from] = IF k.seq = @ THEN @ + 1 ELSE @]

\* promise_transaction
Promise(p, k) ==
    [NotifyDependents(NotifyNext(Advanced(p, k), k.from), k) EXCEPT !.last_promised = k]

------------------------------------------------------------------------------
\* transaction_creator, one transaction: it depends on the last promised one.
CreateTransaction(c) ==
    LET tx == [from |-> c, seq |-> NextNew(c), dep |-> pool.last_promised, v |-> 0]
        q  == Saved(pool, c, tx.seq, tx.dep)
    IN  /\ Free(CreatorLocks) /\ NextNew(c) <= MAX_SEQ
        /\ pool' = IF Met(pool, c, tx.seq, tx.dep)
                   THEN [q EXCEPT !.mempool = Append(@, tx)]
                   ELSE [q EXCEPT !.pending = Put(@, tx)]
        /\ aging' = Put(aging, tx)
        /\ created' = created \cup {tx}
        /\ UNCHANGED <<aged, blocks, held, promised>>

\* Broadcasts that can reach this node: its own come back through its peers,
\* and nobody depends on what was never created.
Broadcast ==
    {t \in Offered \cup created : t.dep = EMPTY \/ With(Offered \cup created, t.dep) # {}}

\* A key never received: not aging, not promised, not aged.
NewKey(k) == With(aging, k) = {} /\ ~IsPromised(pool, k) /\ With(aged, k) = {}

\* verify_transaction, a new key.  One that is pending already, with unmet
\* dependencies, goes to the mempool.
VerifyNew(tx) ==
    LET q == Saved(pool, tx.from, tx.seq, tx.dep)
    IN  /\ Free(VerifyLocks) /\ NewKey(KeyOf(tx))
        /\ pool' = IF ~Met(pool, tx.from, tx.seq, tx.dep) /\ With(pool.pending, KeyOf(tx)) = {}
                   THEN [q EXCEPT !.pending = @ \cup {tx}]
                   ELSE [q EXCEPT !.mempool = Append(@, tx)]
        /\ aging' = aging \cup {tx}
        /\ UNCHANGED <<aged, blocks, held, created, promised>>

\* (Mutant: any second copy counts as a conflict.)
AnyCopy(tx, t) == TRUE
Conflicts(tx, t) == tx # t

\* verify_transaction, the key is aging with another content: a double spend.
VerifyConflict(tx) ==
    /\ Free(VerifyLocks)
    /\ \E t \in With(aging, KeyOf(tx)) :
         Conflicts(tx, t) /\ aged' = Put(aged, t) /\ aging' = aging \ {t}
    /\ UNCHANGED <<pool, blocks, held, created, promised>>

\* aging_monitor, one transaction older than AT.
AgingMonitor(tx) ==
    /\ Free(MonitorLocks)
    /\ IF Met(pool, tx.from, tx.seq, tx.dep)
       THEN /\ pool' = Promise(pool, KeyOf(tx))
            /\ aging' = aging \ {tx} /\ promised' = promised \cup {KeyOf(tx)}
       ELSE /\ pool' = Saved(pool, tx.from, tx.seq, tx.dep)
            /\ UNCHANGED <<aging, promised>>
    /\ UNCHANGED <<aged, blocks, held, created>>

\* get_one_transaction for the block being mined (with an empty mempool the
\* miner waits).
GetOneTransaction ==
    /\ Free(MinerLocks) /\ pool.mempool # <<>>
    /\ blocks' = blocks \cup {Head(pool.mempool)}
    /\ pool' = [pool EXCEPT !.mempool = Tail(@)]
    /\ UNCHANGED <<aging, aged, held, created, promised>>

\* The first element of the mempool with key k goes.
Without(s, k) ==
    LET i == SelectInSeq(s, LAMBDA t : KeyOf(t) = k)
    IN  IF i = 0 THEN s ELSE RemoveAt(s, i)

\* verify_transaction_from_block on a transaction of a received block that
\* passes its first test.  remove_from_mempool_and_pending returns without
\* unlocking when it finds the key pending, verify_transaction_from_block when
\* the transaction met a conflict and the block has too few successors.  A
\* block with a verified transaction may still be refused for another reason.
VerifyFromBlock(tx, short, accepted) ==
    LET k == KeyOf(tx)
        pends   == With(pool.pending, k) # {}
        blocked == "aged" \in held
        refused == ~blocked /\ short /\ tx \in aged
    IN  /\ Free(<<"bc", "next_seqs">> \o RemoveLocks)
        /\ tx.seq <= pool.next_seqs[tx.from] /\ IsPromised(pool, tx.dep)
        /\ pool' = IF pends THEN [pool EXCEPT !.pending = @ \ With(@, k)]
                   ELSE [pool EXCEPT !.mempool = Without(@, k)]
        /\ held' = held \cup (IF pends   THEN ToSet(RemoveLocks) ELSE {})
                        \cup (IF refused THEN {"aged"} ELSE {})
                        \cup (IF blocked THEN {"bc"} ELSE {})
        /\ blocks' = IF accepted /\ ~refused /\ ~blocked THEN blocks \cup {tx} ELSE blocks
        /\ UNCHANGED <<aging, aged, created, promised>>

\* commit_block, one line: promises it unless it is promised already.
CommitBlock(tx) ==
    LET k == KeyOf(tx)
    IN  /\ Free(CommitLocks)
        /\ blocks' = blocks \ {tx}
        /\ IF IsPromised(pool, k)
           THEN UNCHANGED <<pool, aged, promised>>
           ELSE /\ pool' = Promise(pool, k)
                /\ aged' = aged \ {tx}
                /\ promised' = promised \cup {k}
        /\ UNCHANGED <<aging, held, created>>

\* A thread runs into a mutex that is locked for good and keeps the ones it
\* has locked before.
Blocks(locks) ==
    \E i \in 1 .. Len(locks) :
        /\ locks[i] \in held /\ \A j \in 1 .. i - 1 : locks[j] \notin held
        /\ held' = held \cup {locks[j] : j \in 1 .. i - 1}
        /\ UNCHANGED <<pool, aging, aged, blocks, created, promised>>

Next ==
    \/ \E c \in Local : CreateTransaction(c)
    \/ \E tx \in Broadcast : VerifyNew(tx) \/ VerifyConflict(tx)
    \/ \E tx \in aging : AgingMonitor(tx)
    \/ GetOneTransaction
    \/ \E tx \in Broadcast, short, accepted \in BOOLEAN : VerifyFromBlock(tx, short, accepted)
    \/ \E tx \in blocks : CommitBlock(tx)
    \/ \E locks \in {VerifyLocks, MonitorLocks, MinerLocks, CommitLocks} : Blocks(locks)

Spec == Init /\ [][Next]_poolVars

------------------------------------------------------------------------------
\* "all seqs before get_next_seq(from) are promised/committed" (is_promised,
\* transactions.cpp:176): out-of-order commits, double promises and both ways
\* to a promise together never make next_seqs skip a number.
NoSeqSkipped ==
    /\ TypeOK
    /\ \A k \in Key : pool.next_seqs[k.from] > k.seq => k \in promised

\* A transaction is given up as a double spend only if there is another one
\* with its key: redelivery, relays and own transactions that come back do
\* not count.
AgedOnlyOnConflict ==
    \A t \in aged : \E u \in Offered \cup created : KeyOf(u) = KeyOf(t) /\ u # t

\* pending_transactions holds "transactions that don't all dependencies met",
\* "the explicit ones and previous sequence no" (transactions.cpp:55): what
\* is in the mempool instead has them met.
MempoolHasDependenciesMet ==
    \A t \in ToSet(pool.mempool) :
        /\ t.dep = EMPTY \/ IsPromised(pool, t.dep)
        /\ t.seq <= pool.next_seqs[t.from]

\* "when key finishes move value from pending to mempool" (the map
\* dependencies, transactions.cpp:61): a transaction whose dependency is
\* promised waits for its sender's previous number only.
PromisedReleasesDependents ==
    \A t \in pool.pending :
        t.dep # EMPTY /\ IsPromised(pool, t.dep) => t.seq > pool.next_seqs[t.from]
=============================================================================
