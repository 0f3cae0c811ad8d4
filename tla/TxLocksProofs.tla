---------------------------- MODULE TxLocksProofs ----------------------------
(***************************************************************************)
(* Proof that the sections of transactions.cpp and Blockchain.cpp never    *)
(* wait for each other in a circle, never work on the same structure at    *)
(* once, and leave mutexes taken only where an early exit is known to, for *)
(* every block size, mempool bound and number of rounds.                   *)
(*                                                                         *)
(* A section is annotated with the mutexes held before each instruction    *)
(* (Prog).  The annotations of parts compose to the annotation of a        *)
(* section, and a thread's remaining instructions stay annotated as it     *)
(* runs, starting from the mutexes it owns (LockInv).                      *)
(***************************************************************************)
EXTENDS TxLocks, NatLemmas, SequenceTheorems

Ops == {"enter", "leave", "lock", "unlock", "use", "peek", "keep", "quit", "take",
        "sleep", "interrupt"}
Instruction == [op : Ops, on : SUBSET Data, write : SUBSET Data, adds : SUBSET Int]

\* The order in which the code takes mutexes.
Rank == [bc |-> 0, aging |-> 1, next_seqs |-> 2, pending |-> 3, mempool |-> 4,
         dependencies |-> 5, aged |-> 6, promise_stats |-> 7]

\* Who may work on a structure.  Pending and mempool have three mutexes of
\* which every section that uses them holds two.
Guarded(d, H) ==
    /\ d \in {"pending", "mempool"} =>
         \/ {"bc", "next_seqs"} \subseteq H \/ {"bc", "pending"} \subseteq H
         \/ {"next_seqs", "pending"} \subseteq H
    /\ d \in {"next_seqs", "dependencies", "last_promised"} => "next_seqs" \in H
    /\ d \in {"aging", "aged", "promise_stats"} => d \in H
    /\ d \in {"bc", "trees"} => "bc" \in H
    /\ d \notin {"peers", "rng"}

\* What an instruction needs of the mutexes held before it ...
Legal(x, H) ==
    /\ x \in Instruction /\ x.write \subseteq x.on
    /\ x.op = "lock" =>
         \E m \in Mutexes \ {"bc"} : x.on = {m} /\ \A k \in H : Rank[k] < Rank[m]
    /\ x.op = "enter" => x.on = {"bc"} /\ H = {}
    /\ x.op \in {"unlock", "keep"} => x.on \subseteq H \ {"bc"}
    /\ x.op \in {"leave", "quit"} => x.on = {"bc"} /\ "bc" \in H
    /\ x.op = "use" => \A d \in x.on : Guarded(d, H)
    /\ x.op = "take" => H = {"bc", "mempool"}
    /\ x.op = "sleep" => H = {"bc"}

\* ... and leaves held after it.
Effect(x, H) ==
    IF x.op \in {"lock", "enter"} THEN H \cup x.on
    ELSE IF x.op \in {"unlock", "leave", "keep", "quit"} THEN H \ x.on ELSE H

\* The instructions s are legal when started with the mutexes H, and end with K.
Prog(s, H, K) ==
    /\ s \in Seq(Instruction)
    /\ \E h \in [1 .. Len(s) + 1 -> SUBSET Mutexes] :
         /\ h[1] = H /\ h[Len(s) + 1] = K
         /\ \A i \in 1 .. Len(s) : Legal(s[i], h[i]) /\ h[i + 1] = Effect(s[i], h[i])

------------------------------------------------------------------------------
\* No instruction changes nothing.
LEMMA EmptyProg ==
  ASSUME NEW H, NEW K
  PROVE  Prog(<<>>, H, K) <=> H \in SUBSET Mutexes /\ H = K
<1>1. <<>> \in Seq(Instruction) /\ Len(<<>>) = 0
  BY EmptySeq
<1>2. ASSUME Prog(<<>>, H, K) PROVE H \in SUBSET Mutexes /\ H = K
  BY <1>1, <1>2 DEF Prog
<1>3. ASSUME H \in SUBSET Mutexes, H = K PROVE Prog(<<>>, H, K)
  <2> DEFINE h == [i \in 1 .. 1 |-> H]
  <2>1. h \in [1 .. 0 + 1 -> SUBSET Mutexes] /\ h[1] = H /\ h[0 + 1] = K
    BY <1>3
  <2> HIDE DEF h
  <2> QED
    BY <1>1, <2>1 DEF Prog
<1> QED
  BY <1>2, <1>3

\* One instruction.
LEMMA OneProg ==
  ASSUME NEW x, NEW H \in SUBSET Mutexes, Legal(x, H), Effect(x, H) \subseteq Mutexes
  PROVE  Prog(<<x>>, H, Effect(x, H))
<1> DEFINE s == <<x>>
           h == [i \in 1 .. 2 |-> IF i = 1 THEN H ELSE Effect(x, H)]
<1>1. s \in Seq(Instruction) /\ Len(s) = 1 /\ s[1] = x
  BY DEF Legal
<1>2. h \in [1 .. 1 + 1 -> SUBSET Mutexes] /\ h[1] = H /\ h[1 + 1] = Effect(x, H)
  OBVIOUS
<1> HIDE DEF s, h
<1>3. Prog(s, H, Effect(x, H))
  BY <1>1, <1>2 DEF Prog
<1> QED
  BY <1>3 DEF s

\* One part after another.
LEMMA ConcatProg ==
  ASSUME NEW s, NEW r, NEW H, NEW K, NEW L, Prog(s, H, K), Prog(r, K, L)
  PROVE  Prog(s \o r, H, L)
<1>1. PICK h \in [1 .. Len(s) + 1 -> SUBSET Mutexes] :
         /\ h[1] = H /\ h[Len(s) + 1] = K
         /\ \A i \in 1 .. Len(s) : Legal(s[i], h[i]) /\ h[i + 1] = Effect(s[i], h[i])
  BY DEF Prog
<1>2. PICK g \in [1 .. Len(r) + 1 -> SUBSET Mutexes] :
         /\ g[1] = K /\ g[Len(r) + 1] = L
         /\ \A i \in 1 .. Len(r) : Legal(r[i], g[i]) /\ g[i + 1] = Effect(r[i], g[i])
  BY DEF Prog
<1>3. s \in Seq(Instruction) /\ r \in Seq(Instruction) /\ Len(s) \in Nat /\ Len(r) \in Nat
  BY LenProperties DEF Prog
<1> DEFINE c == s \o r
           n == Len(s) + Len(r)
           e == [i \in 1 .. n + 1 |-> IF i <= Len(s) + 1 THEN h[i] ELSE g[i - Len(s)]]
<1>4. /\ c \in Seq(Instruction) /\ Len(c) = n
      /\ \A i \in 1 .. n : c[i] = IF i <= Len(s) THEN s[i] ELSE r[i - Len(s)]
  BY <1>3, ConcatProperties
<1>5. e \in [1 .. n + 1 -> SUBSET Mutexes]
  BY <1>1, <1>2, <1>3
<1>6. e[1] = H /\ e[n + 1] = L
  BY <1>1, <1>2, <1>3
<1>7. ASSUME NEW i \in 1 .. n PROVE Legal(c[i], e[i]) /\ e[i + 1] = Effect(c[i], e[i])
  <2>1. CASE i <= Len(s)
    <3>1. i \in 1 .. Len(s) /\ c[i] = s[i] /\ e[i] = h[i] /\ e[i + 1] = h[i + 1]
      BY <1>3, <1>4, <2>1
    <3> QED
      BY <1>1, <3>1
  <2>2. CASE i > Len(s)
    <3> DEFINE j == i - Len(s)
    <3>1. j \in 1 .. Len(r) /\ c[i] = r[j]
      BY <1>3, <1>4, <2>2
    <3>2. e[i] = g[j]
      <4>1. CASE i = Len(s) + 1
        BY <1>1, <1>2, <1>3, <4>1
      <4>2. CASE i > Len(s) + 1
        BY <1>3, <4>2
      <4> QED
        BY <1>3, <2>2, <4>1, <4>2
    <3>3. e[i + 1] = g[j + 1]
      BY <1>3, <2>2
    <3> QED
      BY <1>2, <3>1, <3>2, <3>3
  <2> QED
    BY <1>3, <2>1, <2>2
<1> HIDE DEF c, n, e
<1>8. Prog(c, H, L)
  BY <1>4, <1>5, <1>6, <1>7 DEF Prog
<1> QED
  BY <1>8 DEF c

\* Running the first instruction.
LEMMA TailProg ==
  ASSUME NEW s, NEW H, NEW K, Prog(s, H, K), s # <<>>
  PROVE  /\ Legal(Head(s), H) /\ Head(s) \in Instruction
         /\ Prog(Tail(s), Effect(Head(s), H), K)
         /\ H \in SUBSET Mutexes
<1>1. PICK h \in [1 .. Len(s) + 1 -> SUBSET Mutexes] :
         /\ h[1] = H /\ h[Len(s) + 1] = K
         /\ \A i \in 1 .. Len(s) : Legal(s[i], h[i]) /\ h[i + 1] = Effect(s[i], h[i])
  BY DEF Prog
<1> DEFINE r == Tail(s)
           n == Len(s) - 1
           g == [i \in 1 .. n + 1 |-> h[i + 1]]
<1>2. s \in Seq(Instruction) /\ Len(s) \in Nat \ {0} /\ n \in Nat /\ Head(s) = s[1]
  BY EmptySeq DEF Prog
<1>3. /\ r \in Seq(Instruction) /\ Len(r) = n
      /\ \A i \in 1 .. n : r[i] = s[i + 1]
  BY <1>2, HeadTailProperties
<1>4. g \in [1 .. n + 1 -> SUBSET Mutexes] /\ g[n + 1] = K
  BY <1>1, <1>2
<1>5. g[1] = Effect(Head(s), H) /\ Legal(Head(s), H) /\ H \in SUBSET Mutexes
  BY <1>1, <1>2
<1>6. ASSUME NEW i \in 1 .. n PROVE Legal(r[i], g[i]) /\ g[i + 1] = Effect(r[i], g[i])
  <2>1. i + 1 \in 1 .. Len(s)
    BY <1>2
  <2> QED
    BY <1>1, <1>3, <2>1
<1>7. Head(s) \in Instruction
  BY <1>5 DEF Legal
<1> HIDE DEF r, n, g
<1>8. Prog(r, Effect(Head(s), H), K)
  BY <1>3, <1>4, <1>5, <1>6 DEF Prog
<1> QED
  BY <1>5, <1>7, <1>8 DEF r
------------------------------------------------------------------------------
\* Instructions that change no mutex.
LEMMA UseProg ==
  ASSUME NEW r \in SUBSET Data, NEW w \in SUBSET Data, NEW adds \in SUBSET Int,
         NEW H \in SUBSET Mutexes, \A d \in r \cup w : Guarded(d, H)
  PROVE  Prog(<<Access("use", r, w, adds)>>, H, H)
<1> DEFINE x == Access("use", r, w, adds)
<1>1. x \in Instruction /\ x.op = "use" /\ x.on = r \cup w /\ x.write = w
  BY DEF Access, Instruction, Ops
<1> HIDE DEF x
<1>2. Legal(x, H) /\ Effect(x, H) = H
  BY <1>1 DEF Legal, Effect
<1>3. Prog(<<x>>, H, H)
  BY <1>2, OneProg
<1> QED
  BY <1>3 DEF x

\* An access that no mutex need guard leaves the locks as they are.
LEMMA PeekProg ==
  ASSUME NEW r \in SUBSET Data, NEW w \in SUBSET Data, NEW H \in SUBSET Mutexes
  PROVE  Prog(<<Peek(r, w)>>, H, H)
<1> DEFINE x == Peek(r, w)
<1>1. x \in Instruction /\ x.op = "peek" /\ x.on = r \cup w /\ x.write = w
  BY DEF Peek, Access, Instruction, Ops
<1> HIDE DEF x
<1>2. Legal(x, H) /\ Effect(x, H) = H
  BY <1>1 DEF Legal, Effect
<1>3. Prog(<<x>>, H, H)
  BY <1>2, OneProg
<1> QED
  BY <1>3 DEF x

\* Instructions on mutexes, and the others.
LEMMA DoProg ==
  ASSUME NEW op \in Ops, NEW on \in SUBSET Mutexes, NEW H \in SUBSET Mutexes,
         op = "lock" => \E m \in Mutexes \ {"bc"} : on = {m} /\ \A k \in H : Rank[k] < Rank[m],
         op = "enter" => on = {"bc"} /\ H = {},
         op \in {"unlock", "keep"} => on \subseteq H \ {"bc"},
         op \in {"leave", "quit"} => on = {"bc"} /\ "bc" \in H,
         op = "take" => H = {"bc", "mempool"},
         op = "sleep" => H = {"bc"},
         op # "use",
         NEW K, K = IF op \in {"lock", "enter"} THEN H \cup on
                    ELSE IF op \in {"unlock", "leave", "keep", "quit"} THEN H \ on ELSE H
  PROVE  Prog(<<Do(op, on)>>, H, K)
<1> DEFINE x == Do(op, on)
<1>1. x \in Instruction /\ x.op = op /\ x.on = on /\ x.write = {}
  BY DEF Do, Instruction, Data
<1> HIDE DEF x
<1>2. Legal(x, H) /\ Effect(x, H) = K /\ K \subseteq Mutexes
  BY <1>1 DEF Legal, Effect
<1>3. Prog(<<x>>, H, K)
  BY <1>2, OneProg
<1> QED
  BY <1>3 DEF x

\* A sequence of locks in the order of the ranks.
Ascending(locks, H) ==
    /\ \A i, j \in 1 .. Len(locks) : i < j => Rank[locks[i]] < Rank[locks[j]]
    /\ \A i \in 1 .. Len(locks) : \A k \in H : Rank[k] < Rank[locks[i]]

\* Taking the mutexes of a list in the order of the ranks is legal.
LEMMA LockingProg ==
  ASSUME NEW locks \in Seq(Mutexes \ {"bc"}), NEW H \in SUBSET Mutexes, Ascending(locks, H)
  PROVE  Prog(Locking(locks), H, H \cup ToSet(locks))
<1> DEFINE n == Len(locks)
           s == Locking(locks)
           h == [i \in 1 .. n + 1 |-> H \cup {locks[j] : j \in 1 .. i - 1}]
<1>1. n \in Nat /\ \A i \in 1 .. n : locks[i] \in Mutexes \ {"bc"}
  BY ElementOfSeq, LenProperties
<1>2. \A i \in 1 .. n : /\ Lock(locks[i]) \in Instruction /\ Lock(locks[i]).op = "lock"
                        /\ Lock(locks[i]).on = {locks[i]} /\ Lock(locks[i]).write = {}
  BY <1>1 DEF Lock, Do, Instruction, Ops, Data
<1>3. s \in Seq(Instruction) /\ Len(s) = n /\ \A i \in 1 .. n : s[i] = Lock(locks[i])
  BY <1>1, <1>2 DEF Locking
<1>4. h \in [1 .. n + 1 -> SUBSET Mutexes]
  BY <1>1
<1>5. h[1] = H
  BY <1>1
<1>6. h[n + 1] = H \cup ToSet(locks)
  BY <1>1 DEF ToSet
<1>7. ASSUME NEW i \in 1 .. n PROVE Legal(s[i], h[i]) /\ h[i + 1] = Effect(s[i], h[i])
  <2>1. i \in 1 .. n + 1 /\ i + 1 \in 1 .. n + 1
    BY <1>1
  <2>2. h[i] = H \cup {locks[j] : j \in 1 .. i - 1}
    BY <2>1
  <2>3. h[i + 1] = H \cup {locks[j] : j \in 1 .. (i + 1) - 1}
    BY <2>1
  <2>4. ASSUME NEW k \in h[i] PROVE Rank[k] < Rank[locks[i]]
    <3>1. CASE k \in H
      BY <3>1 DEF Ascending
    <3>2. CASE k \notin H
      <4>1. PICK j \in 1 .. i - 1 : k = locks[j]
        BY <2>2, <3>2
      <4>2. j \in 1 .. n /\ j < i
        BY <1>1
      <4> QED
        BY <4>1, <4>2 DEF Ascending
    <3> QED
      BY <3>1, <3>2
  <2>5. h[i + 1] = h[i] \cup {locks[i]}
    <3>1. \A j \in 1 .. (i + 1) - 1 : j \in 1 .. i - 1 \/ j = i
      BY <1>1
    <3>2. \A j \in 1 .. i - 1 : j \in 1 .. (i + 1) - 1
      BY <1>1
    <3>3. i \in 1 .. (i + 1) - 1
      BY <1>1
    <3> QED
      BY <2>2, <2>3, <3>1, <3>2, <3>3
  <2> HIDE DEF h
  <2> QED
    BY <1>1, <1>2, <1>3, <2>4, <2>5 DEF Legal, Effect
<1> HIDE DEF n, s, h
<1>8. Prog(s, H, H \cup ToSet(locks))
  BY <1>3, <1>4, <1>5, <1>6, <1>7 DEF Prog
<1> QED
  BY <1>8 DEF s

\* A body between locking and unlocking.
LEMMA HoldingProg ==
  ASSUME NEW locks \in Seq(Mutexes \ {"bc"}), NEW H \in SUBSET Mutexes,
         Ascending(locks, H), NEW body,
         Prog(body, H \cup ToSet(locks), H \cup ToSet(locks))
  PROVE  Prog(Holding(locks, body), H, H)
<1> DEFINE L == ToSet(locks)
<1>1. L \subseteq Mutexes \ {"bc"}
  <2>1. \A i \in 1 .. Len(locks) : locks[i] \in Mutexes \ {"bc"}
    BY ElementOfSeq
  <2> QED
    BY <2>1 DEF ToSet
<1>2. L \cap H = {}
  <2> SUFFICES ASSUME NEW m \in H, m \in L PROVE FALSE
    OBVIOUS
  <2>1. PICK i \in 1 .. Len(locks) : m = locks[i]
    BY DEF ToSet
  <2>2. Rank[m] < Rank[m] /\ Rank[m] \in Nat
    BY <2>1 DEF Ascending, Rank, Mutexes
  <2> QED
    BY <2>2
<1>3. Prog(Locking(locks), H, H \cup L)
  BY LockingProg
<1>4. Prog(Locking(locks) \o body, H, H \cup L)
  BY <1>3, ConcatProg
<1>5. Prog(<<Unlock(L)>>, H \cup L, H)
  <2> HIDE DEF L
  <2>1. H = (H \cup L) \ L
    BY <1>2
  <2> QED
    BY <1>1, <2>1, DoProg DEF Ops, Unlock
<1> QED
  BY <1>4, <1>5, ConcatProg DEF Holding

\* A body inside Blockchain::lock.
LEMMA BlockchainProg ==
  ASSUME NEW body, Prog(body, {"bc"}, {"bc"})
  PROVE  Prog(InBlockchain(body), {}, {})
<1>1. Prog(<<Do("enter", {"bc"})>>, {}, {"bc"})
  BY DoProg DEF Ops, Mutexes
<1>2. Prog(<<Do("leave", {"bc"})>>, {"bc"}, {})
  BY DoProg DEF Ops, Mutexes
<1> QED
  BY <1>1, <1>2, ConcatProg DEF InBlockchain

------------------------------------------------------------------------------
\* The lock lists of the code are in the order of the ranks.
LEMMA CreatorOrder ==
  /\ CreatorLocks \in Seq(Mutexes \ {"bc"}) /\ Ascending(CreatorLocks, {})
  /\ ToSet(CreatorLocks) = {"aging", "next_seqs", "pending", "mempool"}
<1>1. Len(CreatorLocks) = 4 /\ DOMAIN CreatorLocks = 1 .. 4
  BY DEF CreatorLocks
<1>2. \A i \in 1 .. 4 : i = 1 \/ i = 2 \/ i = 3 \/ i = 4
  OBVIOUS
<1>3. CreatorLocks \in Seq(Mutexes \ {"bc"})
  BY DEF CreatorLocks, Mutexes
<1>4. Ascending(CreatorLocks, {})
  BY <1>1, <1>2 DEF Ascending, CreatorLocks, Rank
<1>5. ToSet(CreatorLocks) = {CreatorLocks[1], CreatorLocks[2], CreatorLocks[3], CreatorLocks[4]}
  BY <1>1, <1>2 DEF ToSet
<1> QED
  BY <1>3, <1>4, <1>5 DEF CreatorLocks

\* verify_transactions takes its mutexes in the order of the ranks, after Blockchain::lock.
LEMMA VerifyOrder ==
  /\ VerifyLocks \in Seq(Mutexes \ {"bc"}) /\ Ascending(VerifyLocks, {"bc"})
  /\ ToSet(VerifyLocks) = {"aging", "next_seqs", "pending", "mempool", "aged"}
<1>1. Len(VerifyLocks) = 5 /\ DOMAIN VerifyLocks = 1 .. 5
  BY DEF VerifyLocks
<1>2. \A i \in 1 .. 5 : i = 1 \/ i = 2 \/ i = 3 \/ i = 4 \/ i = 5
  OBVIOUS
<1>3. VerifyLocks \in Seq(Mutexes \ {"bc"})
  BY DEF VerifyLocks, Mutexes
<1>4. Ascending(VerifyLocks, {"bc"})
  BY <1>1, <1>2 DEF Ascending, VerifyLocks, Rank
<1>5. ToSet(VerifyLocks) = {VerifyLocks[1], VerifyLocks[2], VerifyLocks[3], VerifyLocks[4],
                            VerifyLocks[5]}
  BY <1>1, <1>2 DEF ToSet
<1> QED
  BY <1>3, <1>4, <1>5 DEF VerifyLocks

\* aging_monitor takes its mutexes in the order of the ranks.
LEMMA MonitorOrder ==
  /\ MonitorLocks \in Seq(Mutexes \ {"bc"}) /\ Ascending(MonitorLocks, {})
  /\ ToSet(MonitorLocks)
       = {"aging", "next_seqs", "pending", "mempool", "dependencies", "aged"}
<1>1. Len(MonitorLocks) = 6 /\ DOMAIN MonitorLocks = 1 .. 6
  BY DEF MonitorLocks
<1>2. \A i \in 1 .. 6 : i = 1 \/ i = 2 \/ i = 3 \/ i = 4 \/ i = 5 \/ i = 6
  OBVIOUS
<1>3. MonitorLocks \in Seq(Mutexes \ {"bc"})
  BY DEF MonitorLocks, Mutexes
<1>4. Ascending(MonitorLocks, {})
  BY <1>1, <1>2 DEF Ascending, MonitorLocks, Rank
<1>5. ToSet(MonitorLocks) = {MonitorLocks[1], MonitorLocks[2], MonitorLocks[3],
                             MonitorLocks[4], MonitorLocks[5], MonitorLocks[6]}
  BY <1>1, <1>2 DEF ToSet
<1> QED
  BY <1>3, <1>4, <1>5 DEF MonitorLocks

\* remove_transactions takes its mutexes in the order of the ranks.
LEMMA RemoveOrder ==
  /\ RemoveLocks \in Seq(Mutexes \ {"bc"}) /\ Ascending(RemoveLocks, {"bc"})
  /\ ToSet(RemoveLocks) = {"pending", "mempool"}
<1>1. Len(RemoveLocks) = 2 /\ DOMAIN RemoveLocks = 1 .. 2
  BY DEF RemoveLocks
<1>2. \A i \in 1 .. 2 : i = 1 \/ i = 2
  OBVIOUS
<1>3. RemoveLocks \in Seq(Mutexes \ {"bc"})
  BY DEF RemoveLocks, Mutexes
<1>4. Ascending(RemoveLocks, {"bc"})
  BY <1>1, <1>2 DEF Ascending, RemoveLocks, Rank
<1>5. ToSet(RemoveLocks) = {RemoveLocks[1], RemoveLocks[2]}
  BY <1>1, <1>2 DEF ToSet
<1> QED
  BY <1>3, <1>4, <1>5 DEF RemoveLocks

\* commit_transactions takes its mutexes in the order of the ranks.
LEMMA CommitOrder ==
  /\ CommitLocks \in Seq(Mutexes \ {"bc"}) /\ Ascending(CommitLocks, {"bc"})
  /\ ToSet(CommitLocks) = {"next_seqs", "dependencies", "aged"}
<1>1. Len(CommitLocks) = 3 /\ DOMAIN CommitLocks = 1 .. 3
  BY DEF CommitLocks
<1>2. \A i \in 1 .. 3 : i = 1 \/ i = 2 \/ i = 3
  OBVIOUS
<1>3. CommitLocks \in Seq(Mutexes \ {"bc"})
  BY DEF CommitLocks, Mutexes
<1>4. Ascending(CommitLocks, {"bc"})
  BY <1>1, <1>2 DEF Ascending, CommitLocks, Rank
<1>5. ToSet(CommitLocks) = {CommitLocks[1], CommitLocks[2], CommitLocks[3]}
  BY <1>1, <1>2 DEF ToSet
<1> QED
  BY <1>3, <1>4, <1>5 DEF CommitLocks

\* A single mutex, above the ones held.
LEMMA SingleOrder ==
  ASSUME NEW m \in Mutexes \ {"bc"}, NEW H, \A k \in H : Rank[k] < Rank[m]
  PROVE  /\ <<m>> \in Seq(Mutexes \ {"bc"}) /\ Ascending(<<m>>, H) /\ ToSet(<<m>>) = {m}
<1> DEFINE s == <<m>>
<1>1. s \in Seq(Mutexes \ {"bc"}) /\ Len(s) = 1 /\ DOMAIN s = 1 .. 1 /\ s[1] = m
  OBVIOUS
<1>2. \A i \in 1 .. 1 : i = 1
  OBVIOUS
<1> HIDE DEF s
<1>3. Ascending(s, H) /\ ToSet(s) = {m}
  BY <1>1, <1>2 DEF Ascending, ToSet
<1> QED
  BY <1>1, <1>3 DEF s

\* The statistics of promises, under any mutexes but their own.
LEMMA StatsProg ==
  ASSUME NEW H \in SUBSET (Mutexes \ {"promise_stats"})
  PROVE  Prog(PromiseStats, H, H)
<1>1. \A k \in H : Rank[k] < Rank["promise_stats"]
  BY DEF Rank, Mutexes
<1>2. "promise_stats" \in Mutexes \ {"bc"} /\ {"promise_stats"} \in SUBSET Data
      /\ {} \in SUBSET Data /\ {0} \in SUBSET Int
  BY DEF Mutexes, Data
<1> DEFINE K == H \cup {"promise_stats"}
           locks == <<"promise_stats">>
           body == <<Use({}, {"promise_stats"})>>
<1>3. \A d \in {} \cup {"promise_stats"} : Guarded(d, K)
  BY DEF Guarded
<1>4. Prog(body, K, K)
  <2>1. K \in SUBSET Mutexes
    BY <1>2
  <2> HIDE DEF K
  <2> QED
    BY <1>2, <1>3, <2>1, UseProg DEF Use
<1>5. locks \in Seq(Mutexes \ {"bc"}) /\ Ascending(locks, H) /\ ToSet(locks) = {"promise_stats"}
  BY <1>1, <1>2, SingleOrder
<1> HIDE DEF locks, body
<1>6. Prog(Holding(locks, body), H, H)
  BY <1>4, <1>5, HoldingProg
<1> QED
  BY <1>6 DEF PromiseStats, locks, body

------------------------------------------------------------------------------
\* Instructions in a row, one by one.
LEMMA InARow ==
  /\ \A x, y : <<x, y>> = <<x>> \o <<y>>
  /\ \A x, y, z : <<x, y, z>> = <<x>> \o <<y>> \o <<z>>
<1>1. ASSUME NEW x, NEW y PROVE <<x, y>> = <<x>> \o <<y>>
  <2> DEFINE S == {x, y}
             a == <<x>>
             b == <<y>>
             c == <<x, y>>
             d == a \o b
  <2>1. /\ a \in Seq(S) /\ Len(a) = 1 /\ a[1] = x
        /\ b \in Seq(S) /\ Len(b) = 1 /\ b[1] = y
        /\ c \in Seq(S) /\ Len(c) = 2 /\ c[1] = x /\ c[2] = y
    OBVIOUS
  <2> HIDE DEF a, b, c, S
  <2>2. d \in Seq(S) /\ Len(d) = 2 /\ d[1] = x /\ d[2] = y
    BY <2>1, ConcatProperties
  <2> HIDE DEF d
  <2>3. \A i \in 1 .. Len(c) : c[i] = d[i]
    BY <2>1, <2>2
  <2>4. c = d
    BY <2>1, <2>2, <2>3, SeqEqual
  <2> QED
    BY <2>4 DEF a, b, c, d
<1>2. ASSUME NEW x, NEW y, NEW z PROVE <<x, y, z>> = <<x>> \o <<y>> \o <<z>>
  <2>1. <<x, y, z>> = <<x, y>> \o <<z>>
    OBVIOUS
  <2> QED
    BY <1>1, <2>1
<1> QED
  BY <1>1, <1>2

\* write_to_all_peers
LEMMA PeersProg ==
  ASSUME NEW H \in SUBSET Mutexes
  PROVE  Prog(WriteToPeers, H, H)
<1>1. {"peers"} \in SUBSET Data /\ {} \in SUBSET Data
  BY DEF Data
<1> QED
  BY <1>1, PeekProg DEF WriteToPeers

\* A round of transaction_creator.
LEMMA CreatorProg == Prog(TransactionCreator, {}, {})
<1> DEFINE H == {"aging", "next_seqs", "pending", "mempool"}
           r == {"last_promised"}
           w == {"aging", "pending", "mempool"} \cup Checked
<1>1. H \in SUBSET Mutexes /\ r \in SUBSET Data /\ w \in SUBSET Data /\ {0, 1} \in SUBSET Int
      /\ {} \in SUBSET Mutexes /\ {} \cup H = H
  BY DEF Mutexes, Data, Checked
<1>2. \A d \in r \cup w : Guarded(d, H)
  BY DEF Guarded, Checked
<1> HIDE DEF H, r, w
<1>3. Prog(<<UsePool(r, w)>>, H, H)
  BY <1>1, <1>2, UseProg DEF UsePool
<1>4. Prog(Holding(CreatorLocks, <<UsePool(r, w)>>), {}, {})
  <2>1. ToSet(CreatorLocks) = H
    BY CreatorOrder DEF H
  <2> QED
    BY <1>1, <1>3, <2>1, CreatorOrder, HoldingProg
<1> QED
  BY <1>1, <1>4, PeersProg, ConcatProg DEF TransactionCreator, r, w

\* A round of aging_monitor.
LEMMA MonitorProg ==
  ASSUME NEW promises \in BOOLEAN
  PROVE  Prog(AgingMonitor(promises), {}, {})
<1> DEFINE H == {"aging", "next_seqs", "pending", "mempool", "dependencies", "aged"}
           w == {"aging", "aged"} \cup Promised
           stats == IF promises THEN PromiseStats ELSE <<>>
           body == <<UsePool({}, w)>> \o stats
<1>1. /\ H \in SUBSET Mutexes /\ {} \in SUBSET Data /\ w \in SUBSET Data
      /\ {0, 1} \in SUBSET Int /\ {} \in SUBSET Mutexes /\ {} \cup H = H
      /\ H \in SUBSET (Mutexes \ {"promise_stats"})
  BY DEF Mutexes, Data, Checked, Promised
<1>2. \A d \in {} \cup w : Guarded(d, H)
  BY DEF Guarded, Checked, Promised
<1>3. ToSet(MonitorLocks) = H
  BY MonitorOrder
<1> HIDE DEF H, w
<1>4. Prog(<<UsePool({}, w)>>, H, H)
  BY <1>1, <1>2, UseProg DEF UsePool
<1>5. Prog(stats, H, H)
  BY <1>1, StatsProg, EmptyProg
<1>6. Prog(body, H, H)
  BY <1>4, <1>5, ConcatProg
<1> HIDE DEF stats, body
<1>7. Prog(Holding(MonitorLocks, body), {}, {})
  BY <1>1, <1>3, <1>6, MonitorOrder, HoldingProg
<1> QED
  BY <1>7 DEF AgingMonitor, body, stats, w

\* The handler of #transactions.
LEMMA TransactionsProg == Prog(HandleTransactions, {}, {})
<1> DEFINE L == {"aging", "next_seqs", "pending", "mempool", "aged"}
           H == {"bc"} \cup L
           w == {"aging", "aged", "pending", "mempool"} \cup Checked
<1>1. /\ H \in SUBSET Mutexes /\ {} \in SUBSET Data /\ w \in SUBSET Data
      /\ {0, 1} \in SUBSET Int /\ {"bc"} \in SUBSET Mutexes
      /\ {"next_seqs"} \in SUBSET Data
  BY DEF Mutexes, Data, Checked
<1>2. \A d \in {} \cup w : Guarded(d, H)
  BY DEF Guarded, Checked
<1>3. ToSet(VerifyLocks) = L
  BY VerifyOrder
<1> HIDE DEF L, H, w
<1>4. Prog(<<UsePool({}, w)>>, H, H)
  BY <1>1, <1>2, UseProg DEF UsePool
<1>5. Prog(Holding(VerifyLocks, <<UsePool({}, w)>>), {"bc"}, {"bc"})
  BY <1>1, <1>3, <1>4, VerifyOrder, HoldingProg DEF H
<1>6. Prog(<<Peek({"next_seqs"}, {})>>, {"bc"}, {"bc"})
  BY <1>1, PeekProg
<1>7. Prog(WriteToPeers, {"bc"}, {"bc"})
  BY <1>1, PeersProg
<1>8. Prog(<<Peek({"next_seqs"}, {})>> \o Holding(VerifyLocks, <<UsePool({}, w)>>)
             \o WriteToPeers, {"bc"}, {"bc"})
  BY <1>5, <1>6, <1>7, ConcatProg
<1> QED
  BY <1>8, BlockchainProg DEF HandleTransactions, w

\* remove_from_mempool_and_pending: kept mutexes count as gone.
LEMMA RemoveProg ==
  ASSUME NEW pends \in BOOLEAN
  PROVE  Prog(RemoveFromMempoolAndPending(pends), {"bc"}, {"bc"})
<1> DEFINE L == {"pending", "mempool"}
           H == {"bc"} \cup L
<1>1. /\ H \in SUBSET Mutexes /\ {"pending"} \in SUBSET Data /\ {"mempool"} \in SUBSET Data
      /\ {0, -1} \in SUBSET Int /\ {0} \in SUBSET Int /\ {"bc"} \in SUBSET Mutexes
      /\ L \in SUBSET Mutexes
  BY DEF Mutexes, Data
<1>2. (\A d \in {"pending"} \cup {"mempool"} : Guarded(d, H))
      /\ (\A d \in {"mempool"} \cup {"pending"} : Guarded(d, H))
  BY DEF Guarded
<1>3. ToSet(RemoveLocks) = L
  BY RemoveOrder
<1>4. {"bc"} = H \ L /\ L \subseteq H \ {"bc"}
  OBVIOUS
<1>5. Prog(Locking(RemoveLocks), {"bc"}, H)
  BY <1>1, <1>3, RemoveOrder, LockingProg
<1> HIDE DEF L, H
<1>6. Prog(<<Do("keep", L)>>, H, {"bc"}) /\ Prog(<<Do("unlock", L)>>, H, {"bc"})
  BY <1>1, <1>4, DoProg DEF Ops
<1>7. Prog(<<Access("use", {"mempool"}, {"pending"}, {0})>>, H, H)
      /\ Prog(<<Access("use", {"pending"}, {"mempool"}, {0, -1})>>, H, H)
  BY <1>1, <1>2, UseProg
<1> DEFINE u == Use({"mempool"}, {"pending"})
           a == Access("use", {"pending"}, {"mempool"}, {0, -1})
           k == Do("keep", ToSet(RemoveLocks))
           l == Unlock(ToSet(RemoveLocks))
<1>8. Prog(<<u>>, H, H) /\ Prog(<<a>>, H, H) /\ Prog(<<k>>, H, {"bc"}) /\ Prog(<<l>>, H, {"bc"})
  BY <1>3, <1>6, <1>7 DEF Unlock, Use
<1>9. /\ RemoveFromMempoolAndPending(TRUE) = Locking(RemoveLocks) \o <<u, k>>
      /\ RemoveFromMempoolAndPending(FALSE) = Locking(RemoveLocks) \o <<a, l>>
  BY DEF RemoveFromMempoolAndPending
<1> HIDE DEF u, a, k, l
<1>10. <<u, k>> = <<u>> \o <<k>> /\ <<a, l>> = <<a>> \o <<l>>
  BY InARow
<1>11. Prog(<<u, k>>, H, {"bc"}) /\ Prog(<<a, l>>, H, {"bc"})
  BY <1>8, <1>10, ConcatProg
<1> QED
  BY <1>5, <1>9, <1>11, ConcatProg

\* Work on the trees inside Blockchain::lock.
LEMMA TreesProg ==
  /\ Prog(<<Use({}, {"trees"})>>, {"bc"}, {"bc"})
  /\ Prog(<<Use({"trees"}, {})>>, {"bc"}, {"bc"})
<1>1. /\ {"trees"} \in SUBSET Data /\ {} \in SUBSET Data /\ {0} \in SUBSET Int
      /\ {"bc"} \in SUBSET Mutexes
  BY DEF Data, Mutexes
<1>2. (\A d \in {} \cup {"trees"} : Guarded(d, {"bc"}))
      /\ (\A d \in {"trees"} \cup {} : Guarded(d, {"bc"}))
  BY DEF Guarded
<1> QED
  BY <1>1, <1>2, UseProg DEF Use

\* verify_transaction_from_block after its first test.
LEMMA FromBlockProg ==
  ASSUME NEW pends \in BOOLEAN, NEW refused \in BOOLEAN
  PROVE  Prog(VerifyFromBlock(pends, refused), {"bc"}, {"bc"})
<1> DEFINE H == {"bc", "aged"}
           u == Use({"aged"}, {})
           e == IF refused THEN Do("keep", {"aged"}) ELSE Unlock({"aged"})
           l == Lock("aged")
<1>1. /\ H \in SUBSET Mutexes /\ {"aged"} \in SUBSET Data /\ {} \in SUBSET Data
      /\ {0} \in SUBSET Int /\ {"bc"} \in SUBSET Mutexes /\ {"aged"} \in SUBSET Mutexes
      /\ "aged" \in Mutexes \ {"bc"}
  BY DEF Mutexes, Data
<1>2. (\A d \in {"aged"} \cup {} : Guarded(d, H)) /\ \A k \in {"bc"} : Rank[k] < Rank["aged"]
  BY DEF Guarded, Rank
<1>3. {"bc"} \cup {"aged"} = H /\ {"bc"} = H \ {"aged"} /\ {"aged"} \subseteq H \ {"bc"}
  OBVIOUS
<1> HIDE DEF H
<1>4. Prog(<<l>>, {"bc"}, H)
  BY <1>1, <1>2, <1>3, DoProg DEF Lock, Ops
<1>5. Prog(<<u>>, H, H)
  BY <1>1, <1>2, UseProg DEF Use
<1>6. Prog(<<e>>, H, {"bc"})
  <2>1. Prog(<<Do("keep", {"aged"})>>, H, {"bc"}) /\ Prog(<<Do("unlock", {"aged"})>>, H, {"bc"})
    BY <1>1, <1>3, DoProg DEF Ops
  <2> QED
    BY <2>1 DEF Unlock
<1>7. VerifyFromBlock(pends, refused) = RemoveFromMempoolAndPending(pends) \o <<l, u, e>>
  BY DEF VerifyFromBlock
<1> HIDE DEF l, u, e
<1>8. <<l, u, e>> = <<l>> \o <<u>> \o <<e>>
  BY InARow
<1>9. Prog(<<l, u, e>>, {"bc"}, {"bc"})
  BY <1>4, <1>5, <1>6, <1>8, ConcatProg
<1> QED
  BY <1>7, <1>9, RemoveProg, ConcatProg

\* The handler of #full_block.
LEMMA FullBlockProg ==
  ASSUME NEW ready \in BOOLEAN, NEW pends \in BOOLEAN, NEW refused \in BOOLEAN
  PROVE  Prog(HandleFullBlock(ready, pends, refused), {}, {})
<1> DEFINE H == {"bc"} \cup {"next_seqs"}
           locks == <<"next_seqs">>
           read == Holding(locks, <<Use({}, {"next_seqs"})>>)
           peek == <<Peek({}, {"next_seqs"})>>
           verify == IF ready THEN VerifyFromBlock(pends, refused) ELSE <<>>
<1>1. /\ H \in SUBSET Mutexes /\ {"next_seqs"} \in SUBSET Data /\ {} \in SUBSET Data
      /\ {0} \in SUBSET Int /\ {"bc"} \in SUBSET Mutexes
      /\ "next_seqs" \in Mutexes \ {"bc"}
  BY DEF Mutexes, Data
<1>2. (\A d \in {} \cup {"next_seqs"} : Guarded(d, H))
      /\ \A k \in {"bc"} : Rank[k] < Rank["next_seqs"]
  BY DEF Guarded, Rank
<1>3. locks \in Seq(Mutexes \ {"bc"}) /\ Ascending(locks, {"bc"}) /\ ToSet(locks) = {"next_seqs"}
  BY <1>1, <1>2, SingleOrder
<1> HIDE DEF H, locks
<1>4. Prog(<<Use({}, {"next_seqs"})>>, H, H)
  BY <1>1, <1>2, UseProg DEF Use
<1>5. Prog(read, {"bc"}, {"bc"})
  BY <1>1, <1>3, <1>4, HoldingProg DEF H
<1>6. Prog(peek, {"bc"}, {"bc"})
  BY <1>1, PeekProg
<1>7. Prog(verify, {"bc"}, {"bc"})
  BY <1>1, FromBlockProg, EmptyProg
<1> HIDE DEF read, peek, verify
<1>8. Prog(read \o peek \o verify \o <<Use({}, {"trees"})>>, {"bc"}, {"bc"})
  BY <1>5, <1>6, <1>7, TreesProg, ConcatProg
<1> QED
  BY <1>8, BlockchainProg DEF HandleFullBlock, read, peek, verify, locks

\* The handler of #process_block.
LEMMA ProcessBlockProg == Prog(HandleProcessBlock, {}, {})
<1> DEFINE first == IF config.can_interrupt THEN <<Do("interrupt", {})>> ELSE <<>>
           u == Use({}, {"trees"})
           p == Peek({}, {"peers"})
<1>1. {"peers"} \in SUBSET Data /\ {} \in SUBSET Data /\ {"bc"} \in SUBSET Mutexes
      /\ {} \in SUBSET Mutexes
  BY DEF Data, Mutexes
<1>2. Prog(first, {"bc"}, {"bc"})
  <2>1. Prog(<<Do("interrupt", {})>>, {"bc"}, {"bc"})
    BY <1>1, DoProg DEF Ops
  <2> QED
    BY <1>1, <2>1, EmptyProg
<1>3. Prog(<<u>>, {"bc"}, {"bc"}) /\ Prog(<<p>>, {"bc"}, {"bc"})
  BY <1>1, TreesProg, PeekProg
<1>4. HandleProcessBlock = InBlockchain(first \o <<u, p>>)
  BY DEF HandleProcessBlock
<1> HIDE DEF first, u, p
<1>5. <<u, p>> = <<u>> \o <<p>>
  BY InARow
<1>6. Prog(first \o <<u, p>>, {"bc"}, {"bc"})
  BY <1>2, <1>3, <1>5, ConcatProg
<1> QED
  BY <1>4, <1>6, BlockchainProg

\* commit_block inside the commit pass.
LEMMA CommitProg == Prog(CommitBlock, {"bc"}, {"bc"})
<1> DEFINE L == {"next_seqs", "dependencies", "aged"}
           H == {"bc"} \cup L
           w == {"aged"} \cup Promised
           body == <<UsePool({}, w)>> \o PromiseStats
<1>1. /\ H \in SUBSET Mutexes /\ {} \in SUBSET Data /\ w \in SUBSET Data
      /\ {0, 1} \in SUBSET Int /\ {"bc"} \in SUBSET Mutexes
      /\ H \in SUBSET (Mutexes \ {"promise_stats"})
  BY DEF Mutexes, Data, Checked, Promised
<1>2. \A d \in {} \cup w : Guarded(d, H)
  BY DEF Guarded, Checked, Promised
<1>3. ToSet(CommitLocks) = L
  BY CommitOrder
<1> HIDE DEF L, H, w
<1>4. Prog(<<UsePool({}, w)>>, H, H)
  BY <1>1, <1>2, UseProg DEF UsePool
<1>5. Prog(body, H, H)
  BY <1>1, <1>4, StatsProg, ConcatProg
<1> HIDE DEF body
<1>6. Prog(Holding(CommitLocks, body), {"bc"}, {"bc"})
  BY <1>1, <1>3, <1>5, CommitOrder, HoldingProg DEF H
<1> QED
  BY <1>6 DEF CommitBlock, body, w

\* The report of run_network.
LEMMA ReportProg == Prog(ReportCounts, {"bc"}, {"bc"})
<1> DEFINE H == {"bc"} \cup {"aging"}
           locks == <<"aging">>
           r == {"aged", "pending", "mempool"}
<1>1. /\ H \in SUBSET Mutexes /\ {"aging"} \in SUBSET Data /\ {} \in SUBSET Data
      /\ {0} \in SUBSET Int /\ {"bc"} \in SUBSET Mutexes
      /\ "aging" \in Mutexes \ {"bc"} /\ r \in SUBSET Data
      /\ {"bc"} \in SUBSET (Mutexes \ {"promise_stats"})
  BY DEF Mutexes, Data
<1>2. (\A d \in {"aging"} \cup {} : Guarded(d, H)) /\ \A k \in {"bc"} : Rank[k] < Rank["aging"]
  BY DEF Guarded, Rank
<1>3. locks \in Seq(Mutexes \ {"bc"}) /\ Ascending(locks, {"bc"}) /\ ToSet(locks) = {"aging"}
  BY <1>1, <1>2, SingleOrder
<1> HIDE DEF H, locks, r
<1>4. Prog(<<Use({"aging"}, {})>>, H, H)
  BY <1>1, <1>2, UseProg DEF Use
<1>5. Prog(Holding(locks, <<Use({"aging"}, {})>>), {"bc"}, {"bc"})
  BY <1>1, <1>3, <1>4, HoldingProg DEF H
<1>6. Prog(PromiseStats, {"bc"}, {"bc"}) /\ Prog(<<Peek(r, {})>>, {"bc"}, {"bc"})
  BY <1>1, StatsProg, PeekProg
<1> QED
  BY <1>5, <1>6, ConcatProg DEF ReportCounts, locks, r

\* A pass of run_network.
LEMMA RunNetworkProg ==
  ASSUME NEW commits \in BOOLEAN, NEW reports \in BOOLEAN
  PROVE  Prog(RunNetwork(commits, reports), {}, {})
<1> DEFINE p == Peek({}, {"peers", "rng"})
           u == Use({}, {"trees"})
           c == IF commits THEN CommitBlock ELSE <<>>
           r == IF reports THEN ReportCounts ELSE <<>>
<1>1. {"peers", "rng"} \in SUBSET Data /\ {} \in SUBSET Data /\ {"bc"} \in SUBSET Mutexes
  BY DEF Data, Mutexes
<1>2. Prog(<<p>>, {"bc"}, {"bc"}) /\ Prog(<<u>>, {"bc"}, {"bc"})
  BY <1>1, PeekProg, TreesProg
<1>3. Prog(c, {"bc"}, {"bc"}) /\ Prog(r, {"bc"}, {"bc"})
  BY <1>1, CommitProg, ReportProg, EmptyProg
<1>4. RunNetwork(commits, reports) = InBlockchain(<<p, u>> \o c \o r)
  BY DEF RunNetwork
<1> HIDE DEF p, u, c, r
<1>5. <<p, u>> = <<p>> \o <<u>>
  BY InARow
<1>6. Prog(<<p, u>> \o c \o r, {"bc"}, {"bc"})
  BY <1>2, <1>3, <1>5, ConcatProg
<1> QED
  BY <1>4, <1>6, BlockchainProg

\* The callbacks of the connections.
LEMMA CallbackProg == Prog(ConnectionCallback, {}, {})
<1>1. {"peers", "rng"} \in SUBSET Data /\ {} \in SUBSET Data /\ {} \in SUBSET Mutexes
  BY DEF Data
<1> QED
  BY <1>1, PeekProg DEF ConnectionCallback

\* create_transaction_block, for every number of transactions in a block.
LEMMA CreateBlockProg ==
  ASSUME config.block_size \in Nat
  PROVE  Prog(CreateTransactionBlock, {"bc"}, {"bc"})
<1> DEFINE n == 3 * config.block_size
           g == GetOneTransaction
           s == [i \in 1 .. n |-> g[((i - 1) % 3) + 1]]
           H == {"bc", "mempool"}
           h == [i \in 1 .. n + 1 |-> IF (i - 1) % 3 = 0 THEN {"bc"} ELSE H]
<1>1. /\ g[1] = Lock("mempool") /\ g[2] = Do("take", {"mempool"})
      /\ g[3] = Unlock({"mempool"})
  BY DEF GetOneTransaction
<1>2. /\ \A i \in 1 .. 3 : g[i] \in Instruction /\ g[i].write = {} /\ g[i].on = {"mempool"}
      /\ g[1].op = "lock" /\ g[2].op = "take" /\ g[3].op = "unlock"
  <2>1. \A i \in 1 .. 3 : i = 1 \/ i = 2 \/ i = 3
    OBVIOUS
  <2>2. g[1] \in Instruction /\ g[1].write = {} /\ g[1].on = {"mempool"} /\ g[1].op = "lock"
    BY <1>1 DEF Lock, Do, Instruction, Ops, Data, Mutexes
  <2>3. g[2] \in Instruction /\ g[2].write = {} /\ g[2].on = {"mempool"} /\ g[2].op = "take"
    BY <1>1 DEF Do, Instruction, Ops, Data, Mutexes
  <2>4. g[3] \in Instruction /\ g[3].write = {} /\ g[3].on = {"mempool"} /\ g[3].op = "unlock"
    BY <1>1 DEF Unlock, Do, Instruction, Ops, Data, Mutexes
  <2> HIDE DEF g
  <2> QED
    BY <2>1, <2>2, <2>3, <2>4
<1>3. "mempool" \in Mutexes \ {"bc"} /\ Rank["bc"] < Rank["mempool"] /\ {"bc"} \in SUBSET Mutexes
      /\ H \in SUBSET Mutexes
  BY DEF Mutexes, Rank
<1>4. n \in Nat /\ n % 3 = 0
  OBVIOUS
<1> HIDE DEF g
<1>5. Legal(g[1], {"bc"}) /\ Effect(g[1], {"bc"}) = H
  BY <1>2, <1>3 DEF Legal, Effect
<1>6. Legal(g[2], H) /\ Effect(g[2], H) = H
  BY <1>2, <1>3 DEF Legal, Effect
<1>7. Legal(g[3], H) /\ Effect(g[3], H) = {"bc"}
  BY <1>2, <1>3 DEF Legal, Effect
<1> HIDE DEF H, n
<1>8. \A i \in 1 .. n : ((i - 1) % 3) + 1 \in 1 .. 3
  BY <1>4
<1>9. s \in Seq(Instruction) /\ Len(s) = n /\ \A i \in 1 .. n : s[i] = g[((i - 1) % 3) + 1]
  BY <1>2, <1>4, <1>8
<1>10. h \in [1 .. n + 1 -> SUBSET Mutexes]
  BY <1>3
<1>11. h[1] = {"bc"} /\ h[n + 1] = {"bc"}
  BY <1>4
<1>12. ASSUME NEW i \in 1 .. n PROVE Legal(s[i], h[i]) /\ h[i + 1] = Effect(s[i], h[i])
  <2>1. i \in 1 .. n + 1 /\ i + 1 \in 1 .. n + 1 /\ (i + 1) - 1 = i
    BY <1>4
  <2>2. CASE (i - 1) % 3 = 0
    <3>1. i % 3 = 1
      BY <1>4, <2>2
    <3> QED
      BY <1>5, <1>9, <2>1, <2>2, <3>1
  <2>3. CASE (i - 1) % 3 = 1
    <3>1. i % 3 = 2
      BY <1>4, <2>3
    <3> QED
      BY <1>6, <1>9, <2>1, <2>3, <3>1
  <2>4. CASE (i - 1) % 3 = 2
    <3>1. i % 3 = 0
      BY <1>4, <2>4
    <3> QED
      BY <1>7, <1>9, <2>1, <2>4, <3>1
  <2> QED
    BY <1>4, <2>2, <2>3, <2>4
<1> HIDE DEF s, h
<1>13. Prog(s, {"bc"}, {"bc"})
  BY <1>9, <1>10, <1>11, <1>12 DEF Prog
<1> QED
  BY <1>13 DEF CreateTransactionBlock, s, g, n

\* A round of the miner.
LEMMA MinerProg ==
  ASSUME config.block_size \in Nat
  PROVE  Prog(MineNewBlock, {}, {})
<1> DEFINE e == Do("enter", {"bc"})
           u == Use({"trees"}, {})
           q == Do("quit", {"bc"})
<1>1. /\ {"rng"} \in SUBSET Data /\ {} \in SUBSET Data /\ {"bc"} \in SUBSET Mutexes
      /\ {} \in SUBSET Mutexes
  BY DEF Data, Mutexes
<1>2. Prog(<<Peek({}, {"rng"})>>, {}, {})
  BY <1>1, PeekProg
<1>3. Prog(<<e>>, {}, {"bc"}) /\ Prog(<<q>>, {"bc"}, {})
  BY <1>1, DoProg DEF Ops
<1>4. Prog(<<u>>, {"bc"}, {"bc"})
  BY TreesProg
<1> DEFINE body == <<Use({"trees"}, {})>> \o CreateTransactionBlock
                     \o <<Use({}, {"trees"})>> \o WriteToPeers
<1>5. MineNewBlock = <<Peek({}, {"rng"})>> \o IF config.block_size = 0 THEN <<e, u, q>>
                                             ELSE InBlockchain(body)
  BY DEF MineNewBlock
<1>6. Prog(InBlockchain(body), {}, {})
  <2>1. Prog(body, {"bc"}, {"bc"})
    BY <1>1, TreesProg, CreateBlockProg, PeersProg, ConcatProg
  <2> QED
    BY <2>1, BlockchainProg
<1> HIDE DEF e, u, q, body
<1>7. <<e, u, q>> = <<e>> \o <<u>> \o <<q>>
  BY InARow
<1>8. Prog(<<e, u, q>>, {}, {})
  BY <1>3, <1>4, <1>7, ConcatProg
<1> QED
  BY <1>2, <1>5, <1>6, <1>8, ConcatProg

\* Every section of every thread starts and ends with no mutex held.
LEMMA SectionProg ==
  ASSUME config.block_size \in Nat, NEW t \in Threads, NEW s \in Sections(t)
  PROVE  Prog(s, {}, {})
<1>1. CASE t = "creator"
  BY <1>1, CreatorProg DEF Sections
<1>2. CASE t = "monitor"
  BY <1>2, MonitorProg DEF Sections
<1>3. CASE t = "miner"
  BY <1>3, MinerProg DEF Sections
<1>4. CASE t = "main"
  BY <1>4, TransactionsProg, ProcessBlockProg, CallbackProg, FullBlockProg, RunNetworkProg
     DEF Sections
<1> QED
  BY <1>1, <1>2, <1>3, <1>4 DEF Threads

------------------------------------------------------------------------------
\* The mutexes a thread holds and has not left taken in an early exit.
Owns(own, gone, t) == {m \in Mutexes : own[m] = t} \ gone

StateTypes ==
    /\ owner \in [Mutexes -> Threads \cup {None}]
    /\ locker_write \in BOOLEAN /\ interrupted \in BOOLEAN
    /\ mempool \in 0 .. MAX_MEMPOOL
    /\ lost \subseteq Mutexes
    /\ config \in [block_size : BlockSizes, can_interrupt : Interrupts]

Annotated == \A t \in Threads : Prog(todo[t], Owns(owner, lost, t), {})

\* A mutex that an early exit left taken stays so; of Blockchain::lock it is
\* locker_write that stays.
LostForGood ==
    /\ \A m \in lost \ {"bc"} : owner[m] \in Threads
    /\ "bc" \in lost => owner["bc"] = None
    /\ locker_write <=> owner["bc"] # None \/ "bc" \in lost

\* The inductive invariant.
LockInv ==
    /\ todo \in [Threads -> Seq(Instruction)]
    /\ StateTypes /\ Annotated /\ LostForGood

\* LockInv holds before any thread runs.
LEMMA LockInitInv == Init => LockInv
<1> SUFFICES ASSUME Init PROVE LockInv
  OBVIOUS
<1>1. StateTypes
  <2>1. 0 \in 0 .. MAX_MEMPOOL
    BY BoundAssumption
  <2>2. owner \in [Mutexes -> Threads \cup {None}]
    BY DEF Init
  <2> QED
    BY <2>1, <2>2 DEF Init, StateTypes
<1>2. todo \in [Threads -> Seq(Instruction)]
  BY EmptySeq DEF Init
<1>3. ASSUME NEW t \in Threads PROVE Prog(todo[t], Owns(owner, lost, t), {})
  <2>1. Owns(owner, lost, t) = {}
    BY NoneAssumption DEF Owns, Init
  <2>2. todo[t] = <<>>
    BY DEF Init
  <2> QED
    BY <2>1, <2>2, EmptyProg
<1>4. LostForGood
  <2>1. "bc" \in Mutexes
    BY DEF Mutexes
  <2> QED
    BY <2>1 DEF LostForGood, Init
<1> QED
  BY <1>1, <1>2, <1>3, <1>4 DEF LockInv, Annotated

\* A step of thread t that leaves the others their mutexes.
LEMMA OthersKeep ==
  ASSUME LockInv, NEW t \in Threads, NEW r,
         todo' = [todo EXCEPT ![t] = r], Prog(r, Owns(owner', lost', t), {}),
         \A u \in Threads \ {t} : Owns(owner', lost', u) = Owns(owner, lost, u)
  PROVE  /\ todo' \in [Threads -> Seq(Instruction)]
         /\ Annotated'
<1>1. r \in Seq(Instruction)
  BY DEF Prog
<1>2. todo' \in [Threads -> Seq(Instruction)]
  BY <1>1 DEF LockInv
<1>3. ASSUME NEW u \in Threads PROVE Prog(todo'[u], Owns(owner', lost', u), {})
  <2>1. CASE u = t
    <3>1. todo'[u] = r
      BY <2>1 DEF LockInv
    <3> QED
      BY <2>1, <3>1
  <2>2. CASE u # t
    <3>1. todo'[u] = todo[u] /\ Owns(owner', lost', u) = Owns(owner, lost, u)
      BY <2>2 DEF LockInv
    <3> QED
      BY <3>1 DEF LockInv, Annotated
  <2> QED
    BY <2>1, <2>2
<1> QED
  BY <1>2, <1>3 DEF Annotated

\* The instruction a thread is at is legal for the mutexes it holds.
LEMMA HeadLegal ==
  ASSUME LockInv, NEW t \in Threads, todo[t] # <<>>
  PROVE  /\ Legal(Head(todo[t]), Owns(owner, lost, t)) /\ Head(todo[t]) \in Instruction
         /\ Prog(Tail(todo[t]), Effect(Head(todo[t]), Owns(owner, lost, t)), {})
<1>1. Prog(todo[t], Owns(owner, lost, t), {})
  BY DEF LockInv, Annotated
<1> QED
  BY <1>1, TailProg

\* A thread between two sections holds nothing.
LEMMA IdleHoldsNothing ==
  ASSUME LockInv, NEW t \in Threads, todo[t] = <<>>
  PROVE  Owns(owner, lost, t) = {}
<1>1. Prog(<<>>, Owns(owner, lost, t), {})
  BY DEF LockInv, Annotated
<1> QED
  BY <1>1, EmptyProg

\* A thread enters a function: the function's code is a legal program for it.
LEMMA BeginInv ==
  ASSUME LockInv, NEW t \in Threads, Begin(t)
  PROVE  LockInv'
<1>1. PICK s \in Sections(t) : todo' = [todo EXCEPT ![t] = s]
  BY DEF Begin
<1>2. config.block_size \in Nat
  BY ConfigAssumption DEF LockInv, StateTypes
<1>3. Prog(s, {}, {})
  BY <1>2, SectionProg
<1>4. owner' = owner /\ lost' = lost /\ Owns(owner, lost, t) = {}
  BY IdleHoldsNothing DEF Begin
<1>5. todo' \in [Threads -> Seq(Instruction)] /\ Annotated'
  BY <1>1, <1>3, <1>4, OthersKeep
<1>6. StateTypes' /\ LostForGood'
  BY DEF Begin, LockInv, StateTypes, LostForGood
<1> QED
  BY <1>5, <1>6 DEF LockInv

\* Blockchain::lock is taken by waiting for locker_write to fall.
LEMMA EnterInv ==
  ASSUME LockInv, NEW t \in Threads, Enter(t)
  PROVE  LockInv'
<1> DEFINE x == Head(todo[t])
           H == Owns(owner, lost, t)
<1>1. /\ todo[t] # <<>> /\ x.op = "enter" /\ owner["bc"] = None /\ ~locker_write
      /\ owner' = [m \in Mutexes |-> IF m \in {"bc"} THEN t ELSE owner[m]]
      /\ locker_write' = TRUE /\ lost' = lost
      /\ todo' = [todo EXCEPT ![t] = Tail(todo[t])]
      /\ UNCHANGED <<mempool, interrupted, config>>
  BY DEF Enter, At, Owned, Step
<1>2. Legal(x, H) /\ Prog(Tail(todo[t]), Effect(x, H), {})
  BY <1>1, HeadLegal
<1>3. "bc" \notin lost /\ "bc" \in Mutexes
  BY <1>1 DEF LockInv, LostForGood, Mutexes
<1>4. Effect(x, H) = H \cup {"bc"}
  BY <1>1, <1>2 DEF Effect, Legal
<1>5. Owns(owner', lost', t) = H \cup {"bc"}
  BY <1>1, <1>3 DEF Owns
<1>6. \A u \in Threads \ {t} : Owns(owner', lost', u) = Owns(owner, lost, u)
  BY <1>1, <1>3, NoneAssumption DEF Owns
<1>7. todo' \in [Threads -> Seq(Instruction)] /\ Annotated'
  BY <1>1, <1>2, <1>4, <1>5, <1>6, OthersKeep
<1>8. StateTypes'
  BY <1>1 DEF LockInv, StateTypes
<1>9. LostForGood'
  BY <1>1, <1>3, NoneAssumption DEF LockInv, StateTypes, LostForGood
<1> QED
  BY <1>7, <1>8, <1>9 DEF LockInv

\* std::mutex::lock.
LEMMA DoLockInv ==
  ASSUME LockInv, NEW t \in Threads, DoLock(t)
  PROVE  LockInv'
<1> DEFINE x == Head(todo[t])
           H == Owns(owner, lost, t)
<1>1. /\ todo[t] # <<>> /\ x.op = "lock" /\ \A m \in x.on : owner[m] = None
      /\ owner' = [m \in Mutexes |-> IF m \in x.on THEN t ELSE owner[m]]
      /\ lost' = lost /\ todo' = [todo EXCEPT ![t] = Tail(todo[t])]
      /\ UNCHANGED <<locker_write, mempool, interrupted, config>>
  BY DEF DoLock, At, On, Owned, Step
<1>2. Legal(x, H) /\ Prog(Tail(todo[t]), Effect(x, H), {})
  BY <1>1, HeadLegal
<1>3. PICK m \in Mutexes \ {"bc"} : x.on = {m}
  BY <1>1, <1>2 DEF Legal
<1>4. owner[m] = None /\ m \notin lost
  BY <1>1, <1>3, NoneAssumption DEF LockInv, LostForGood
<1>5. Effect(x, H) = H \cup {m}
  BY <1>1, <1>3 DEF Effect
<1>6. Owns(owner', lost', t) = H \cup {m}
  BY <1>1, <1>3, <1>4 DEF Owns
<1>7. \A u \in Threads \ {t} : Owns(owner', lost', u) = Owns(owner, lost, u)
  BY <1>1, <1>3, <1>4, NoneAssumption DEF Owns
<1>8. todo' \in [Threads -> Seq(Instruction)] /\ Annotated'
  BY <1>1, <1>2, <1>5, <1>6, <1>7, OthersKeep
<1>9. StateTypes'
  BY <1>1 DEF LockInv, StateTypes
<1>10. LostForGood'
  <2>1. owner'["bc"] = owner["bc"]
    BY <1>1, <1>3 DEF Mutexes
  <2> QED
    BY <1>1, <1>3, <2>1 DEF LockInv, StateTypes, LostForGood
<1> QED
  BY <1>8, <1>9, <1>10 DEF LockInv

\* std::mutex::unlock.
LEMMA DoUnlockInv ==
  ASSUME LockInv, NEW t \in Threads, DoUnlock(t)
  PROVE  LockInv'
<1> DEFINE x == Head(todo[t])
           H == Owns(owner, lost, t)
<1>1. /\ todo[t] # <<>> /\ x.op = "unlock"
      /\ owner' = [m \in Mutexes |-> IF m \in x.on THEN None ELSE owner[m]]
      /\ lost' = lost /\ todo' = [todo EXCEPT ![t] = Tail(todo[t])]
      /\ UNCHANGED <<locker_write, mempool, interrupted, config>>
  BY DEF DoUnlock, At, On, Owned, Step
<1>2. Legal(x, H) /\ Prog(Tail(todo[t]), Effect(x, H), {})
  BY <1>1, HeadLegal
<1>3. x.on \subseteq H \ {"bc"}
  BY <1>1, <1>2 DEF Legal
<1>4. Effect(x, H) = H \ x.on
  BY <1>1 DEF Effect
<1>5. Owns(owner', lost', t) = H \ x.on
  BY <1>1, <1>3, NoneAssumption DEF Owns
<1>6. \A u \in Threads \ {t} : Owns(owner', lost', u) = Owns(owner, lost, u)
  BY <1>1, <1>3, NoneAssumption DEF Owns
<1>7. todo' \in [Threads -> Seq(Instruction)] /\ Annotated'
  BY <1>1, <1>2, <1>4, <1>5, <1>6, OthersKeep
<1>8. StateTypes'
  BY <1>1 DEF LockInv, StateTypes
<1>9. LostForGood'
  <2>1. owner'["bc"] = owner["bc"]
    BY <1>1, <1>3 DEF Mutexes
  <2> QED
    BY <1>1, <1>3, <2>1 DEF LockInv, StateTypes, LostForGood, Owns
<1> QED
  BY <1>7, <1>8, <1>9 DEF LockInv

\* A function returns early with its mutexes taken: they are lost.
LEMMA KeepInv ==
  ASSUME LockInv, NEW t \in Threads, Keep(t)
  PROVE  LockInv'
<1> DEFINE x == Head(todo[t])
           H == Owns(owner, lost, t)
<1>1. /\ todo[t] # <<>> /\ x.op = "keep" /\ owner' = owner
      /\ lost' = lost \cup x.on /\ todo' = [todo EXCEPT ![t] = Tail(todo[t])]
      /\ UNCHANGED <<locker_write, mempool, interrupted, config>>
  BY DEF Keep, At, On, Step
<1>2. Legal(x, H) /\ Prog(Tail(todo[t]), Effect(x, H), {})
  BY <1>1, HeadLegal
<1>3. x.on \subseteq H \ {"bc"}
  BY <1>1, <1>2 DEF Legal
<1>4. Effect(x, H) = H \ x.on
  BY <1>1 DEF Effect
<1>5. Owns(owner', lost', t) = H \ x.on
  BY <1>1 DEF Owns
<1>6. \A u \in Threads \ {t} : Owns(owner', lost', u) = Owns(owner, lost, u)
  BY <1>1, <1>3 DEF Owns
<1>7. todo' \in [Threads -> Seq(Instruction)] /\ Annotated'
  BY <1>1, <1>2, <1>4, <1>5, <1>6, OthersKeep
<1>8. StateTypes' /\ LostForGood'
  BY <1>1, <1>3 DEF LockInv, StateTypes, LostForGood, Owns
<1> QED
  BY <1>7, <1>8 DEF LockInv

\* leave, quit and the interrupted sleep: the thread gives Blockchain::lock back.
LEMMA GiveBackInv ==
  ASSUME LockInv, NEW t \in Threads, "bc" \in Owns(owner, lost, t),
         owner' = Owned({"bc"}, None),
         \/ lost' = lost /\ locker_write' = FALSE
         \/ lost' = lost \cup {"bc"} /\ locker_write' = locker_write,
         NEW r, todo' = [todo EXCEPT ![t] = r],
         Prog(r, Owns(owner, lost, t) \ {"bc"}, {}),
         interrupted' \in BOOLEAN, UNCHANGED <<mempool, config>>
  PROVE  LockInv'
<1>1. owner' = [m \in Mutexes |-> IF m \in {"bc"} THEN None ELSE owner[m]]
  BY DEF Owned
<1>2. owner["bc"] = t /\ "bc" \in Mutexes /\ "bc" \notin lost
  BY DEF Owns
<1>3. Owns(owner', lost', t) = Owns(owner, lost, t) \ {"bc"}
  BY <1>1, <1>2, NoneAssumption DEF Owns
<1>4. \A u \in Threads \ {t} : Owns(owner', lost', u) = Owns(owner, lost, u)
  BY <1>1, <1>2, NoneAssumption DEF Owns
<1>5. todo' \in [Threads -> Seq(Instruction)] /\ Annotated'
  BY <1>3, <1>4, OthersKeep
<1>6. StateTypes'
  BY <1>1, <1>2 DEF LockInv, StateTypes
<1>7. LostForGood'
  <2>1. owner'["bc"] = None /\ \A m \in Mutexes \ {"bc"} : owner'[m] = owner[m]
    BY <1>1, <1>2
  <2>2. locker_write = TRUE
    BY <1>2, NoneAssumption DEF LockInv, StateTypes, LostForGood
  <2> QED
    BY <1>2, <2>1, <2>2 DEF LockInv, StateTypes, LostForGood
<1> QED
  BY <1>5, <1>6, <1>7 DEF LockInv

\* Blockchain::lock is released, with or without resetting locker_write.
LEMMA LeaveInv ==
  ASSUME LockInv, NEW t \in Threads, Leave(t) \/ Quit(t)
  PROVE  LockInv'
<1> DEFINE x == Head(todo[t])
           H == Owns(owner, lost, t)
<1>1. /\ todo[t] # <<>> /\ x.op \in {"leave", "quit"} /\ owner' = Owned({"bc"}, None)
      /\ \/ lost' = lost /\ locker_write' = FALSE
         \/ lost' = lost \cup {"bc"} /\ locker_write' = locker_write
      /\ todo' = [todo EXCEPT ![t] = Tail(todo[t])]
      /\ interrupted' = interrupted /\ UNCHANGED <<mempool, config>>
  BY DEF Leave, Quit, At, Step
<1>2. Legal(x, H) /\ Prog(Tail(todo[t]), Effect(x, H), {})
  BY <1>1, HeadLegal
<1>3. Effect(x, H) = H \ {"bc"} /\ "bc" \in H
  BY <1>1, <1>2 DEF Effect, Legal
<1>4. interrupted' \in BOOLEAN
  BY <1>1 DEF LockInv, StateTypes
<1> QED
  BY <1>1, <1>2, <1>3, <1>4, GiveBackInv

\* mine_new_block sleeps for want of transactions, and may be interrupted there.
LEMMA SleepInv ==
  ASSUME LockInv, NEW t \in Threads, Sleep(t)
  PROVE  LockInv'
<1> DEFINE x == Head(todo[t])
           H == Owns(owner, lost, t)
<1>1. todo[t] # <<>> /\ x.op = "sleep" /\ interrupted' = FALSE
      /\ UNCHANGED <<locker_write, mempool, config>>
  BY DEF Sleep, At
<1>2. Legal(x, H) /\ Prog(Tail(todo[t]), Effect(x, H), {})
  BY <1>1, HeadLegal
<1>3. H = {"bc"} /\ Effect(x, H) = H
  BY <1>1, <1>2 DEF Effect, Legal
<1>4. CASE interrupted
  <2>1. /\ owner' = Owned({"bc"}, None) /\ lost' = lost \cup {"bc"}
        /\ todo' = [todo EXCEPT ![t] = <<>>]
    BY <1>4 DEF Sleep
  <2>2. Prog(<<>>, H \ {"bc"}, {})
    BY <1>3, EmptyProg
  <2> QED
    BY <1>1, <1>3, <2>1, <2>2, GiveBackInv
<1>5. CASE ~interrupted
  <2>1. owner' = owner /\ lost' = lost /\ todo' = [todo EXCEPT ![t] = Tail(todo[t])]
    BY <1>5 DEF Sleep, Step
  <2>2. todo' \in [Threads -> Seq(Instruction)] /\ Annotated'
    BY <1>2, <1>3, <2>1, OthersKeep
  <2>3. StateTypes' /\ LostForGood'
    BY <1>1, <2>1 DEF LockInv, StateTypes, LostForGood
  <2> QED
    BY <2>2, <2>3 DEF LockInv
<1> QED
  BY <1>4, <1>5

\* An access to shared data changes no lock.
LEMMA DoAccessInv ==
  ASSUME LockInv, NEW t \in Threads, DoAccess(t) \/ Interrupt(t)
  PROVE  LockInv'
<1> DEFINE x == Head(todo[t])
           H == Owns(owner, lost, t)
<1>1. /\ todo[t] # <<>> /\ x.op \in {"use", "peek", "interrupt"}
      /\ owner' = owner /\ lost' = lost /\ todo' = [todo EXCEPT ![t] = Tail(todo[t])]
      /\ UNCHANGED <<locker_write, config>>
  BY DEF DoAccess, Interrupt, At, Step
<1>2. Legal(x, H) /\ Prog(Tail(todo[t]), Effect(x, H), {}) /\ x \in Instruction
  BY <1>1, HeadLegal
<1>3. Effect(x, H) = H
  BY <1>1 DEF Effect
<1>4. todo' \in [Threads -> Seq(Instruction)] /\ Annotated'
  BY <1>1, <1>2, <1>3, OthersKeep
<1>5. interrupted' \in BOOLEAN /\ mempool' \in 0 .. MAX_MEMPOOL
  <2>1. CASE DoAccess(t)
    <3>1. PICK d \in x.adds : mempool + d >= 0 /\ mempool' = Min({mempool + d, MAX_MEMPOOL})
      BY <2>1 DEF DoAccess
    <3> DEFINE k == mempool + d
               S == {k, MAX_MEMPOOL}
    <3>2. k \in Nat /\ MAX_MEMPOOL \in Nat
      BY <1>2, <3>1, BoundAssumption DEF Instruction, LockInv, StateTypes
    <3> HIDE DEF k
    <3>3. \E a \in S : \A b \in S : a <= b
      BY <3>2
    <3>4. Min(S) \in S /\ \A b \in S : Min(S) <= b
      <4> HIDE DEF S
      <4> QED
        BY <3>3 DEF Min
    <3>5. Min(S) \in 0 .. MAX_MEMPOOL
      BY <3>2, <3>4
    <3> QED
      BY <2>1, <3>1, <3>5 DEF DoAccess, k, LockInv, StateTypes
  <2>2. CASE Interrupt(t)
    BY <2>2 DEF Interrupt, LockInv, StateTypes, MinerDead
  <2> QED
    BY <2>1, <2>2
<1>6. StateTypes' /\ LostForGood'
  BY <1>1, <1>5 DEF LockInv, StateTypes, LostForGood
<1> QED
  BY <1>4, <1>6 DEF LockInv

\* One transaction is taken out of the mempool, or the miner goes to sleep first.
LEMMA TakeInv ==
  ASSUME LockInv, NEW t \in Threads, Take(t)
  PROVE  LockInv'
<1> DEFINE x == Head(todo[t])
           H == Owns(owner, lost, t)
<1>1. /\ todo[t] # <<>> /\ x.op = "take" /\ owner' = owner /\ lost' = lost
      /\ UNCHANGED <<locker_write, interrupted, config>>
  BY DEF Take, At
<1>2. Legal(x, H) /\ Prog(Tail(todo[t]), Effect(x, H), {})
  BY <1>1, HeadLegal
<1>3. H = {"bc", "mempool"} /\ Effect(x, H) = H
  BY <1>1, <1>2 DEF Effect, Legal
<1>4. \A u \in Threads \ {t} : Owns(owner', lost', u) = Owns(owner, lost, u)
  BY <1>1
<1>5. CASE mempool > 0
  <2>1. todo' = [todo EXCEPT ![t] = Tail(todo[t])] /\ mempool' = mempool - 1
    BY <1>5 DEF Take, Step
  <2>2. todo' \in [Threads -> Seq(Instruction)] /\ Annotated'
    BY <1>1, <1>2, <1>3, <1>4, <2>1, OthersKeep
  <2>3. mempool' \in 0 .. MAX_MEMPOOL
    BY <1>5, <2>1, BoundAssumption DEF LockInv, StateTypes
  <2>4. StateTypes' /\ LostForGood'
    BY <1>1, <2>3 DEF LockInv, StateTypes, LostForGood
  <2> QED
    BY <2>2, <2>4 DEF LockInv
<1>6. CASE ~(mempool > 0)
  <2> DEFINE a == Unlock({"mempool"})
             b == Do("sleep", {})
             c == Lock("mempool")
             r == <<a, b, c>> \o todo[t]
  <2>1. todo' = [todo EXCEPT ![t] = r] /\ mempool' = mempool
    BY <1>6 DEF Take
  <2>2. /\ {"mempool"} \in SUBSET Mutexes /\ {} \in SUBSET Mutexes /\ {"bc"} \in SUBSET Mutexes
        /\ H \in SUBSET Mutexes /\ {"mempool"} \subseteq H \ {"bc"} /\ {"bc"} = H \ {"mempool"}
        /\ H = {"bc"} \cup {"mempool"} /\ "mempool" \in Mutexes \ {"bc"}
        /\ \A k \in {"bc"} : Rank[k] < Rank["mempool"]
    BY <1>3 DEF Mutexes, Rank
  <2>3. Prog(todo[t], H, {})
    BY DEF LockInv, Annotated
  <2> HIDE DEF H
  <2>4. Prog(<<a>>, H, {"bc"})
    BY <2>2, DoProg DEF Ops, Unlock
  <2>5. Prog(<<b>>, {"bc"}, {"bc"})
    BY <2>2, DoProg DEF Ops
  <2>6. Prog(<<c>>, {"bc"}, H)
    BY <2>2, DoProg DEF Ops, Lock
  <2> HIDE DEF a, b, c
  <2>7. Prog(<<a, b, c>>, H, H)
    <3>1. <<a, b, c>> = <<a>> \o <<b>> \o <<c>>
      BY InARow
    <3> QED
      BY <2>4, <2>5, <2>6, <3>1, ConcatProg
  <2>8. Prog(r, H, {})
    BY <2>3, <2>7, ConcatProg
  <2> HIDE DEF r
  <2>9. todo' \in [Threads -> Seq(Instruction)] /\ Annotated'
    BY <1>1, <1>4, <2>1, <2>8, OthersKeep DEF H
  <2>10. StateTypes' /\ LostForGood'
    BY <1>1, <2>1 DEF LockInv, StateTypes, LostForGood
  <2> QED
    BY <2>9, <2>10 DEF LockInv
<1> QED
  BY <1>5, <1>6

\* Every step keeps LockInv.
LEMMA LockNextInv == LockInv /\ [Next]_vars => LockInv'
<1> SUFFICES ASSUME LockInv, [Next]_vars PROVE LockInv'
  OBVIOUS
<1>1. CASE UNCHANGED vars
  BY <1>1 DEF vars, LockInv, StateTypes, Annotated, LostForGood
<1>2. ASSUME NEW t \in Threads, Begin(t) \/ Run(t) \/ Acquire(t) PROVE LockInv'
  BY <1>2, BeginInv, EnterInv, DoLockInv, DoUnlockInv, KeepInv, LeaveInv, SleepInv,
     DoAccessInv, TakeInv DEF Run, Acquire
<1> QED
  BY <1>1, <1>2 DEF Next

------------------------------------------------------------------------------
\* Two threads that may work on the same structure hold a mutex in common.
LEMMA CommonMutex ==
  ASSUME NEW d \in Data, NEW H, NEW K, Guarded(d, H), Guarded(d, K)
  PROVE  \E m : m \in H /\ m \in K
BY DEF Guarded, Data, Mutexes

\* The invariant holds in every state of the threads.
LEMMA LockInvariant == Spec => []LockInv
BY LockInitInv, LockNextInv, PTL DEF Spec

\* Threads never wait for each other in a circle, over any number of mutexes,
\* while no early exit has left one taken: all sections of transactions.cpp and
\* Blockchain.cpp take their mutexes in the order of Rank.
THEOREM DeadlockFreedom == Spec => []NoCircularWait
<1>1. LockInv => NoCircularWait
  <2> SUFFICES ASSUME LockInv, NEW S \in SUBSET Threads, S # {},
                      \A t \in S : \E u \in S : WaitsFor(t, u), lost = {}
               PROVE  FALSE
    BY DEF NoCircularWait
  <2> DEFINE Wanted == {k \in Mutexes : \E t \in S :
                                 k \in On(t) /\ (At(t, "lock") \/ At(t, "enter"))}
             Left == {7 - Rank[m] : m \in Wanted}
  <2>1. \A m \in Mutexes : Rank[m] \in 0 .. 7
    BY DEF Rank, Mutexes
  <2>2. ASSUME NEW t \in S
        PROVE  \E m \in Mutexes, u \in S :
                  /\ m \in On(t) /\ (At(t, "lock") \/ At(t, "enter")) /\ owner[m] = u
                  /\ \A k \in Owns(owner, lost, t) : Rank[k] < Rank[m]
    <3>1. PICK u \in S : WaitsFor(t, u)
      OBVIOUS
    <3>2. PICK m \in On(t) : owner[m] = u /\ (At(t, "lock") \/ At(t, "enter"))
      BY <3>1 DEF WaitsFor
    <3>3. Legal(Head(todo[t]), Owns(owner, lost, t)) /\ Head(todo[t]).op \in {"lock", "enter"}
      BY <3>2, HeadLegal DEF At
    <3>4. m \in Mutexes /\ \A k \in Owns(owner, lost, t) : Rank[k] < Rank[m]
      BY <3>2, <3>3 DEF Legal, On, Mutexes
    <3> QED
      BY <3>2, <3>4
  <2>3. Wanted # {}
    <3>1. PICK t \in S : TRUE
      OBVIOUS
    <3>2. PICK m \in Mutexes : m \in On(t) /\ (At(t, "lock") \/ At(t, "enter"))
      BY <2>2
    <3> QED
      BY <3>2
  <2>4. Left \subseteq Nat /\ Left # {}
    <3> HIDE DEF Wanted
    <3>1. Wanted \subseteq Mutexes
      BY DEF Wanted
    <3> QED
      BY <2>1, <2>3, <3>1
  <2>5. PICK n \in Left : \A k \in Left : n <= k
    <3> HIDE DEF Left
    <3> QED
      BY <2>4, LeastNat
  <2>6. PICK m \in Mutexes, t \in S :
           n = 7 - Rank[m] /\ m \in On(t) /\ (At(t, "lock") \/ At(t, "enter"))
    BY <2>5
  <2>7. PICK v \in S : owner[m] = v
    <3>1. PICK k \in Mutexes, u \in S : k \in On(t) /\ owner[k] = u
      BY <2>2
    <3>2. Legal(Head(todo[t]), Owns(owner, lost, t)) /\ Head(todo[t]).op \in {"lock", "enter"}
      BY <2>6, HeadLegal DEF At
    <3>3. k = m
      BY <2>6, <3>1, <3>2 DEF Legal, On
    <3> QED
      BY <3>1, <3>3
  <2>8. PICK k \in Mutexes : /\ k \in On(v) /\ (At(v, "lock") \/ At(v, "enter"))
                             /\ \A j \in Owns(owner, lost, v) : Rank[j] < Rank[k]
    BY <2>2
  <2>9. Rank[m] < Rank[k]
    BY <2>7, <2>8 DEF Owns
  <2>10. 7 - Rank[k] \in Left
    BY <2>8
  <2>11. n <= 7 - Rank[k]
    <3> HIDE DEF Left
    <3> QED
      BY <2>5, <2>10
  <2> QED
    BY <2>1, <2>6, <2>9, <2>11
<1> QED
  BY <1>1, LockInvariant, PTL

\* Two sections never work on the same structure at once: each holds a mutex
\* of the structure, and of pending and mempool two of Blockchain::lock,
\* next_seqs_mtx and pending_transactions_mtx, so that any two have one in
\* common.
THEOREM RaceFreedom == Spec => []NoDataRace
<1>1. LockInv => NoDataRace
  <2> SUFFICES ASSUME LockInv, NEW t \in Threads, NEW u \in Threads, t # u,
                      At(t, "use"), At(u, "use"),
                      NEW d \in Head(todo[t]).write, d \in On(u)
               PROVE  FALSE
    BY DEF NoDataRace
  <2>1. /\ Legal(Head(todo[t]), Owns(owner, lost, t)) /\ Head(todo[t]) \in Instruction
        /\ Legal(Head(todo[u]), Owns(owner, lost, u))
        /\ Head(todo[t]).op = "use" /\ Head(todo[u]).op = "use"
    BY HeadLegal DEF At
  <2>2. d \in Data /\ Guarded(d, Owns(owner, lost, t)) /\ Guarded(d, Owns(owner, lost, u))
    BY <2>1 DEF Legal, On, Instruction
  <2>3. PICK m : m \in Owns(owner, lost, t) /\ m \in Owns(owner, lost, u)
    BY <2>2, CommonMutex
  <2> QED
    BY <2>3 DEF Owns
<1> QED
  BY <1>1, LockInvariant, PTL

\* A thread that has finished its section holds only what a known early exit
\* of remove_from_mempool_and_pending, verify_transaction_from_block or
\* mine_new_block left taken.
THEOREM LeakSafety == Spec => []OnlyKnownLeaks
<1>1. LockInv => OnlyKnownLeaks
  <2> SUFFICES ASSUME LockInv PROVE OnlyKnownLeaks
    OBVIOUS
  <2>1. ASSUME NEW t \in Threads, NEW i \in 1 .. Len(todo[t])
        PROVE  todo[t][i].on \subseteq Data /\ todo[t][i].write \subseteq todo[t][i].on
    <3>1. Prog(todo[t], Owns(owner, lost, t), {})
      BY DEF LockInv, Annotated
    <3>2. PICK H : Legal(todo[t][i], H)
      BY <3>1 DEF Prog
    <3> QED
      BY <3>2 DEF Legal, Instruction
  <2>2. TypeOK
    BY <2>1 DEF TypeOK, LockInv, StateTypes
  <2>3. ASSUME NEW t \in Threads, todo[t] = <<>>, NEW m \in Mutexes, owner[m] = t
        PROVE  m \in lost
    BY <2>3, IdleHoldsNothing DEF Owns
  <2>4. locker_write /\ owner["bc"] = None => "bc" \in lost
    BY DEF LockInv, LostForGood
  <2> QED
    BY <2>2, <2>3, <2>4 DEF OnlyKnownLeaks
<1> QED
  BY <1>1, LockInvariant, PTL
=============================================================================
