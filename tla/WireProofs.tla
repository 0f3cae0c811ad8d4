------------------------------ MODULE WireProofs ------------------------------
(***************************************************************************)
(* Proofs about what happens between nodes: the sending side of a          *)
(* connection (PeerConn), the list of peers (PeerList), the pings (Pings)  *)
(* and the parameters of a node (Configuration), for every number of       *)
(* messages, peers, nodes and lines.                                       *)
(***************************************************************************)
EXTENDS PeerConn, Pings, PeerList, Configuration, NatLemmas, SequenceTheorems, FiniteSetTheorems

------------------------------------------------------------------------------
\* PeerConn.  The inductive invariant of a connection.

\* A write of a live session is only under way on a connection; a peer whose
\* session connects, or one of whose connects was dropped, has no write left
\* behind.
NoLateWrite ==
    /\ connecting => session
    /\ ~connected => \A i \in 1 .. Len(writing) : ~writing[i].live
    /\ stale > 0 \/ connecting => writing = <<>> /\ ~connected

\* Until a connection crosses messages in its strand, there is one write at
\* most, of the first message, and strand_proceed is only at the head of the
\* strand, when no write is under way.
InStep ==
    "crossed" \notin upset =>
        /\ Len(writing) <= 1
        /\ writing # <<>> => m # <<>> /\ writing[1].msg = Head(m)
        /\ writing # <<>> /\ upset = {} => writing[1].buf
        /\ \A i \in 2 .. Len(tasks) : tasks[i] # Proceed
        /\ tasks # <<>> /\ Head(tasks) = Proceed => writing = <<>>

ConnInv == ConnTypeOK /\ ConnectedIsUp /\ NoLateWrite /\ InStep

\* A function on 1 .. n is a sequence of length n.
LEMMA FunctionIsSeq ==
    ASSUME NEW S, NEW n \in Nat, NEW f \in [1 .. n -> S]
    PROVE  f \in Seq(S) /\ Len(f) = n
    OBVIOUS

\* One write whose session is dropped, or whose buffer goes.
LEMMA WriteFacts ==
    ASSUME NEW w \in Write, NEW b \in BOOLEAN
    PROVE  LET d == [w EXCEPT !.live = b]
               u == [w EXCEPT !.buf = b]
           IN  /\ d \in Write /\ d.live = b /\ d.buf = w.buf /\ d.msg = w.msg
               /\ u \in Write /\ u.live = w.live /\ u.buf = b /\ u.msg = w.msg
    BY Zenon DEF Write

\* What Dropped, the loss of a buffer and handle_write's pop do to the writes
\* under way: as many of the same messages, dead or without their buffer.
LEMMA DroppedFacts ==
    ASSUME NEW ws \in Seq(Write)
    PROVE  /\ Dropped(ws) \in Seq(Write) /\ Len(Dropped(ws)) = Len(ws)
           /\ \A i \in 1 .. Len(ws) : /\ Dropped(ws)[i].live = FALSE
                                      /\ Dropped(ws)[i].buf = ws[i].buf
                                      /\ Dropped(ws)[i].msg = ws[i].msg
  <1> DEFINE d(i) == [ws[i] EXCEPT !.live = FALSE]
  <1>1. \A i \in 1 .. Len(ws) :
            /\ d(i) \in Write /\ d(i).live = FALSE
            /\ d(i).buf = ws[i].buf /\ d(i).msg = ws[i].msg
    <2> SUFFICES ASSUME NEW i \in 1 .. Len(ws)
                 PROVE  /\ d(i) \in Write /\ d(i).live = FALSE
                        /\ d(i).buf = ws[i].buf /\ d(i).msg = ws[i].msg
        OBVIOUS
    <2>1. ws[i] \in Write
        BY ElementOfSeq
    <2>2. QED  BY <2>1, WriteFacts, Zenon
  <1> HIDE DEF d
  <1>2. [i \in 1 .. Len(ws) |-> d(i)] \in [1 .. Len(ws) -> Write]
      BY <1>1
  <1>3. Len(ws) \in Nat
      BY LenProperties
  <1>4. Dropped(ws) = [i \in 1 .. Len(ws) |-> d(i)]
      BY Zenon DEF Dropped, d
  <1> DEFINE f == Dropped(ws)
  <1>5. f \in [1 .. Len(ws) -> Write]
      BY <1>2, <1>4, Zenon
  <1> HIDE DEF f
  <1>8. f \in Seq(Write) /\ Len(f) = Len(ws)
      BY <1>3, <1>5, FunctionIsSeq
  <1>6. \A i \in 1 .. Len(ws) : Dropped(ws)[i] = d(i)
      BY <1>4, Zenon
  <1>7. QED  BY <1>1, <1>6, <1>8, Zenon DEF f

\* The writes ws with what is left of their buffers, b.
Buffered(ws, b) == [i \in 1 .. Len(ws) |-> [ws[i] EXCEPT !.buf = b[i]]]

\* Whatever is left of the buffers, the writes under way keep their number, session and message.
LEMMA BufferedFacts ==
    ASSUME NEW ws \in Seq(Write), NEW b \in [1 .. Len(ws) -> BOOLEAN]
    PROVE  /\ Buffered(ws, b) \in Seq(Write) /\ Len(Buffered(ws, b)) = Len(ws)
           /\ \A i \in 1 .. Len(ws) : /\ Buffered(ws, b)[i].live = ws[i].live
                                      /\ Buffered(ws, b)[i].msg = ws[i].msg
  <1> DEFINE d(i) == [ws[i] EXCEPT !.buf = b[i]]
  <1>1. \A i \in 1 .. Len(ws) :
            d(i) \in Write /\ d(i).live = ws[i].live /\ d(i).msg = ws[i].msg
    <2> SUFFICES ASSUME NEW i \in 1 .. Len(ws)
                 PROVE  d(i) \in Write /\ d(i).live = ws[i].live /\ d(i).msg = ws[i].msg
        OBVIOUS
    <2> DEFINE w == ws[i]
               x == b[i]
    <2>1. w \in Write
        BY ElementOfSeq
    <2>2. x \in BOOLEAN
        BY Zenon
    <2> HIDE DEF w, x
    <2>3. LET u == [w EXCEPT !.buf = x]
          IN  u \in Write /\ u.live = w.live /\ u.msg = w.msg
        BY <2>1, <2>2, Zenon DEF Write
    <2>4. QED  BY <2>3, Zenon DEF w, x
  <1> HIDE DEF d
  <1>2. [i \in 1 .. Len(ws) |-> d(i)] \in [1 .. Len(ws) -> Write]
      BY <1>1
  <1>3. Len(ws) \in Nat
      BY LenProperties
  <1>4. Buffered(ws, b) = [i \in 1 .. Len(ws) |-> d(i)]
      BY Zenon DEF Buffered, d
  <1> DEFINE f == Buffered(ws, b)
  <1>5. f \in [1 .. Len(ws) -> Write]
      BY <1>2, <1>4, Zenon
  <1> HIDE DEF f
  <1>8. f \in Seq(Write) /\ Len(f) = Len(ws)
      BY <1>3, <1>5, FunctionIsSeq
  <1>6. \A i \in 1 .. Len(ws) : Buffered(ws, b)[i] = d(i)
      BY <1>4, Zenon
  <1>7. QED  BY <1>1, <1>6, <1>8, Zenon DEF f

Unbuffered(ws) == [i \in 1 .. Len(ws) |-> [ws[i] EXCEPT !.buf = FALSE]]

\* The same when no buffer is left: m was cleared.
LEMMA UnbufferedFacts ==
    ASSUME NEW ws \in Seq(Write)
    PROVE  /\ Unbuffered(ws) \in Seq(Write) /\ Len(Unbuffered(ws)) = Len(ws)
           /\ \A i \in 1 .. Len(ws) : /\ Unbuffered(ws)[i].live = ws[i].live
                                      /\ Unbuffered(ws)[i].msg = ws[i].msg
  <1> DEFINE b == [i \in 1 .. Len(ws) |-> FALSE]
  <1>1. b \in [1 .. Len(ws) -> BOOLEAN]
      BY Zenon
  <1>2. Unbuffered(ws) = Buffered(ws, b)
      BY Zenon DEF Unbuffered, Buffered
  <1> HIDE DEF b
  <1>3. QED  BY <1>1, <1>2, BufferedFacts, Zenon

\* The same when the front of m, the buffer of the last write, was removed.
LEMMA PoppedFacts ==
    ASSUME NEW ws \in Seq(Write)
    PROVE  /\ Popped(ws) \in Seq(Write) /\ Len(Popped(ws)) = Len(ws)
           /\ \A i \in 1 .. Len(ws) : /\ Popped(ws)[i].live = ws[i].live
                                      /\ Popped(ws)[i].msg = ws[i].msg
  <1> DEFINE b == [i \in 1 .. Len(ws) |-> ws[i].buf /\ (m = <<>> \/ ws[i].msg # Head(m))]
  <1>1. b \in [1 .. Len(ws) -> BOOLEAN]
      BY Zenon
  <1>2. Popped(ws) = Buffered(ws, b)
      BY Zenon DEF Popped, Buffered
  <1> HIDE DEF b
  <1>3. QED  BY <1>1, <1>2, BufferedFacts, Zenon

\* The writes that are left when the i-th has completed.
LEMMA RemoveFacts ==
    ASSUME NEW S, NEW ws \in Seq(S), NEW i \in 1 .. Len(ws)
    PROVE  /\ RemoveAt(ws, i) \in Seq(S) /\ Len(RemoveAt(ws, i)) = Len(ws) - 1
           /\ \A j \in 1 .. Len(ws) - 1 :
                  RemoveAt(ws, i)[j] = ws[IF j < i THEN j ELSE j + 1]
  <1> DEFINE s == SubSeq(ws, 1, i - 1)
             t == SubSeq(ws, i + 1, Len(ws))
  <1>1. s \in Seq(S) /\ Len(s) = i - 1 /\ \A j \in 1 .. i - 1 : s[j] = ws[j]
      OBVIOUS
  <1>2. t \in Seq(S) /\ Len(t) = Len(ws) - i /\ \A j \in 1 .. Len(ws) - i : t[j] = ws[i + j]
      OBVIOUS
  <1>3. RemoveAt(ws, i) = s \o t
      BY Zenon DEF RemoveAt
  <1> HIDE DEF s, t
  <1>4. /\ s \o t \in Seq(S) /\ Len(s \o t) = Len(s) + Len(t)
        /\ \A j \in 1 .. Len(s) + Len(t) :
               (s \o t)[j] = IF j <= Len(s) THEN s[j] ELSE t[j - Len(s)]
      BY <1>1, <1>2, ConcatProperties, Zenon
  <1>5. ASSUME NEW j \in 1 .. Len(ws) - 1
        PROVE  RemoveAt(ws, i)[j] = ws[IF j < i THEN j ELSE j + 1]
    <2>1. CASE j < i
        BY <2>1, <1>1, <1>2, <1>3, <1>4
    <2>2. CASE j >= i
      <3>1. j - (i - 1) \in 1 .. Len(ws) - i /\ i + (j - (i - 1)) = j + 1
          BY <2>2
      <3>2. t[j - (i - 1)] = ws[j + 1]
          BY <3>1, <1>2
      <3>3. (s \o t)[j] = t[j - (i - 1)]
          BY <2>2, <1>1, <1>2, <1>4
      <3>4. (IF j < i THEN j ELSE j + 1) = j + 1
          BY <2>2
      <3>5. QED  BY <3>2, <3>3, <3>4, <1>3, Zenon
    <2>3. QED  BY <2>1, <2>2
  <1>6. QED  BY <1>1, <1>2, <1>3, <1>4, <1>5

\* The queue without its first message.
LEMMA PopFrontFacts ==
    ASSUME NEW S, NEW q \in Seq(S)
    PROVE  /\ PopFront(q) \in Seq(S)
           /\ q # <<>> => Len(PopFront(q)) = Len(q) - 1
    BY DEF PopFront

\* The messages, and strand_proceed, which is none of them.
LEMMA TaskFacts ==
    /\ MAX_POSTS \in Nat /\ Proceed \notin Messages /\ Garbage \notin Messages
    /\ \A n \in Messages : n # Proceed
    BY BoundsAssumption DEF Messages, Proceed, Garbage

\* A peer that is not connected, with nothing left of dropped sessions, has no
\* write under way.
LEMMA IdleIsSilent ==
    ASSUME ConnTypeOK, NoLateWrite, ~connected, Quiet
    PROVE  writing = <<>>
  <1>1. \A i \in 1 .. Len(writing) : writing[i].live /\ ~writing[i].live
      BY Zenon DEF NoLateWrite, Quiet
  <1>2. 1 \notin 1 .. Len(writing)
      BY <1>1, Zenon
  <1>3. QED  BY <1>2 DEF ConnTypeOK

\* Without writes there is nothing to drop or to lose the buffer of.
LEMMA NoWrites ==
    /\ Dropped(<<>>) = <<>> /\ Unbuffered(<<>>) = <<>> /\ Popped(<<>>) = <<>>
  <1>1. <<>> \in Seq(Write) /\ Len(<<>>) = 0
      OBVIOUS
  <1>2. Dropped(<<>>) \in Seq(Write) /\ Len(Dropped(<<>>)) = 0
      BY <1>1, DroppedFacts
  <1>3. Unbuffered(<<>>) \in Seq(Write) /\ Len(Unbuffered(<<>>)) = 0
      BY <1>1, UnbufferedFacts
  <1>4. Popped(<<>>) \in Seq(Write) /\ Len(Popped(<<>>)) = 0
      BY <1>1, PoppedFacts
  <1>5. QED  BY <1>2, <1>3, <1>4, EmptySeq

\* tcp_server::write: on a connection one more write, of the first message;
\* without one the queue is emptied by handle_write.
LEMMA WrittenFacts ==
    ASSUME NEW q \in Seq(Messages), q # <<>>, NEW ws \in Seq(Write), Written(q, ws)
    PROVE  /\ m' \in Seq(Messages) /\ writing' \in Seq(Write)
           /\ \/ /\ session /\ connected /\ strand
                 /\ m' = q
                 /\ writing' = Append(ws, [msg |-> Head(q), live |-> TRUE, buf |-> TRUE])
              \/ /\ ~(session /\ connected /\ strand)
                 /\ m' = <<>> /\ writing' = Unbuffered(ws)
  <1>1. First(q) = Head(q) /\ Head(q) \in Messages
      BY DEF First
  <1>2. [msg |-> Head(q), live |-> TRUE, buf |-> TRUE] \in Write
      BY <1>1, Zenon DEF Write
  <1>3. CASE session /\ connected /\ strand
    <2>1. /\ m' = q
          /\ writing' = Append(ws, [msg |-> Head(q), live |-> TRUE, buf |-> TRUE])
        BY <1>1, <1>3, Zenon DEF Written
    <2>2. writing' \in Seq(Write)
        BY <1>2, <2>1
    <2>3. QED  BY <1>3, <2>1, <2>2, Zenon
  <1>4. CASE ~(session /\ connected /\ strand)
    <2>1. m' = <<>> /\ writing' = Unbuffered(ws)
        BY <1>4, Zenon DEF Written, Unbuffered
    <2>2. m' \in Seq(Messages)
        BY <2>1
    <2>3. writing' \in Seq(Write)
        BY <2>1, UnbufferedFacts, Zenon
    <2>4. QED  BY <1>4, <2>1, <2>2, <2>3, Zenon
  <1>5. QED  BY <1>3, <1>4, Zenon

------------------------------------------------------------------------------
\* The passes and callbacks that connect.

\* run_network keeps the invariant: it only connects a peer without writes.
LEMMA ConnectPassInv ==
    ASSUME ConnInv, ConnectPass
    PROVE  ConnInv'
  <1>1. writing = <<>>
      BY IdleIsSilent, Zenon DEF ConnInv, ConnectPass
  <1>2. writing' = <<>>
      BY <1>1, NoWrites, Zenon DEF ConnectPass
  <1>3. ConnTypeOK'
    <2>1. stale' \in 0 .. 1
        BY DEF ConnInv, ConnTypeOK, ConnectPass, Quiet, DropConnect
    <2>2. writing' \in Seq(Write)
        BY <1>2
    <2>3. {connected', session', strand', connecting'} \subseteq BOOLEAN
        BY Zenon DEF ConnInv, ConnTypeOK, ConnectPass
    <2>4. QED  BY <2>1, <2>2, <2>3 DEF ConnInv, ConnTypeOK, ConnectPass
  <1>4. ConnectedIsUp'
      BY Zenon DEF ConnInv, ConnectedIsUp, ConnectPass
  <1>5. NoLateWrite'
      BY <1>2 DEF NoLateWrite, ConnectPass
  <1>6. InStep'
      BY <1>2 DEF ConnInv, InStep, ConnectPass
  <1>7. QED  BY <1>3, <1>4, <1>5, <1>6, Zenon DEF ConnInv

\* A connection that comes up finds no write under way, and strand_proceed
\* alone in the strand or is counted as crossed.
LEMMA ConnectedInv ==
    ASSUME ConnInv, Connected
    PROVE  ConnInv'
  <1>1. writing = <<>> /\ writing' = writing
      BY DEF ConnInv, NoLateWrite, Connected
  <1>2. tasks' \in Seq(Messages \cup {Proceed})
      BY DEF ConnInv, ConnTypeOK, Connected
  <1>3. ConnTypeOK'
    <2>1. {connected', session', strand', connecting'} \subseteq BOOLEAN
        BY Zenon DEF ConnInv, ConnTypeOK, Connected
    <2>2. upset' \subseteq {"crossed", "moved"}
        BY DEF ConnInv, ConnTypeOK, Connected
    <2>3. QED  BY <1>2, <2>1, <2>2 DEF ConnInv, ConnTypeOK, Connected
  <1>4. ConnectedIsUp'
    <2>1. session /\ strand
        BY Zenon DEF ConnInv, ConnectedIsUp, NoLateWrite, Connected
    <2>2. QED  BY <2>1, Zenon DEF ConnectedIsUp, Connected
  <1>5. NoLateWrite'
      BY <1>1 DEF ConnInv, NoLateWrite, Connected, Quiet
  <1>6. InStep'
    <2> SUFFICES ASSUME "crossed" \notin upset'
                 PROVE  InStep'
        BY DEF InStep
    <2>1. tasks = <<>>
        BY Zenon DEF Connected
    <2>2. Len(tasks') = 1
        BY <2>1 DEF Connected
    <2>3. \A i \in 2 .. Len(tasks') : tasks'[i] # Proceed
        BY <2>2
    <2>4. writing' = <<>> /\ Len(writing') <= 1
        BY <1>1
    <2>5. QED  BY <2>3, <2>4, Zenon DEF InStep
  <1>7. QED  BY <1>3, <1>4, <1>5, <1>6, Zenon DEF ConnInv

\* A refused connect, or the late callback of a dropped one, closes a peer
\* without writes.
LEMMA ConnectFailedInv ==
    ASSUME ConnInv, ConnectFailed
    PROVE  ConnInv'
  <1>1. stale \in 0 .. 1 /\ (stale > 0 \/ connecting)
      BY DEF ConnInv, ConnTypeOK, ConnectFailed
  <1>2. writing = <<>>
      BY <1>1, Zenon DEF ConnInv, NoLateWrite
  <1>3. /\ session' = FALSE /\ strand' = FALSE /\ connected' = FALSE
        /\ connecting' = FALSE /\ writing' = Dropped(writing)
      BY Zenon DEF ConnectFailed, Closed
  <1>4. writing' = <<>>
      BY <1>2, <1>3, NoWrites, Zenon
  <1>5. UNCHANGED <<m, tasks, posted, sent, upset>>
      BY Zenon DEF ConnectFailed
  <1>6. stale' \in 0 .. 1
      BY <1>1 DEF ConnectFailed, Closed, DropConnect
  <1>7. ConnTypeOK'
    <2>1. {connected', session', strand', connecting'} \subseteq BOOLEAN
        BY <1>3, Zenon
    <2>2. writing' \in Seq(Write)
        BY <1>4
    <2>3. QED  BY <1>5, <1>6, <2>1, <2>2 DEF ConnInv, ConnTypeOK
  <1>8. ConnectedIsUp' /\ NoLateWrite'
      BY <1>3, <1>4 DEF ConnectedIsUp, NoLateWrite
  <1>9. InStep'
      BY <1>4, <1>5 DEF ConnInv, InStep
  <1>10. QED  BY <1>7, <1>8, <1>9, Zenon DEF ConnInv

------------------------------------------------------------------------------
\* Posting, the strand, and the vector of peers.

\* write_to_one_peer and the others add a message behind all tasks.
LEMMA PostInv ==
    ASSUME ConnInv, Post
    PROVE  ConnInv'
  <1>1. /\ posted' \in Messages /\ posted' \in 0 .. MAX_POSTS
      BY TaskFacts DEF ConnInv, ConnTypeOK, Post, Messages
  <1>2. UNCHANGED <<conn, m, writing, sent, upset>>
      BY Zenon DEF Post
  <1>3. tasks \in Seq(Messages \cup {Proceed})
      BY DEF ConnInv, ConnTypeOK
  <1>4. tasks' = tasks \/ tasks' = Append(tasks, posted')
      BY Zenon DEF Post
  <1>5. tasks' \in Seq(Messages \cup {Proceed})
      BY <1>1, <1>3, <1>4
  <1>6. ConnTypeOK'
      BY <1>1, <1>2, <1>5 DEF ConnInv, ConnTypeOK, conn
  <1>7. ConnectedIsUp' /\ NoLateWrite'
      BY <1>2, Zenon DEF ConnInv, ConnectedIsUp, NoLateWrite, conn
  <1>8. InStep'
    <2> SUFFICES ASSUME "crossed" \notin upset
                 PROVE  /\ \A i \in 2 .. Len(tasks') : tasks'[i] # Proceed
                        /\ tasks' # <<>> /\ Head(tasks') = Proceed => writing = <<>>
        BY <1>2 DEF ConnInv, InStep
    <2>1. /\ \A i \in 2 .. Len(tasks) : tasks[i] # Proceed
          /\ tasks # <<>> /\ Head(tasks) = Proceed => writing = <<>>
        BY DEF ConnInv, InStep
    <2>2. posted' # Proceed
        BY <1>1, TaskFacts
    <2>3. CASE tasks' = tasks
        BY <2>1, <2>3
    <2>4. CASE tasks' = Append(tasks, posted')
        BY <1>3, <2>1, <2>2, <2>4
    <2>5. QED  BY <1>4, <2>3, <2>4
  <1>9. QED  BY <1>6, <1>7, <1>8, Zenon DEF ConnInv

\* A vector of peers that moves takes the buffers away, nothing else.
LEMMA PeersGrowInv ==
    ASSUME ConnInv, PeersGrow
    PROVE  ConnInv'
  <1>1. writing' = Unbuffered(writing) /\ UNCHANGED <<conn, m, tasks, posted, sent>>
      BY Zenon DEF PeersGrow, Unbuffered
  <1>2. writing \in Seq(Write)
      BY DEF ConnInv, ConnTypeOK
  <1>3. /\ writing' \in Seq(Write) /\ Len(writing') = Len(writing)
        /\ \A i \in 1 .. Len(writing) : /\ writing'[i].live = writing[i].live
                                        /\ writing'[i].msg = writing[i].msg
      BY <1>1, <1>2, UnbufferedFacts, Zenon
  <1>4. writing' = <<>> <=> writing = <<>>
      BY <1>2, <1>3
  <1>5. upset' = upset \cup {"moved"}
      BY DEF PeersGrow
  <1>6. ConnTypeOK'
      BY <1>1, <1>3, <1>5 DEF ConnInv, ConnTypeOK, conn
  <1>7. ConnectedIsUp' /\ NoLateWrite'
    <2>1. ConnectedIsUp'
        BY <1>1, Zenon DEF ConnInv, ConnectedIsUp, conn
    <2>2. ~connected => \A i \in 1 .. Len(writing') : ~writing'[i].live
        BY <1>3, Zenon DEF ConnInv, NoLateWrite
    <2>3. QED  BY <1>1, <1>4, <2>1, <2>2, Zenon DEF ConnInv, NoLateWrite, conn
  <1>8. InStep'
    <2>1. upset' # {}
        BY <1>5
    <2>2. writing # <<>> => 1 \in 1 .. Len(writing)
        BY <1>2
    <2>3. writing # <<>> => writing'[1].msg = writing[1].msg
        BY <1>3, <2>2, Zenon
    <2>4. QED  BY <1>1, <1>3, <1>4, <1>5, <2>1, <2>3 DEF ConnInv, InStep
  <1>9. QED  BY <1>6, <1>7, <1>8, Zenon DEF ConnInv

\* A write begun when none was under way is the only one, of the first message,
\* from its live buffer.
LEMMA FirstWrite ==
    ASSUME NEW q \in Seq(Messages), q # <<>>, Written(q, <<>>)
    PROVE  /\ Len(writing') <= 1
           /\ writing' # <<>> => /\ m' # <<>> /\ writing'[1].msg = Head(m')
                                 /\ writing'[1].buf
  <1> DEFINE w == [msg |-> Head(q), live |-> TRUE, buf |-> TRUE]
  <1>1. w.msg = Head(q) /\ w.buf = TRUE
      OBVIOUS
  <1> HIDE DEF w
  <1>2. <<>> \in Seq(Write)
      OBVIOUS
  <1>3. \/ m' = q /\ writing' = Append(<<>>, w)
        \/ m' = <<>> /\ writing' = Unbuffered(<<>>)
      BY <1>2, WrittenFacts, Zenon DEF w
  <1>4. CASE m' = q /\ writing' = Append(<<>>, w)
    <2>1. Append(<<>>, w) = <<w>> /\ Len(<<w>>) = 1 /\ <<w>>[1] = w
        OBVIOUS
    <2>2. Len(writing') <= 1
        BY <1>4, <2>1
    <2>3. QED  BY <1>1, <1>4, <2>1, <2>2, Zenon
  <1>5. CASE m' = <<>> /\ writing' = Unbuffered(<<>>)
    <2>1. writing' = <<>> /\ Len(writing') <= 1
        BY <1>5, NoWrites
    <2>2. QED  BY <2>1, Zenon
  <1>6. QED  BY <1>3, <1>4, <1>5, Zenon

\* tcp_server::write begins no write without a connection.
LEMMA WriteIsLive ==
    ASSUME ConnInv, NEW q \in Seq(Messages), q # <<>>, Written(q, writing), UNCHANGED conn
    PROVE  NoLateWrite'
  <1>1. writing \in Seq(Write) /\ stale \in 0 .. 1
      BY DEF ConnInv, ConnTypeOK
  <1>2. ~connected => writing' = Unbuffered(writing)
      BY <1>1, WrittenFacts, Zenon
  <1>3. ~connected => \A i \in 1 .. Len(writing') : ~writing'[i].live
    <2>1. ~connected => \A i \in 1 .. Len(writing) : ~writing[i].live
        BY Zenon DEF ConnInv, NoLateWrite
    <2>2. /\ Len(Unbuffered(writing)) = Len(writing)
          /\ \A i \in 1 .. Len(writing) : Unbuffered(writing)[i].live = writing[i].live
        BY <1>1, UnbufferedFacts, Zenon
    <2>3. QED  BY <1>2, <2>1, <2>2, Zenon
  <1>4. stale > 0 \/ connecting => writing' = <<>> /\ ~connected
    <2>1. stale > 0 \/ connecting => writing = <<>> /\ ~connected
        BY Zenon DEF ConnInv, NoLateWrite
    <2>2. QED  BY <1>2, <2>1, NoWrites, Zenon
  <1>5. connecting => session
      BY Zenon DEF ConnInv, NoLateWrite
  <1>6. QED  BY <1>3, <1>4, <1>5, Zenon DEF NoLateWrite, conn

\* strand_write and strand_proceed keep the invariant.
LEMMA RunTaskInv ==
    ASSUME ConnInv, RunTask
    PROVE  ConnInv'
  <1> DEFINE x == Head(tasks)
  <1>1. /\ tasks \in Seq(Messages \cup {Proceed}) /\ m \in Seq(Messages)
        /\ writing \in Seq(Write)
      BY DEF ConnInv, ConnTypeOK
  <1>2. tasks # <<>> /\ tasks' = Tail(tasks) /\ UNCHANGED <<conn, posted, sent, upset>>
      BY Zenon DEF RunTask
  <1>3. x \in Messages \cup {Proceed} /\ tasks' \in Seq(Messages \cup {Proceed})
      BY <1>1, <1>2
  <1> HIDE DEF x
  <1>4. \/ x \in Messages /\ m # <<>> /\ m' = Append(m, x) /\ writing' = writing
        \/ x \in Messages /\ m = <<>> /\ Written(<<x>>, writing)
        \/ x = Proceed /\ m # <<>> /\ Written(m, writing)
        \/ m' = m /\ writing' = writing
      BY <1>3, Zenon DEF RunTask, StrandProceed, StrandWrite, x
  <1>5. "crossed" \notin upset => \A i \in 1 .. Len(tasks') : tasks'[i] # Proceed
    <2>1. "crossed" \notin upset => \A i \in 2 .. Len(tasks) : tasks[i] # Proceed
        BY DEF ConnInv, InStep
    <2>2. QED  BY <1>1, <1>2, <2>1
  <1>6. "crossed" \notin upset =>
            (tasks' # <<>> /\ Head(tasks') = Proceed => writing' = <<>>)
      BY <1>3, <1>5
  <1>7. ConnectedIsUp'
      BY <1>2, Zenon DEF ConnInv, ConnectedIsUp, conn
  <1>8. "crossed" \notin upset' => \A i \in 2 .. Len(tasks') : tasks'[i] # Proceed
      BY <1>2, <1>3, <1>5
  <1>9. "crossed" \notin upset =>
            /\ Len(writing) <= 1
            /\ writing # <<>> => m # <<>> /\ writing[1].msg = Head(m)
            /\ writing # <<>> /\ upset = {} => writing[1].buf
            /\ x = Proceed => writing = <<>>
      BY <1>2, Zenon DEF ConnInv, InStep, x
  <1>10. ASSUME m' \in Seq(Messages), writing' \in Seq(Write)
         PROVE  ConnTypeOK'
    <2>1. {connected', session', strand', connecting'} \subseteq BOOLEAN
        BY <1>2, Zenon DEF ConnInv, ConnTypeOK, conn
    <2>2. QED  BY <1>2, <1>3, <1>10, <2>1 DEF ConnInv, ConnTypeOK, conn
  <1>11. ASSUME NEW q \in Seq(Messages), q # <<>>, Written(q, writing),
                "crossed" \notin upset => writing = <<>>
         PROVE  ConnInv'
    <2>1. m' \in Seq(Messages) /\ writing' \in Seq(Write)
        BY <1>1, <1>11, WrittenFacts, Zenon
    <2>2. NoLateWrite'
        BY <1>2, <1>11, WriteIsLive, Zenon
    <2>3. "crossed" \notin upset =>
              /\ Len(writing') <= 1
              /\ writing' # <<>> => m' # <<>> /\ writing'[1].msg = Head(m') /\ writing'[1].buf
        BY <1>11, FirstWrite, Zenon
    <2>4. InStep'
        BY <1>2, <1>6, <1>8, <2>3, Zenon DEF InStep
    <2>5. QED  BY <1>7, <1>10, <2>1, <2>2, <2>4, Zenon DEF ConnInv
  <1>12. CASE x \in Messages /\ m # <<>> /\ m' = Append(m, x) /\ writing' = writing
    <2>1. m' \in Seq(Messages) /\ m' # <<>> /\ Head(m') = Head(m)
        BY <1>1, <1>12
    <2>2. NoLateWrite'
        BY <1>2, <1>12, Zenon DEF ConnInv, NoLateWrite, conn
    <2>3. InStep'
        BY <1>2, <1>6, <1>8, <1>9, <1>12, <2>1, Zenon DEF InStep
    <2>4. QED  BY <1>1, <1>7, <1>10, <1>12, <2>1, <2>2, <2>3, Zenon DEF ConnInv
  <1>13. CASE x \in Messages /\ m = <<>> /\ Written(<<x>>, writing)
    <2>1. <<x>> \in Seq(Messages) /\ <<x>> # <<>>
        BY <1>13
    <2>2. QED  BY <1>9, <1>11, <1>13, <2>1, Zenon
  <1>14. CASE x = Proceed /\ m # <<>> /\ Written(m, writing)
      BY <1>1, <1>9, <1>11, <1>14, Zenon
  <1>15. CASE m' = m /\ writing' = writing
    <2>1. NoLateWrite'
        BY <1>2, <1>15, Zenon DEF ConnInv, NoLateWrite, conn
    <2>2. InStep'
        BY <1>2, <1>6, <1>8, <1>9, <1>15, Zenon DEF InStep
    <2>3. QED  BY <1>1, <1>7, <1>10, <1>15, <2>1, <2>2, Zenon DEF ConnInv
  <1>16. QED  BY <1>4, <1>12, <1>13, <1>14, <1>15, Zenon

------------------------------------------------------------------------------
\* handle_write.

\* The only write of a connection in step is the first; nothing is left of it.
LEMMA OnlyWrite ==
    ASSUME ConnInv, NEW i \in 1 .. Len(writing), "crossed" \notin upset
    PROVE  /\ i = 1 /\ RemoveAt(writing, i) = <<>> /\ writing # <<>>
           /\ m # <<>> /\ writing[1].msg = Head(m)
           /\ upset = {} => writing[1].buf
           /\ ~(tasks # <<>> /\ Head(tasks) = Proceed)
  <1>1. writing \in Seq(Write) /\ Len(writing) <= 1
      BY DEF ConnInv, ConnTypeOK, InStep
  <1>2. i = 1 /\ Len(writing) = 1 /\ writing # <<>>
      BY <1>1
  <1>3. RemoveAt(writing, i) \in Seq(Write) /\ Len(RemoveAt(writing, i)) = 0
      BY <1>1, <1>2, RemoveFacts
  <1>4. RemoveAt(writing, i) = <<>>
      BY <1>3, EmptySeq
  <1>5. QED  BY <1>2, <1>4, Zenon DEF ConnInv, InStep

\* What is left of the writes after one has completed.
LEMMA WritesLeft ==
    ASSUME writing \in Seq(Write), NEW i \in 1 .. Len(writing)
    PROVE  LET ws == Popped(RemoveAt(writing, i))
           IN  /\ ws \in Seq(Write)
               /\ (\A j \in 1 .. Len(writing) : ~writing[j].live)
                    => \A j \in 1 .. Len(ws) : ~ws[j].live
  <1> DEFINE rs == RemoveAt(writing, i)
             ws == Popped(rs)
  <1>1. /\ rs \in Seq(Write) /\ Len(rs) = Len(writing) - 1
        /\ \A j \in 1 .. Len(writing) - 1 : rs[j] = writing[IF j < i THEN j ELSE j + 1]
      BY RemoveFacts, Zenon
  <1> HIDE DEF rs
  <1>2. /\ ws \in Seq(Write) /\ Len(ws) = Len(rs)
        /\ \A j \in 1 .. Len(rs) : ws[j].live = rs[j].live
      BY <1>1, PoppedFacts, Zenon
  <1> HIDE DEF ws
  <1>3. ASSUME \A j \in 1 .. Len(writing) : ~writing[j].live, NEW j \in 1 .. Len(ws)
        PROVE  ~ws[j].live
    <2>1. j \in 1 .. Len(writing) - 1 /\ (IF j < i THEN j ELSE j + 1) \in 1 .. Len(writing)
        BY <1>1, <1>2
    <2>2. QED  BY <1>1, <1>2, <1>3, <2>1, Zenon
  <1>4. QED  BY <1>2, <1>3, Zenon DEF ws, rs

\* After a write that was done the next message is written, if there is one.
LEMMA WriteDoneInv ==
    ASSUME ConnInv, NEW i \in 1 .. Len(writing), WriteDone(i)
    PROVE  ConnInv'
  <1> DEFINE ws == Popped(RemoveAt(writing, i))
  <1>1. m \in Seq(Messages) /\ writing \in Seq(Write) /\ sent \in Seq(Messages \cup {Garbage})
      BY DEF ConnInv, ConnTypeOK
  <1>2. writing[i].live /\ UNCHANGED <<conn, tasks, posted, upset>>
      BY Zenon DEF WriteDone
  <1>3. ws \in Seq(Write)
      BY <1>1, WritesLeft, Zenon
  <1>4. connected /\ ~(stale > 0 \/ connecting)
      BY <1>2, Zenon DEF ConnInv, NoLateWrite
  <1>5. "crossed" \notin upset => ws = <<>> /\ ~(tasks # <<>> /\ Head(tasks) = Proceed)
      BY OnlyWrite, NoWrites, Zenon
  <1> DEFINE q == PopFront(m)
  <1>6. \/ Len(m) > 1 /\ Written(q, ws)
        \/ m' = <<>> /\ writing' = ws
      BY Zenon DEF WriteDone
  <1>7. Len(m) > 1 => q \in Seq(Messages) /\ q # <<>>
    <2>1. ASSUME Len(m) > 1
          PROVE  q \in Seq(Messages) /\ q # <<>>
      <3>1. m # <<>>
          BY <1>1, <2>1
      <3>2. q \in Seq(Messages) /\ Len(q) = Len(m) - 1
          BY <1>1, <3>1, PopFrontFacts
      <3> HIDE DEF q
      <3>3. QED  BY <1>1, <2>1, <3>2
    <2>2. QED  BY <2>1
  <1> HIDE DEF ws, q
  <1>8. sent' \in Seq(Messages \cup {Garbage})
    <2>0. writing[i] \in Write
        BY <1>1, ElementOfSeq
    <2>1. writing[i].msg \in Messages
        BY <2>0, Zenon DEF Write
    <2>2. \E x \in Messages \cup {Garbage} : sent' = Append(sent, x)
        BY <2>1, Zenon DEF WriteDone
    <2>3. QED  BY <1>1, <2>2
  <1>9. m' \in Seq(Messages) /\ writing' \in Seq(Write)
    <2>1. CASE Len(m) > 1 /\ Written(q, ws)
        BY <1>3, <1>7, <2>1, WrittenFacts, Zenon
    <2>2. CASE m' = <<>> /\ writing' = ws
        BY <1>3, <2>2
    <2>3. QED  BY <1>6, <2>1, <2>2, Zenon
  <1>10. ConnTypeOK'
    <2>1. {connected', session', strand', connecting'} \subseteq BOOLEAN
        BY <1>2, Zenon DEF ConnInv, ConnTypeOK, conn
    <2>2. QED  BY <1>2, <1>8, <1>9, <2>1 DEF ConnInv, ConnTypeOK, conn
  <1>11. ConnectedIsUp'
      BY <1>2, Zenon DEF ConnInv, ConnectedIsUp, conn
  <1>12. NoLateWrite'
      BY <1>2, <1>4, Zenon DEF ConnInv, NoLateWrite, conn
  <1>13. InStep'
    <2> SUFFICES ASSUME "crossed" \notin upset
                 PROVE  InStep'
        BY <1>2 DEF InStep
    <2>1. /\ Len(writing') <= 1
          /\ writing' # <<>> => m' # <<>> /\ writing'[1].msg = Head(m') /\ writing'[1].buf
      <3>1. CASE Len(m) > 1 /\ Written(q, ws)
          BY <1>5, <1>7, <3>1, FirstWrite, Zenon
      <3>2. CASE m' = <<>> /\ writing' = ws
        <4>1. Len(<<>>) <= 1
            OBVIOUS
        <4>2. QED  BY <1>5, <3>2, <4>1, Zenon
      <3>3. QED  BY <1>6, <3>1, <3>2, Zenon
    <2>2. QED  BY <1>2, <1>5, <2>1, Zenon DEF ConnInv, InStep
  <1>14. QED  BY <1>10, <1>11, <1>12, <1>13, Zenon DEF ConnInv

\* A write that failed closes the connection and loses its message.
LEMMA WriteFailedInv ==
    ASSUME ConnInv, NEW i \in 1 .. Len(writing), WriteFailed(i)
    PROVE  ConnInv'
  <1> DEFINE ws == Popped(RemoveAt(writing, i))
  <1>1. m \in Seq(Messages) /\ writing \in Seq(Write) /\ stale \in 0 .. 1
      BY DEF ConnInv, ConnTypeOK
  <1>2. UNCHANGED <<tasks, posted, sent, upset>>
      BY Zenon DEF WriteFailed
  <1>3. /\ ws \in Seq(Write)
        /\ (\A j \in 1 .. Len(writing) : ~writing[j].live) => \A j \in 1 .. Len(ws) : ~ws[j].live
      BY <1>1, WritesLeft, Zenon
  <1>4. writing # <<>>
      BY <1>1
  <1>5. ~(stale > 0 \/ connecting) /\ stale = 0
    <2>1. ~(stale > 0 \/ connecting)
        BY <1>4, Zenon DEF ConnInv, NoLateWrite
    <2>2. QED  BY <1>1, <2>1
  <1>6. "crossed" \notin upset =>
            ws = <<>> /\ m # <<>> /\ ~(tasks # <<>> /\ Head(tasks) = Proceed)
      BY OnlyWrite, NoWrites, Zenon
  <1>7. \/ m = <<>> /\ writing' = ws /\ UNCHANGED <<m, conn>>
        \/ m # <<>> /\ m' = PopFront(m) /\ Closed(ws, DropConnect)
      BY Zenon DEF WriteFailed
  <1> HIDE DEF ws
  <1>8. CASE m = <<>> /\ writing' = ws /\ UNCHANGED <<m, conn>>
    <2>1. ConnTypeOK'
      <3>1. {connected', session', strand', connecting'} \subseteq BOOLEAN
          BY <1>8, Zenon DEF ConnInv, ConnTypeOK, conn
      <3>2. QED  BY <1>2, <1>3, <1>8, <3>1 DEF ConnInv, ConnTypeOK, conn
    <2>2. ConnectedIsUp'
        BY <1>8, Zenon DEF ConnInv, ConnectedIsUp, conn
    <2>3. NoLateWrite'
        BY <1>3, <1>5, <1>8, Zenon DEF ConnInv, NoLateWrite, conn
    <2>4. InStep'
        BY <1>2, <1>6, <1>8, Zenon DEF InStep
    <2>5. QED  BY <2>1, <2>2, <2>3, <2>4, Zenon DEF ConnInv
  <1>9. CASE m # <<>> /\ m' = PopFront(m) /\ Closed(ws, DropConnect)
    <2>1. m' \in Seq(Messages)
        BY <1>1, <1>9, PopFrontFacts
    <2>2. /\ session' = FALSE /\ strand' = FALSE /\ connected' = FALSE
          /\ connecting' = FALSE /\ stale' = 0 /\ writing' = Dropped(ws)
        BY <1>5, <1>9, Zenon DEF Closed, DropConnect
    <2>3. /\ writing' \in Seq(Write) /\ Len(writing') = Len(ws)
          /\ \A j \in 1 .. Len(ws) : writing'[j].live = FALSE
        BY <1>3, <2>2, DroppedFacts, Zenon
    <2>4. ConnTypeOK'
      <3>1. {connected', session', strand', connecting'} \subseteq BOOLEAN
          BY <2>2, Zenon
      <3>2. QED  BY <1>2, <2>1, <2>2, <2>3, <3>1 DEF ConnInv, ConnTypeOK
    <2>5. ConnectedIsUp'
        BY <2>2, Zenon DEF ConnectedIsUp
    <2>6. NoLateWrite'
      <3>1. ~(stale' > 0)
          BY <2>2
      <3>2. QED  BY <2>2, <2>3, <3>1, Zenon DEF NoLateWrite
    <2>7. InStep'
      <3>1. "crossed" \notin upset => writing' = <<>> /\ Len(writing') <= 1
        <4>1. Len(<<>>) <= 1
            OBVIOUS
        <4>2. QED  BY <1>6, <2>2, <4>1, NoWrites, Zenon
      <3>2. QED  BY <1>2, <1>6, <3>1, Zenon DEF ConnInv, InStep
    <2>8. QED  BY <2>4, <2>5, <2>6, <2>7, Zenon DEF ConnInv
  <1>10. QED  BY <1>7, <1>8, <1>9, Zenon

------------------------------------------------------------------------------
\* add_peer begins with nothing queued and nothing under way.
LEMMA ConnInitInv == ConnInit => ConnInv
  <1> SUFFICES ASSUME ConnInit
               PROVE  ConnInv
      OBVIOUS
  <1>1. ConnTypeOK
    <2>1. {connected, session, strand, connecting} \subseteq BOOLEAN
        BY Zenon DEF ConnInit
    <2>2. QED  BY <2>1, TaskFacts DEF ConnInit, ConnTypeOK
  <1>2. ConnectedIsUp /\ NoLateWrite /\ InStep
      BY DEF ConnInit, ConnectedIsUp, NoLateWrite, InStep
  <1>3. QED  BY <1>1, <1>2, Zenon DEF ConnInv

\* Every pass, task and callback keeps the invariant of a connection.
LEMMA ConnNextInv ==
    ASSUME ConnInv, [ConnNext]_connVars
    PROVE  ConnInv'
  <1>1. CASE ConnNext
      BY <1>1, ConnectPassInv, ConnectedInv, ConnectFailedInv, PostInv, RunTaskInv,
         PeersGrowInv, WriteDoneInv, WriteFailedInv, Zenon DEF ConnNext
  <1>2. CASE UNCHANGED connVars
    <2>1. UNCHANGED <<connected, session, strand, connecting, stale, m, tasks, writing,
                      posted, sent, upset>>
        BY <1>2, Zenon DEF connVars, conn
    <2>2. QED  BY <2>1, Zenon DEF ConnInv, ConnTypeOK, ConnectedIsUp, NoLateWrite, InStep
  <1>3. QED  BY <1>1, <1>2, Zenon

\* The invariant gives what ConnectionInv says.
LEMMA ConnInvGives == ConnInv => ConnectionInv
  <1> SUFFICES ASSUME ConnInv
               PROVE  OneWriteOfTheFirst
      BY Zenon DEF ConnInv, ConnectionInv
  <1>1. writing \in Seq(Write)
      BY DEF ConnInv, ConnTypeOK
  <1>2. ASSUME upset = {}, NEW i \in 1 .. Len(writing)
        PROVE  writing[i].buf /\ writing[i].msg = First(m)
    <2>1. "crossed" \notin upset
        BY <1>2
    <2>2. /\ i = 1 /\ m # <<>> /\ writing[1].msg = Head(m) /\ writing[1].buf
        BY <1>2, <2>1, OnlyWrite, Zenon
    <2>3. QED  BY <2>2, Zenon DEF First
  <1>3. "crossed" \notin upset => Len(writing) <= 1
      BY Zenon DEF ConnInv, InStep
  <1>4. upset = {} => "crossed" \notin upset
      BY Zenon
  <1>5. QED  BY <1>2, <1>3, <1>4, Zenon DEF OneWriteOfTheFirst

\* For every number of messages, and every order of passes, callbacks, errors
\* and late errors of tcp_server: a connected peer has its session and strand,
\* and handle_write pops the message it has sent, unless messages waited in
\* the strand when the connection came up, or the vector of peers moved.
THEOREM ConnectionSafety == ConnSpec => []ConnectionInv
  <1>1. ConnInv /\ [ConnNext]_connVars => ConnInv'
      BY ConnNextInv
  <1>2. QED  BY <1>1, ConnInitInv, ConnInvGives, PTL DEF ConnSpec

------------------------------------------------------------------------------
\* The connection as a lossy channel.

\* Sequences put together, and their ends.
LEMMA HeadOfConcat ==
    ASSUME NEW S, NEW s \in Seq(S), NEW t \in Seq(S), s # <<>>
    PROVE  /\ s \o t # <<>> /\ Head(s \o t) = Head(s) /\ Tail(s \o t) = Tail(s) \o t
  <1>1. /\ s \o t \in Seq(S) /\ Len(s \o t) = Len(s) + Len(t) /\ Len(s) > 0
        /\ \A i \in 1 .. Len(s) + Len(t) :
               (s \o t)[i] = IF i <= Len(s) THEN s[i] ELSE t[i - Len(s)]
      OBVIOUS
  <1>2. /\ Tail(s) \in Seq(S) /\ Len(Tail(s)) = Len(s) - 1
        /\ \A i \in 1 .. Len(s) - 1 : Tail(s)[i] = s[i + 1]
      OBVIOUS
  <1>3. s \o t # <<>> /\ Head(s \o t) = Head(s)
      BY <1>1
  <1> DEFINE u == Tail(s \o t)
             v == Tail(s) \o t
  <1>4. /\ u \in Seq(S) /\ Len(u) = Len(s) + Len(t) - 1
        /\ \A i \in 1 .. Len(s) + Len(t) - 1 : u[i] = (s \o t)[i + 1]
      BY <1>1, <1>3
  <1>5. /\ v \in Seq(S) /\ Len(v) = Len(s) + Len(t) - 1
        /\ \A i \in 1 .. Len(s) + Len(t) - 1 :
               v[i] = IF i <= Len(s) - 1 THEN s[i + 1] ELSE t[i - (Len(s) - 1)]
      BY <1>2
  <1> HIDE DEF u, v
  <1>6. ASSUME NEW i \in 1 .. Len(s) + Len(t) - 1
        PROVE  u[i] = v[i]
    <2>1. (i + 1) - Len(s) = i - (Len(s) - 1)
        OBVIOUS
    <2>2. QED  BY <1>1, <1>4, <1>5, <2>1
  <1>7. u = v
      BY <1>4, <1>5, <1>6, SeqEqual
  <1>8. QED  BY <1>3, <1>7 DEF u, v

\* What follows s in s \o t is t.
LEMMA AfterConcat ==
    ASSUME NEW S, NEW s \in Seq(S), NEW t \in Seq(S)
    PROVE  SubSeq(s \o t, Len(s) + 1, Len(s \o t)) = t
  <1>1. /\ s \o t \in Seq(S) /\ Len(s \o t) = Len(s) + Len(t)
        /\ \A i \in 1 .. Len(t) : (s \o t)[Len(s) + i] = t[i]
      OBVIOUS
  <1> DEFINE u == SubSeq(s \o t, Len(s) + 1, Len(s \o t))
  <1>2. /\ u \in Seq(S) /\ Len(u) = Len(t)
        /\ \A i \in 1 .. Len(t) : u[i] = (s \o t)[Len(s) + i]
      BY <1>1
  <1> HIDE DEF u
  <1>3. u = t
      BY <1>1, <1>2, SeqEqual
  <1>4. QED  BY <1>3 DEF u

\* Messages move between the queue m and the posted tasks without changing their order.
LEMMA Regroup ==
    ASSUME NEW S, NEW s \in Seq(S), NEW t \in Seq(S), NEW x \in S
    PROVE  /\ Append(s, x) \o t = s \o (<<x>> \o t)
           /\ s \o Append(t, x) = Append(s \o t, x)
           /\ <<>> \o s = s
           /\ s # <<>> => <<Head(s)>> \o Tail(s) = s
  <1>1. Append(s, x) \o t = s \o (<<x>> \o t)
      OBVIOUS
  <1>2. s \o Append(t, x) = Append(s \o t, x)
      OBVIOUS
  <1>3. <<>> \o s = s
      OBVIOUS
  <1>4. s # <<>> => <<Head(s)>> \o Tail(s) = s
      OBVIOUS
  <1>5. QED  BY <1>1, <1>2, <1>3, <1>4, Zenon

\* The messages among the tasks, as Transit has them.
Waiting(ts) == IF ts # <<>> /\ Head(ts) = Proceed THEN Tail(ts) ELSE ts

\* In a connection in step the strand holds messages behind strand_proceed;
\* one more is the last.
LEMMA WaitingFacts ==
    ASSUME NEW ts \in Seq(Messages \cup {Proceed}),
           \A i \in 2 .. Len(ts) : ts[i] # Proceed
    PROVE  /\ Waiting(ts) \in Seq(Messages)
           /\ \A x \in Messages : Waiting(Append(ts, x)) = Append(Waiting(ts), x)
           /\ ts # <<>> => Tail(ts) \in Seq(Messages) /\ Waiting(Tail(ts)) = Tail(ts)
           /\ ts # <<>> /\ Head(ts) # Proceed => ts \in Seq(Messages) /\ Waiting(ts) = ts
  <1>1. ts # <<>> => Tail(ts) \in Seq(Messages)
    <2> SUFFICES ASSUME ts # <<>>
                 PROVE  Tail(ts) \in Seq(Messages)
        OBVIOUS
    <2> DEFINE u == Tail(ts)
    <2>1. /\ u \in Seq(Messages \cup {Proceed}) /\ Len(u) = Len(ts) - 1
          /\ \A i \in 1 .. Len(ts) - 1 : u[i] = ts[i + 1]
        OBVIOUS
    <2> HIDE DEF u
    <2>2. \A i \in 1 .. Len(u) : u[i] \in Messages
        BY <2>1
    <2>3. u \in Seq(Messages)
        BY <2>1, <2>2
    <2>4. QED  BY <2>3 DEF u
  <1>2. ts # <<>> /\ Head(ts) # Proceed => ts \in Seq(Messages)
    <2> SUFFICES ASSUME ts # <<>>, Head(ts) # Proceed
                 PROVE  ts \in Seq(Messages)
        OBVIOUS
    <2>1. \A i \in 1 .. Len(ts) : ts[i] \in Messages
        OBVIOUS
    <2>2. QED  BY <2>1
  <1>3. Waiting(ts) \in Seq(Messages)
      BY <1>1, <1>2 DEF Waiting
  <1>4. ts # <<>> => Waiting(Tail(ts)) = Tail(ts)
    <2>1. \A s \in Seq(Messages) : s # <<>> => Head(s) \in Messages
        OBVIOUS
    <2>2. QED  BY <1>1, <2>1, TaskFacts, Zenon DEF Waiting
  <1>5. ASSUME NEW x \in Messages
        PROVE  Waiting(Append(ts, x)) = Append(Waiting(ts), x)
    <2>1. x # Proceed /\ Append(ts, x) # <<>>
        BY TaskFacts
    <2>2. CASE ts = <<>>
      <3>1. Head(Append(ts, x)) = x
          BY <2>2
      <3>2. QED  BY <2>1, <2>2, <3>1, Zenon DEF Waiting
    <2>3. CASE ts # <<>>
      <3>1. Head(Append(ts, x)) = Head(ts) /\ Tail(Append(ts, x)) = Append(Tail(ts), x)
          BY <2>3
      <3>2. QED  BY <2>1, <2>3, <3>1, Zenon DEF Waiting
    <2>4. QED  BY <2>2, <2>3
  <1>6. QED  BY <1>1, <1>2, <1>3, <1>4, <1>5, Zenon DEF Waiting

\* A step that changes nothing in queue, strand and network, one that sends
\* on, one that loses the first messages.
LEMMA ChannelLoses ==
    ASSUME NEW s \in Seq(Messages), NEW t \in Seq(Messages), s # <<>>,
           Transit = s \o t, Transit' = t, sent' = sent
    PROVE  Channel!Next
  <1>1. Len(s) \in 1 .. Len(s \o t)
      OBVIOUS
  <1>2. t = SubSeq(s \o t, Len(s) + 1, Len(s \o t))
      BY AfterConcat, Zenon
  <1>3. \E n \in 1 .. Len(Transit) : Transit' = SubSeq(Transit, n + 1, Len(Transit))
      BY <1>1, <1>2, Zenon
  <1>4. QED  BY <1>3, Zenon DEF Channel!Next, Channel!Lose

\* The front of m was written: the channel delivers its oldest message.
LEMMA ChannelDelivers ==
    ASSUME m \in Seq(Messages), NEW t \in Seq(Messages), m # <<>>,
           Transit = m \o t, Transit' = Tail(m) \o t, sent' = Append(sent, Head(m))
    PROVE  Channel!Next
  <1>1. m \o t # <<>> /\ Head(m \o t) = Head(m) /\ Tail(m \o t) = Tail(m) \o t
      BY HeadOfConcat, Zenon
  <1>2. QED  BY <1>1, Zenon DEF Channel!Next, Channel!Deliver

\* A message that is posted is the last of the channel.
LEMMA PostSends ==
    ASSUME ConnInv, Post, upset = {}
    PROVE  Channel!Next \/ UNCHANGED <<Transit, sent>>
  <1>1. /\ tasks \in Seq(Messages \cup {Proceed}) /\ m \in Seq(Messages)
        /\ posted' \in Messages
      BY TaskFacts DEF ConnInv, ConnTypeOK, Post, Messages
  <1>2. \A i \in 2 .. Len(tasks) : tasks[i] # Proceed
      BY DEF ConnInv, InStep
  <1>3. m' = m /\ sent' = sent /\ (tasks' = tasks \/ tasks' = Append(tasks, posted'))
      BY Zenon DEF Post
  <1> DEFINE w == Waiting(tasks)
  <1>4. w \in Seq(Messages) /\ Waiting(Append(tasks, posted')) = Append(w, posted')
      BY <1>1, <1>2, WaitingFacts, Zenon
  <1> HIDE DEF w
  <1>5. m \o Append(w, posted') = Append(m \o w, posted')
      BY <1>1, <1>4
  <1>6. Transit = m \o w /\ Transit' = m' \o Waiting(tasks')
      BY Zenon DEF Transit, Waiting, w
  <1>7. CASE tasks' = tasks
      BY <1>3, <1>6, <1>7, Zenon DEF w
  <1>8. CASE tasks' = Append(tasks, posted')
    <2>1. Transit' = Append(Transit, posted')
        BY <1>3, <1>4, <1>5, <1>6, <1>8, Zenon
    <2>2. QED  BY <1>1, <1>3, <2>1, Zenon DEF Channel!Next, Channel!Send
  <1>9. QED  BY <1>3, <1>7, <1>8, Zenon

\* A task moves its message into the queue, or the queue is lost.
LEMMA TaskLoses ==
    ASSUME ConnInv, RunTask, upset = {}
    PROVE  Channel!Next \/ UNCHANGED <<Transit, sent>>
  <1> DEFINE x == Head(tasks)
             t == Tail(tasks)
  <1>1. /\ tasks \in Seq(Messages \cup {Proceed}) /\ m \in Seq(Messages)
        /\ writing \in Seq(Write)
      BY DEF ConnInv, ConnTypeOK
  <1>2. \A i \in 2 .. Len(tasks) : tasks[i] # Proceed
      BY DEF ConnInv, InStep
  <1>3. tasks # <<>> /\ tasks' = t /\ sent' = sent
      BY Zenon DEF RunTask
  <1>4. /\ x \in Messages \cup {Proceed} /\ t \in Seq(Messages) /\ Waiting(t) = t
        /\ x = Proceed => Waiting(tasks) = t
        /\ x # Proceed => tasks \in Seq(Messages) /\ Waiting(tasks) = tasks
    <2>1. x \in Messages \cup {Proceed}
        BY <1>1, <1>3
    <2>2. QED  BY <1>1, <1>2, <1>3, <2>1, WaitingFacts, Zenon DEF Waiting
  <1>5. x # Proceed => tasks = <<x>> \o t
      BY <1>3, <1>4
  <1>6. \/ x \in Messages /\ m' = Append(m, x)
        \/ x \in Messages /\ m = <<>> /\ Written(<<x>>, writing)
        \/ x = Proceed /\ m # <<>> /\ Written(m, writing)
        \/ x = Proceed /\ m' = m
      BY <1>4, Zenon DEF RunTask, StrandProceed, StrandWrite
  <1>7. Transit = m \o Waiting(tasks) /\ Transit' = m' \o t
      BY <1>3, <1>4, Zenon DEF Transit, Waiting
  <1>8. x \in Messages => x # Proceed
      BY TaskFacts, Zenon
  <1> HIDE DEF x, t
  <1>9. CASE x \in Messages /\ m' = Append(m, x)
    <2>1. Append(m, x) \o t = m \o (<<x>> \o t)
      <3>1. m \in Seq(Messages) /\ t \in Seq(Messages) /\ x \in Messages
          BY <1>1, <1>4, <1>9
      <3>2. QED  BY <3>1, Regroup
    <2>2. QED  BY <1>3, <1>4, <1>5, <1>7, <1>8, <1>9, <2>1, Zenon
  <1>10. CASE x \in Messages /\ m = <<>> /\ Written(<<x>>, writing)
    <2>1. <<x>> \in Seq(Messages) /\ <<x>> # <<>>
        BY <1>10
    <2>2. m' = <<x>> \/ m' = <<>>
        BY <1>1, <1>10, <2>1, WrittenFacts, Zenon
    <2>3. Transit = <<x>> \o t
      <3>1. <<>> \o tasks = tasks
          BY <1>4, <1>8, <1>10
      <3>2. QED  BY <1>4, <1>5, <1>7, <1>8, <1>10, <3>1, Zenon
    <2>4. CASE m' = <<x>>
        BY <1>3, <1>7, <2>3, <2>4, Zenon
    <2>5. CASE m' = <<>>
      <3>1. Transit' = t
          BY <1>4, <1>7, <2>5
      <3>2. QED  BY <1>3, <1>4, <2>1, <2>3, <3>1, ChannelLoses, Zenon
    <2>6. QED  BY <2>2, <2>4, <2>5, Zenon
  <1>11. CASE x = Proceed /\ m # <<>> /\ Written(m, writing)
    <2>1. m' = m \/ m' = <<>>
        BY <1>1, <1>11, WrittenFacts, Zenon
    <2>2. Transit = m \o t
        BY <1>4, <1>7, <1>11, Zenon
    <2>3. CASE m' = m
        BY <1>3, <1>7, <2>2, <2>3, Zenon
    <2>4. CASE m' = <<>>
      <3>1. Transit' = t
          BY <1>4, <1>7, <2>4
      <3>2. QED  BY <1>1, <1>3, <1>4, <1>11, <2>2, <3>1, ChannelLoses, Zenon
    <2>5. QED  BY <2>1, <2>3, <2>4, Zenon
  <1>12. CASE x = Proceed /\ m' = m
      BY <1>3, <1>4, <1>7, <1>12, Zenon
  <1>13. QED  BY <1>6, <1>9, <1>10, <1>11, <1>12, Zenon

\* A write that was done has handed the first message to the network.
LEMMA DoneDelivers ==
    ASSUME ConnInv, NEW i \in 1 .. Len(writing), WriteDone(i), upset = {}
    PROVE  Channel!Next
  <1> DEFINE w == Waiting(tasks)
             ws == Popped(RemoveAt(writing, i))
  <1>1. /\ tasks \in Seq(Messages \cup {Proceed}) /\ m \in Seq(Messages)
        /\ writing \in Seq(Write)
      BY DEF ConnInv, ConnTypeOK
  <1>2. w \in Seq(Messages)
    <2>1. \A j \in 2 .. Len(tasks) : tasks[j] # Proceed
        BY DEF ConnInv, InStep
    <2>2. QED  BY <1>1, <2>1, WaitingFacts, Zenon
  <1>3. i = 1 /\ m # <<>> /\ writing[1].msg = Head(m) /\ writing[1].buf
      BY OnlyWrite, Zenon
  <1>4. sent' = Append(sent, Head(m)) /\ tasks' = tasks
      BY <1>3, Zenon DEF WriteDone
  <1>5. session /\ connected /\ strand
    <2>1. writing[i].live
        BY Zenon DEF WriteDone
    <2>2. QED  BY <2>1, Zenon DEF ConnInv, NoLateWrite, ConnectedIsUp
  <1>6. m' = Tail(m)
    <2>1. CASE Len(m) > 1
      <3>1. Written(PopFront(m), ws)
          BY <2>1, Zenon DEF WriteDone
      <3>2. m' = PopFront(m)
          BY <1>5, <3>1, Zenon DEF Written
      <3>3. QED  BY <1>3, <3>2, Zenon DEF PopFront
    <2>2. CASE ~(Len(m) > 1)
      <3>1. m' = <<>>
          BY <2>2, Zenon DEF WriteDone
      <3>2. Tail(m) = <<>>
          BY <1>1, <1>3, <2>2
      <3>3. QED  BY <3>1, <3>2
    <2>3. QED  BY <2>1, <2>2
  <1>7. Transit = m \o w /\ Transit' = Tail(m) \o w
      BY <1>4, <1>6, Zenon DEF Transit, Waiting
  <1> HIDE DEF w
  <1>8. QED  BY <1>1, <1>2, <1>3, <1>4, <1>7, ChannelDelivers, Zenon

\* A write that failed has lost the first message.
LEMMA FailedLoses ==
    ASSUME ConnInv, NEW i \in 1 .. Len(writing), WriteFailed(i), upset = {}
    PROVE  Channel!Next
  <1> DEFINE w == Waiting(tasks)
  <1>1. tasks \in Seq(Messages \cup {Proceed}) /\ m \in Seq(Messages)
      BY DEF ConnInv, ConnTypeOK
  <1>2. w \in Seq(Messages)
    <2>1. \A j \in 2 .. Len(tasks) : tasks[j] # Proceed
        BY DEF ConnInv, InStep
    <2>2. QED  BY <1>1, <2>1, WaitingFacts, Zenon
  <1>3. m # <<>>
      BY OnlyWrite, Zenon
  <1>4. sent' = sent /\ tasks' = tasks /\ m' = Tail(m)
      BY <1>3, Zenon DEF WriteFailed, PopFront
  <1>5. Transit = m \o w /\ Transit' = Tail(m) \o w
      BY <1>4, Zenon DEF Transit, Waiting
  <1> HIDE DEF w
  <1> DEFINE t == Tail(m) \o w
             s == <<Head(m)>>
  <1>6. s \in Seq(Messages) /\ s # <<>> /\ t \in Seq(Messages)
      BY <1>1, <1>2, <1>3
  <1>7. m \o w = s \o t
    <2>1. s \o Tail(m) = m /\ Tail(m) \in Seq(Messages)
        BY <1>1, <1>3
    <2>2. (s \o Tail(m)) \o w = s \o (Tail(m) \o w)
        BY <1>2, <1>6, <2>1
    <2>3. QED  BY <2>1, <2>2, Zenon
  <1> HIDE DEF s, t
  <1>8. Transit = s \o t /\ Transit' = t
      BY <1>5, <1>7, Zenon DEF t
  <1>9. QED  BY <1>4, <1>6, <1>8, ChannelLoses, Zenon

\* Every step of a connection that is not upset is one of the lossy channel, or
\* none.
LEMMA StepOfChannel ==
    ASSUME ConnInv, [ConnNext]_connVars, upset' = {}
    PROVE  Channel!Next \/ UNCHANGED <<Transit, sent>>
  <1>1. upset = {}
    <2>1. CASE ConnNext
      <3>1. upset \subseteq upset'
          BY <2>1, Zenon DEF ConnNext, ConnectPass, Connected, ConnectFailed, Post,
                             RunTask, PeersGrow, WriteDone, WriteFailed
      <3>2. QED  BY <3>1
    <2>2. CASE UNCHANGED connVars
        BY <2>2, Zenon DEF connVars
    <2>3. QED  BY <2>1, <2>2
  <1>2. ASSUME UNCHANGED <<m, tasks, sent>>
        PROVE  UNCHANGED <<Transit, sent>>
      BY <1>2, Zenon DEF Transit
  <1>3. CASE ConnectPass \/ ConnectFailed \/ UNCHANGED connVars
      BY <1>2, <1>3, Zenon DEF ConnectPass, ConnectFailed, connVars
  <1>4. CASE Connected
    <2>1. tasks = <<>>
        BY <1>4 DEF Connected
    <2>2. tasks' = <<Proceed>>
        BY <1>4, <2>1 DEF Connected
    <2>3. Waiting(tasks) = <<>> /\ Waiting(tasks') = <<>>
        BY <2>1, <2>2 DEF Waiting
    <2>4. QED  BY <1>4, <2>3, Zenon DEF Connected, Transit, Waiting
  <1>5. CASE Post
      BY <1>1, <1>5, PostSends
  <1>6. CASE RunTask
      BY <1>1, <1>6, TaskLoses
  <1>7. CASE PeersGrow
      BY <1>7 DEF PeersGrow
  <1>8. ASSUME NEW i \in 1 .. Len(writing), WriteDone(i) \/ WriteFailed(i)
        PROVE  Channel!Next
      BY <1>1, <1>8, DoneDelivers, FailedLoses
  <1>9. QED  BY <1>3, <1>4, <1>5, <1>6, <1>7, <1>8 DEF ConnNext

\* Whatever breaks, is tried again, reports late or is posted meanwhile, for
\* every number of messages: what write_to_one_peer puts on a connection is
\* sent in order and at most once, until messages wait in the strand while
\* the connection comes up or the vector of peers moves under a write.
THEOREM ConnectionRefines == ConnSpec => ImplementsChannel
  <1>1. ConnInit => Channel!Init
    <2> SUFFICES ASSUME ConnInit
                 PROVE  Channel!Init
        OBVIOUS
    <2>1. Transit = <<>>
      <3>1. <<>> \o <<>> = <<>>
          OBVIOUS
      <3>2. QED  BY <3>1, Zenon DEF ConnInit, Transit
    <2>2. QED  BY <2>1, Zenon DEF ConnInit, Channel!Init
  <1>2. ConnInv /\ [ConnNext]_connVars => ConnInv'
      BY ConnNextInv
  <1>3. ConnInv /\ [ConnNext]_connVars => [upset' = {} => Channel!Next]_<<Transit, sent>>
      BY StepOfChannel, Zenon
  <1>4. QED  BY <1>1, <1>2, <1>3, ConnInitInv, PTL DEF ConnSpec, ImplementsChannel

------------------------------------------------------------------------------
\* PeerList.

\* One line of the file that names another node is an address.
LEMMA LineIsAddress ==
    ASSUME NEW n \in Hosts, NEW k \in 1 .. Len(Conf[n].file)
    PROVE  [ip |-> Resolve[Conf[n].file[k].name], port |-> Conf[n].file[k].port] \in Address
  <1> DEFINE L == [name : DOMAIN Resolve, port : Nat]
  <1>1. Conf[n].file \in Seq(L)
      BY ConfAssumption, Zenon
  <1> DEFINE e == Conf[n].file[k]
  <1>2. e \in L
      BY <1>1, ElementOfSeq
  <1>3. e.name \in DOMAIN Resolve /\ e.port \in Nat
      BY <1>2, Zenon
  <1> HIDE DEF e
  <1>4. [ip |-> Resolve[e.name], port |-> e.port] \in Address
      BY <1>3, Zenon DEF Address
  <1>5. QED  BY <1>4 DEF e

\* What main reads from the file, of any length, is a list of addresses.
LEMMA ListedFacts ==
    ASSUME NEW n \in Hosts
    PROVE  Listed(n) \in Seq(Address)
  <1> DEFINE lines == Conf[n].file
             N == Len(lines)
             S == Seq(Address)
             At(k) == [ip |-> Resolve[lines[k].name], port |-> lines[k].port]
             Step(s, k) == IF IsOther(n, lines[k]) THEN Append(s, At(k)) ELSE s
             f == [k \in Nat |-> [s \in S |-> IF k + 1 \in 1 .. N THEN Step(s, k + 1) ELSE s]]
  <1>1. N \in Nat
      BY ConfAssumption, LenProperties
  <1>2. \A k \in 1 .. N : At(k) \in Address
      BY LineIsAddress, Zenon
  <1> HIDE DEF At, N, lines
  <1>3. ASSUME NEW s \in S, NEW k \in 1 .. N
        PROVE  Step(s, k) \in S
      BY <1>2
  <1> HIDE DEF Step
  <1>4. f \in [Nat -> [S -> S]]
      BY <1>3
  <1>5. ASSUME NEW k \in 1 .. N, NEW s \in S
        PROVE  f[k - 1][s] = Step(s, k)
    <2>1. k - 1 \in Nat /\ (k - 1) + 1 = k
        OBVIOUS
    <2>2. QED  BY <2>1
  <1>6. <<>> \in S
      OBVIOUS
  <1> HIDE DEF f, S
  <1>7. PICK g : Iterates(S, <<>>, f, g)
      BY <1>4, <1>6, RecursiveFunction
  <1>8. /\ g \in [Nat -> S] /\ g[0] = <<>>
        /\ \A k \in Nat : g[k + 1] = f[k][g[k]]
      BY <1>7 DEF Iterates
  <1> DEFINE R(w) == [k \in 0 .. N |-> IF k = 0 THEN <<>>
                                       ELSE IF IsOther(n, lines[k])
                                       THEN Append(w[k - 1], At(k)) ELSE w[k - 1]]
             h == [k \in 0 .. N |-> g[k]]
  <1>9. h = R(h)
    <2>1. ASSUME NEW k \in 0 .. N
          PROVE  h[k] = IF k = 0 THEN <<>>
                        ELSE IF IsOther(n, lines[k]) THEN Append(h[k - 1], At(k)) ELSE h[k - 1]
      <3>1. CASE k = 0
          BY <1>1, <1>8, <3>1
      <3>2. CASE k # 0
        <4>1. k \in 1 .. N /\ k - 1 \in 0 .. N /\ k - 1 \in Nat /\ (k - 1) + 1 = k
            BY <1>1, <3>2
        <4>2. g[k - 1] \in S /\ h[k - 1] = g[k - 1] /\ h[k] = g[k]
            BY <1>8, <4>1
        <4>3. g[k] = f[k - 1][g[k - 1]]
            BY <1>8, <4>1
        <4>4. g[k] = Step(g[k - 1], k)
            BY <1>5, <4>1, <4>2, <4>3
        <4>5. QED  BY <3>2, <4>2, <4>4, Zenon DEF Step
      <3>3. QED  BY <3>1, <3>2
    <2> HIDE DEF h
    <2>2. h = [k \in 0 .. N |-> h[k]]
        BY DEF h
    <2>3. QED  BY <2>1, <2>2, Zenon
  <1> DEFINE w == CHOOSE v : v = R(v)
  <1>10. Listed(n) = w[N]
      BY Zenon DEF Listed, lines, N, At
  <1>11. w = R(w)
      BY <1>9, Zenon
  <1> HIDE DEF w, h
  <1> DEFINE A == {k \in Nat : k \in 0 .. N => w[k] \in S}
  <1>12. 0 \in A
    <2>1. w[0] = <<>>
      <3>1. 0 \in 0 .. N
          BY <1>1
      <3>2. R(w)[0] = <<>>
          BY <3>1
      <3> HIDE DEF R
      <3>3. QED  BY <1>11, <3>2, Zenon
    <2>2. QED  BY <1>6, <2>1
  <1>13. ASSUME NEW k \in Nat, k \in A
         PROVE  k + 1 \in A
    <2> SUFFICES ASSUME k + 1 \in 0 .. N
                 PROVE  w[k + 1] \in S
        OBVIOUS
    <2>1. k \in 0 .. N /\ k + 1 \in 1 .. N /\ (k + 1) - 1 = k /\ k + 1 # 0
        BY <1>1
    <2>2. w[k] \in S
        BY <1>13, <2>1
    <2>3. R(w)[k + 1] = Step(w[k], k + 1)
      <3>1. R(w)[k + 1] = IF IsOther(n, lines[k + 1]) THEN Append(w[k], At(k + 1)) ELSE w[k]
          BY <2>1
      <3> HIDE DEF R
      <3>2. QED  BY <3>1, Zenon DEF Step
    <2> HIDE DEF R
    <2>4. w[k + 1] = Step(w[k], k + 1)
        BY <1>11, <2>3, Zenon
    <2>5. QED  BY <1>3, <2>1, <2>2, <2>4
  <1> HIDE DEF A
  <1>14. N \in A
      BY <1>1, <1>12, <1>13, InductionOverSet
  <1>15. w[N] \in S
      BY <1>1, <1>14 DEF A
  <1>16. QED  BY <1>10, <1>15 DEF S

\* The list and the set of peers of one node, which has the address me.
ListAgrees(s, t, me) ==
    /\ s \in Seq(Address) /\ t \subseteq Address
    /\ IsInjective(s) /\ ToSet(s) = t /\ me \notin ToSet(s)

\* add_peer puts an address at the end of the list that is not in it.
LEMMA OneMore ==
    ASSUME NEW s, NEW t, NEW me, ListAgrees(s, t, me),
           NEW p \in Address, p # me, p \notin t
    PROVE  ListAgrees(Append(s, p), t \cup {p}, me) /\ Len(Append(s, p)) = Len(s) + 1
  <1> DEFINE u == Append(s, p)
  <1>1. /\ s \in Seq(Address) /\ DOMAIN s = 1 .. Len(s) /\ Len(s) \in Nat
        /\ \A i \in 1 .. Len(s) : s[i] # p /\ s[i] # me
      BY DEF ListAgrees, ToSet
  <1>2. /\ u \in Seq(Address) /\ DOMAIN u = 1 .. Len(s) + 1 /\ Len(u) = Len(s) + 1
        /\ u[Len(s) + 1] = p /\ \A i \in 1 .. Len(s) : u[i] = s[i]
      BY <1>1
  <1> HIDE DEF u
  <1>3. IsInjective(u)
    <2>1. \A i, j \in 1 .. Len(s) : s[i] = s[j] => i = j
        BY <1>1 DEF ListAgrees, IsInjective
    <2>2. \A i, j \in 1 .. Len(s) + 1 : u[i] = u[j] => i = j
        BY <1>1, <1>2, <2>1
    <2>3. QED  BY <1>2, <2>2 DEF IsInjective
  <1>4. ToSet(u) = t \cup {p}
    <2>1. ToSet(s) = t
        BY DEF ListAgrees
    <2>2. \A x : x \in ToSet(u) <=> \E i \in 1 .. Len(s) + 1 : x = u[i]
        BY <1>2 DEF ToSet
    <2>3. \A x : x \in ToSet(s) <=> \E i \in 1 .. Len(s) : x = s[i]
        BY <1>1 DEF ToSet
    <2>4. \A x : x \in ToSet(u) <=> x \in t \/ x = p
        BY <1>1, <1>2, <2>1, <2>2, <2>3
    <2>5. QED  BY <2>4
  <1>5. me \notin ToSet(u)
    <2>1. me \notin t
        BY DEF ListAgrees
    <2>2. QED  BY <1>4, <2>1
  <1>6. QED  BY <1>2, <1>3, <1>4, <1>5 DEF u, ListAgrees

\* OnePeerPerAddress, node by node.
PeersInv ==
    /\ pc \in [Hosts -> {"start", "adding", "running"}]
    /\ tmp \in [Hosts -> Seq(Address)]
    /\ DOMAIN peers = Hosts /\ DOMAIN speers = Hosts
    /\ peers = [n \in Hosts |-> peers[n]] /\ speers = [n \in Hosts |-> speers[n]]
    /\ \A n \in Hosts : /\ ListAgrees(peers[n], speers[n], Me(n))
                        /\ pc[n] # "running" => Len(peers[n]) <= MAX_PEERS

\* PeersInv is strong enough.
LEMMA PeersInvGives == PeersInv => OnePeerPerAddress
  <1> SUFFICES ASSUME PeersInv
               PROVE  OnePeerPerAddress
      OBVIOUS
  <1>1. peers \in [Hosts -> Seq(Address)] /\ speers \in [Hosts -> SUBSET Address]
    <2>1. \A n \in Hosts : peers[n] \in Seq(Address) /\ speers[n] \in SUBSET Address
        BY Zenon DEF PeersInv, ListAgrees
    <2>2. QED  BY <2>1, Zenon DEF PeersInv
  <1>2. PeersTypeOK
      BY <1>1, Zenon DEF PeersInv, PeersTypeOK
  <1>3. QED  BY <1>2, Zenon DEF PeersInv, OnePeerPerAddress, ListAgrees

\* No host has started: every list is empty.
LEMMA PeersInitInv == PeersInit => PeersInv
  <1> SUFFICES ASSUME PeersInit
               PROVE  PeersInv
      OBVIOUS
  <1>1. <<>> \in Seq(Address) /\ Len(<<>>) = 0 /\ DOMAIN <<>> = {}
      OBVIOUS
  <1>2. ASSUME NEW n \in Hosts
        PROVE  ListAgrees(<<>>, {}, Me(n))
    <2>1. ToSet(<<>>) = {} /\ IsInjective(<<>>)
        BY <1>1 DEF ToSet, IsInjective
    <2>2. QED  BY <1>1, <2>1 DEF ListAgrees
  <1>3. 0 <= MAX_PEERS
      BY PeersAssumption
  <1>4. \A n \in Hosts : peers[n] = <<>> /\ speers[n] = {}
      BY Zenon DEF PeersInit
  <1>5. /\ pc \in [Hosts -> {"start", "adding", "running"}]
        /\ tmp \in [Hosts -> Seq(Address)]
      BY <1>1 DEF PeersInit
  <1>6. /\ DOMAIN peers = Hosts /\ DOMAIN speers = Hosts
        /\ peers = [n \in Hosts |-> peers[n]] /\ speers = [n \in Hosts |-> speers[n]]
      BY Zenon DEF PeersInit
  <1>7. QED  BY <1>1, <1>2, <1>3, <1>4, <1>5, <1>6, Zenon DEF PeersInv

\* add_peer of any address keeps list and set together, and adds one at most.
LEMMA AddPeerKeeps ==
    ASSUME PeersInv, NEW n \in Hosts, NEW p \in Address, AddPeer(n, p)
    PROVE  /\ DOMAIN peers' = Hosts /\ DOMAIN speers' = Hosts
           /\ peers' = [x \in Hosts |-> peers'[x]] /\ speers' = [x \in Hosts |-> speers'[x]]
           /\ \A x \in Hosts : ListAgrees(peers'[x], speers'[x], Me(x))
           /\ \A x \in Hosts \ {n} : peers'[x] = peers[x]
           /\ Len(peers'[n]) <= Len(peers[n]) + 1
  <1>1. \A x \in Hosts : ListAgrees(peers[x], speers[x], Me(x))
      BY Zenon DEF PeersInv
  <1>2. Len(peers[n]) \in Nat
      BY <1>1, LenProperties DEF ListAgrees
  <1>3. CASE p = Me(n) \/ Known(n, p)
    <2>1. peers' = peers /\ speers' = speers
        BY <1>3, Zenon DEF AddPeer
    <2>2. Len(peers[n]) <= Len(peers[n]) + 1
        BY <1>2
    <2>3. QED  BY <1>1, <2>1, <2>2, Zenon DEF PeersInv
  <1>4. CASE ~(p = Me(n) \/ Known(n, p))
    <2>1. /\ peers'  = [peers EXCEPT ![n] = Append(peers[n], p)]
          /\ speers' = [speers EXCEPT ![n] = speers[n] \cup {p}]
        BY <1>4, Zenon DEF AddPeer
    <2>2. /\ DOMAIN peers' = Hosts /\ DOMAIN speers' = Hosts
          /\ peers' = [x \in Hosts |-> peers'[x]] /\ speers' = [x \in Hosts |-> speers'[x]]
        BY <2>1, Zenon DEF PeersInv
    <2>3. /\ peers'[n] = Append(peers[n], p) /\ speers'[n] = speers[n] \cup {p}
          /\ \A x \in Hosts \ {n} : peers'[x] = peers[x] /\ speers'[x] = speers[x]
        BY <2>1, Zenon DEF PeersInv
    <2>4. p # Me(n) /\ p \notin speers[n]
        BY <1>4, Zenon DEF Known
    <2>5. /\ ListAgrees(Append(peers[n], p), speers[n] \cup {p}, Me(n))
          /\ Len(Append(peers[n], p)) = Len(peers[n]) + 1
        BY <1>1, <2>4, OneMore, Zenon
    <2>6. Len(peers'[n]) <= Len(peers[n]) + 1
        BY <1>2, <2>3, <2>5
    <2>7. \A x \in Hosts : ListAgrees(peers'[x], speers'[x], Me(x))
        BY <1>1, <2>3, <2>5, Zenon
    <2>8. QED  BY <2>2, <2>3, <2>6, <2>7, Zenon
  <1>5. QED  BY <1>3, <1>4, Zenon

\* Reading the file, the loop of main, running and hearing of senders keep the
\* invariant.
LEMMA PeersNextInv ==
    ASSUME PeersInv, [PeersNext]_peersVars
    PROVE  PeersInv'
  <1>1. ASSUME NEW n \in Hosts, ReadPeers(n)
        PROVE  PeersInv'
    <2>1. /\ pc' = [pc EXCEPT ![n] = "adding"] /\ tmp' = [tmp EXCEPT ![n] = Listed(n)]
          /\ peers' = peers /\ speers' = speers /\ pc[n] = "start"
        BY <1>1, Zenon DEF ReadPeers
    <2>2. Listed(n) \in Seq(Address)
        BY ListedFacts
    <2>3. pc' \in [Hosts -> {"start", "adding", "running"}] /\ tmp' \in [Hosts -> Seq(Address)]
        BY <2>1, <2>2 DEF PeersInv
    <2>4. \A x \in Hosts : pc'[x] # "running" => pc[x] # "running"
        BY <2>1 DEF PeersInv
    <2>5. QED  BY <2>1, <2>3, <2>4, Zenon DEF PeersInv, Me
  <1>2. ASSUME NEW n \in Hosts, NEW i \in DOMAIN tmp[n], AddOne(n, i)
        PROVE  PeersInv'
    <2>1. /\ pc' = pc /\ tmp' = [tmp EXCEPT ![n] = RemoveAt(tmp[n], i)]
          /\ AddPeer(n, tmp[n][i]) /\ Len(peers[n]) < MAX_PEERS
        BY <1>2, Zenon DEF AddOne, Erased, WantsPeers
    <2>2. tmp[n] \in Seq(Address) /\ i \in 1 .. Len(tmp[n])
        BY DEF PeersInv
    <2>3. tmp[n][i] \in Address /\ RemoveAt(tmp[n], i) \in Seq(Address)
        BY <2>2, ElementOfSeq, RemoveFacts
    <2>4. tmp' \in [Hosts -> Seq(Address)]
        BY <2>1, <2>3 DEF PeersInv
    <2>5. /\ DOMAIN peers' = Hosts /\ DOMAIN speers' = Hosts
          /\ peers' = [x \in Hosts |-> peers'[x]] /\ speers' = [x \in Hosts |-> speers'[x]]
          /\ \A x \in Hosts : ListAgrees(peers'[x], speers'[x], Me(x))
          /\ \A x \in Hosts \ {n} : peers'[x] = peers[x]
          /\ Len(peers'[n]) <= Len(peers[n]) + 1
        BY <2>1, <2>3, AddPeerKeeps, Zenon
    <2>6. Len(peers'[n]) <= MAX_PEERS
      <3>1. Len(peers[n]) \in Nat /\ Len(peers'[n]) \in Nat
          BY <2>5, LenProperties DEF PeersInv, ListAgrees
      <3>2. QED  BY <2>1, <2>5, <3>1, PeersAssumption
    <2>7. QED  BY <2>1, <2>4, <2>5, <2>6, Zenon DEF PeersInv, Me
  <1>3. ASSUME NEW n \in Hosts, Run(n)
        PROVE  PeersInv'
    <2>1. pc' = [pc EXCEPT ![n] = "running"] /\ UNCHANGED <<tmp, peers, speers>>
        BY <1>3, Zenon DEF Run
    <2>2. pc' \in [Hosts -> {"start", "adding", "running"}]
        BY <2>1 DEF PeersInv
    <2>3. \A x \in Hosts : pc'[x] # "running" => pc[x] # "running"
        BY <2>1 DEF PeersInv
    <2>4. QED  BY <2>1, <2>2, <2>3, Zenon DEF PeersInv, Me
  <1>4. ASSUME NEW n \in Hosts, NEW x \in Hosts, Hear(n, x)
        PROVE  PeersInv'
    <2> DEFINE p == [ip |-> Resolve[Conf[x].my_name], port |-> Conf[x].port]
    <2>1. AddPeer(n, p) /\ pc[n] = "running" /\ UNCHANGED <<pc, tmp>>
        BY <1>4, Zenon DEF Hear
    <2>2. p \in Address
      <3>1. Conf[x].my_name \in DOMAIN Resolve /\ Conf[x].port \in Nat
          BY ConfAssumption, Zenon
      <3>2. QED  BY <3>1, Zenon DEF Address
    <2> HIDE DEF p
    <2>3. /\ DOMAIN peers' = Hosts /\ DOMAIN speers' = Hosts
          /\ peers' = [y \in Hosts |-> peers'[y]] /\ speers' = [y \in Hosts |-> speers'[y]]
          /\ \A y \in Hosts : ListAgrees(peers'[y], speers'[y], Me(y))
          /\ \A y \in Hosts \ {n} : peers'[y] = peers[y]
        BY <2>1, <2>2, AddPeerKeeps, Zenon
    <2>4. QED  BY <2>1, <2>3, Zenon DEF PeersInv, Me
  <1>5. CASE UNCHANGED peersVars
      BY <1>5, Zenon DEF PeersInv, peersVars, Me
  <1>6. QED  BY <1>1, <1>2, <1>3, <1>4, <1>5, Zenon DEF PeersNext

\* For every file of peers, every order in which main draws from it and every
\* sequence of messages heard: a node has every address once in its list of
\* peers, never its own, and MAX_PEERS at most from the file.
THEOREM PeersSafety == PeersSpec => []OnePeerPerAddress
  <1>1. PeersInv /\ [PeersNext]_peersVars => PeersInv'
      BY PeersNextInv
  <1>2. QED  BY <1>1, PeersInitInv, PeersInvGives, PTL DEF PeersSpec

------------------------------------------------------------------------------
\* Pings.

\* The pings on their way on a link: wires w, buffers b.
OnLink(w, b, l) == ToSet(b[l]) \cup ToSet(w[l])

\* What node u has sent on: the origin sends 0, the others one more than they
\* recorded.
SentOn(u, tt) == IF u = tt[1] THEN 0 ELSE pings[u][tt] + 1

\* A ping that was not started is nowhere; its origin knows each it started.
StartedOnly ==
    \A tt \in PingId :
        /\ tt[2] > no_pings[tt[1]] =>
               /\ \A n \in Nodes : pings[n][tt] = None
               /\ \A l \in Links : \A p \in OnLink(wire, buffer, l) : p.tt # tt
        /\ tt[2] <= no_pings[tt[1]] => pings[tt[1]][tt] = 0

\* No ping claims less than the distance of the node it comes from.
NotTooNear ==
    /\ \A l \in Links : \A p \in OnLink(wire, buffer, l) :
           l[1] \in WithinHops[p.dnext][p.tt[1]]
    /\ \A tt \in PingId : \A n \in Nodes \ {tt[1]} :
           pings[n][tt] # None => n \in WithinHops[pings[n][tt] + 1][tt[1]]

\* What a node has recorded its neighbour has heard of, or will, unless a ping
\* was taken for a duplicate.
PassedOn ==
    ~lost => \A tt \in PingId : \A l \in Links :
        Mode(tt) = 1 /\ pings[l[1]][tt] # None =>
            \/ pings[l[2]][tt] # None /\ pings[l[2]][tt] <= SentOn(l[1], tt)
            \/ [tt |-> tt, dnext |-> SentOn(l[1], tt)] \in OnLink(wire, buffer, l)

PingInv == PingTypeOK /\ StartedOnly /\ NotTooNear /\ PassedOn

\* WithinHops is what its recursive definition says.
LEMMA HopsFacts ==
    /\ \A d \in Nat : WithinHops[d] \in [Nodes -> SUBSET Nodes]
    /\ \A n \in Nodes : WithinHops[0][n] = {n}
    /\ \A d \in Nat : \A n \in Nodes : \A x :
           x \in WithinHops[d + 1][n] <=>
               \/ x \in WithinHops[d][n]
               \/ \E l \in Links : l[1] \in WithinHops[d][n] /\ x = l[2]
  <1> DEFINE S == [Nodes -> SUBSET Nodes]
             b == [n \in Nodes |-> {n}]
             Step(F) == [n \in Nodes |-> F[n] \cup {l[2] : l \in {x \in Links : x[1] \in F[n]}}]
             f == [d \in Nat |-> [F \in S |-> Step(F)]]
  <1>1. b \in S
      OBVIOUS
  <1>2. ASSUME NEW F \in S
        PROVE  Step(F) \in S
    <2>1. \A l \in Links : l[2] \in Nodes
        BY LinksAssumption
    <2>2. \A n \in Nodes : F[n] \cup {l[2] : l \in {x \in Links : x[1] \in F[n]}} \in SUBSET Nodes
        BY <2>1
    <2>3. QED  BY <2>2
  <1> HIDE DEF Step
  <1>3. f \in [Nat -> [S -> S]] /\ \A d \in Nat : \A F \in S : f[d][F] = Step(F)
      BY <1>2
  <1> HIDE DEF f, S, b
  <1>4. PICK g : Iterates(S, b, f, g)
      BY <1>1, <1>3, RecursiveFunction
  <1>5. /\ g \in [Nat -> S] /\ g[0] = b
        /\ \A d \in Nat : g[d + 1] = Step(g[d])
      BY <1>3, <1>4 DEF Iterates
  <1> DEFINE R(w) == [d \in Nat |-> [n \in Nodes |->
                         IF d = 0 THEN {n}
                         ELSE w[d - 1][n]
                                \cup {l[2] : l \in {x \in Links : x[1] \in w[d - 1][n]}}]]
             Body(w, d) == IF d = 0 THEN b ELSE Step(w[d - 1])
  <1>6. \A w : R(w) = [d \in Nat |-> Body(w, d)]
      BY DEF b, Step
  <1>7. g = R(g)
    <2>1. \A d \in Nat : g[d] = Body(g, d)
      <3>1. ASSUME NEW d \in Nat
            PROVE  g[d] = Body(g, d)
        <4>1. CASE d = 0
            BY <1>5, <4>1
        <4>2. CASE d # 0
          <5>1. d - 1 \in Nat /\ (d - 1) + 1 = d
              BY <4>2
          <5>2. g[(d - 1) + 1] = Step(g[d - 1])
              BY <1>5, <5>1
          <5>3. QED  BY <4>2, <5>1, <5>2
        <4>3. QED  BY <4>1, <4>2
      <3>2. QED  BY <3>1
    <2> HIDE DEF Body
    <2>2. g = [d \in Nat |-> Body(g, d)]
        BY <1>5, <2>1
    <2>3. QED  BY <1>6, <2>2, Zenon
  <1> DEFINE W == WithinHops
  <1>8. W = R(W)
    <2>1. W = CHOOSE v : v = R(v)
        BY Zenon DEF WithinHops
    <2>2. QED  BY <1>7, <2>1, Zenon
  <1> HIDE DEF R, W
  <1>9. W = [d \in Nat |-> Body(W, d)]
      BY <1>6, <1>8, Zenon
  <1>10. W[0] = b /\ \A d \in Nat : W[d + 1] = Step(W[d])
    <2>1. W[0] = b
        BY <1>9
    <2>2. ASSUME NEW d \in Nat
          PROVE  W[d + 1] = Step(W[d])
      <3>1. d + 1 \in Nat /\ d + 1 # 0 /\ (d + 1) - 1 = d
          OBVIOUS
      <3>2. W[d + 1] = Body(W, d + 1)
          BY <1>9, <3>1, Zenon
      <3>3. QED  BY <3>1, <3>2
    <2>3. QED  BY <2>1, <2>2
  <1> HIDE DEF Body
  <1> DEFINE A == {d \in Nat : W[d] \in S}
  <1>11. 0 \in A
      BY <1>1, <1>10
  <1>12. \A d \in Nat : d \in A => d + 1 \in A
      BY <1>2, <1>10
  <1> HIDE DEF A
  <1>13. \A d \in Nat : d \in A
      BY <1>11, <1>12, InductionOverSet
  <1>14. \A d \in Nat : W[d] \in [Nodes -> SUBSET Nodes]
      BY <1>13, Zenon DEF A, S
  <1>15. \A n \in Nodes : W[0][n] = {n}
      BY <1>10 DEF b
  <1>16. ASSUME NEW d \in Nat, NEW n \in Nodes, NEW x
         PROVE  x \in W[d + 1][n] <=> \/ x \in W[d][n]
                                      \/ \E l \in Links : l[1] \in W[d][n] /\ x = l[2]
    <2>1. W[d + 1][n] = W[d][n] \cup {l[2] : l \in {y \in Links : y[1] \in W[d][n]}}
        BY <1>10, Zenon DEF Step
    <2>2. QED  BY <2>1, Zenon
  <1>17. QED  BY <1>14, <1>15, <1>16, Zenon DEF W

\* The elements of sequences: one more, a part, one after the other.
LEMMA ToSetFacts ==
    ASSUME NEW S, NEW s \in Seq(S)
    PROVE  /\ \A x : x \in ToSet(s) <=> \E i \in 1 .. Len(s) : x = s[i]
           /\ ToSet(s) \subseteq S
           /\ \A x \in S : ToSet(Append(s, x)) = ToSet(s) \cup {x}
           /\ \A t \in Seq(S) : ToSet(s \o t) = ToSet(s) \cup ToSet(t)
           /\ \A k \in 0 .. Len(s) :
                 /\ SubSeq(s, 1, k) \in Seq(S) /\ SubSeq(s, k + 1, Len(s)) \in Seq(S)
                 /\ ToSet(s) = ToSet(SubSeq(s, 1, k)) \cup ToSet(SubSeq(s, k + 1, Len(s)))
  <1>1. ASSUME NEW t \in Seq(S)
        PROVE  \A x : x \in ToSet(t) <=> \E i \in 1 .. Len(t) : x = t[i]
      BY DEF ToSet
  <1>2. ToSet(s) \subseteq S
      BY <1>1
  <1>3. ASSUME NEW x \in S
        PROVE  ToSet(Append(s, x)) = ToSet(s) \cup {x}
    <2> DEFINE u == Append(s, x)
    <2>1. /\ u \in Seq(S) /\ Len(u) = Len(s) + 1 /\ u[Len(s) + 1] = x
          /\ \A i \in 1 .. Len(s) : u[i] = s[i]
        OBVIOUS
    <2> HIDE DEF u
    <2>2. \A y : y \in ToSet(u) <=> y \in ToSet(s) \/ y = x
        BY <1>1, <2>1
    <2>3. QED  BY <2>2 DEF u
  <1>4. ASSUME NEW t \in Seq(S)
        PROVE  ToSet(s \o t) = ToSet(s) \cup ToSet(t)
    <2> DEFINE u == s \o t
    <2>1. /\ u \in Seq(S) /\ Len(u) = Len(s) + Len(t)
          /\ \A i \in 1 .. Len(s) : u[i] = s[i]
          /\ \A i \in 1 .. Len(t) : u[Len(s) + i] = t[i]
          /\ \A i \in Len(s) + 1 .. Len(s) + Len(t) : u[i] = t[i - Len(s)]
        OBVIOUS
    <2> HIDE DEF u
    <2>2. ASSUME NEW y, y \in ToSet(u)
          PROVE  y \in ToSet(s) \/ y \in ToSet(t)
      <3>1. PICK i \in 1 .. Len(u) : y = u[i]
          BY <1>1, <2>1, <2>2
      <3>2. CASE i <= Len(s)
          BY <1>1, <2>1, <3>1, <3>2
      <3>3. CASE i > Len(s)
        <4>1. i - Len(s) \in 1 .. Len(t) /\ y = t[i - Len(s)]
            BY <2>1, <3>1, <3>3
        <4>2. QED  BY <1>1, <4>1
      <3>4. QED  BY <3>2, <3>3
    <2>3. ASSUME NEW y, y \in ToSet(s)
          PROVE  y \in ToSet(u)
      <3>1. PICK i \in 1 .. Len(s) : y = s[i]
          BY <1>1, <2>3
      <3>2. i \in 1 .. Len(u) /\ y = u[i]
          BY <2>1, <3>1
      <3>3. QED  BY <1>1, <2>1, <3>2
    <2>4. ASSUME NEW y, y \in ToSet(t)
          PROVE  y \in ToSet(u)
      <3>1. PICK i \in 1 .. Len(t) : y = t[i]
          BY <1>1, <2>4
      <3>2. Len(s) + i \in 1 .. Len(u) /\ y = u[Len(s) + i]
          BY <2>1, <3>1
      <3>3. QED  BY <1>1, <2>1, <3>2
    <2>5. QED  BY <2>2, <2>3, <2>4 DEF u
  <1>5. ASSUME NEW k \in 0 .. Len(s)
        PROVE  /\ SubSeq(s, 1, k) \in Seq(S) /\ SubSeq(s, k + 1, Len(s)) \in Seq(S)
               /\ ToSet(s) = ToSet(SubSeq(s, 1, k)) \cup ToSet(SubSeq(s, k + 1, Len(s)))
    <2> DEFINE u == SubSeq(s, 1, k)
               v == SubSeq(s, k + 1, Len(s))
    <2>1. /\ u \in Seq(S) /\ Len(u) = k /\ \A i \in 1 .. k : u[i] = s[i]
        OBVIOUS
    <2>2. /\ v \in Seq(S) /\ Len(v) = Len(s) - k
          /\ \A i \in 1 .. Len(s) - k : v[i] = s[k + i]
        OBVIOUS
    <2> HIDE DEF u, v
    <2>3. ASSUME NEW y, y \in ToSet(s)
          PROVE  y \in ToSet(u) \/ y \in ToSet(v)
      <3>1. PICK i \in 1 .. Len(s) : y = s[i]
          BY <1>1, <2>3
      <3>2. CASE i <= k
          BY <1>1, <2>1, <3>1, <3>2
      <3>3. CASE i > k
        <4>1. i - k \in 1 .. Len(v) /\ k + (i - k) = i
            BY <2>2, <3>1, <3>3
        <4>2. y = v[i - k]
            BY <2>2, <3>1, <4>1
        <4>3. QED  BY <1>1, <2>2, <4>1, <4>2
      <3>4. QED  BY <3>2, <3>3
    <2>4. ASSUME NEW y, y \in ToSet(u)
          PROVE  y \in ToSet(s)
        BY <1>1, <2>1, <2>4
    <2>5. ASSUME NEW y, y \in ToSet(v)
          PROVE  y \in ToSet(s)
      <3>1. PICK i \in 1 .. Len(v) : y = v[i]
          BY <1>1, <2>2, <2>5
      <3>2. k + i \in 1 .. Len(s) /\ y = s[k + i]
          BY <2>2, <3>1
      <3>3. QED  BY <1>1, <3>2
    <2>6. QED  BY <2>1, <2>2, <2>3, <2>4, <2>5 DEF u, v
  <1>6. QED  BY <1>1, <1>2, <1>3, <1>4, <1>5

\* What full_buffer keeps of the messages s: none or the last; when no more are
\* missing than the first, which was handled, none is lost.
LEMMA KeptFacts ==
    ASSUME NEW S, NEW s \in Seq(S), s # <<>>, NEW more \in BOOLEAN
    PROVE  /\ Kept(s, more) \in Seq(S) /\ Len(Kept(s, more)) <= 1
           /\ ToSet(Kept(s, more)) \subseteq ToSet(s)
           /\ Head(s) \in ToSet(s) /\ Head(s) \in S
           /\ Len(s) <= 1 + Len(Kept(s, more)) =>
                 \A x \in ToSet(s) : x = Head(s) \/ x \in ToSet(Kept(s, more))
  <1> DEFINE r == Kept(s, more)
  <1>1. Len(s) \in Nat \ {0} /\ s[Len(s)] \in S /\ Head(s) = s[1] /\ s[1] \in S
      OBVIOUS
  <1>2. Last(s) = s[Len(s)]
      BY DEF Last
  <1>3. \A x : x \in ToSet(s) <=> \E i \in 1 .. Len(s) : x = s[i]
      BY ToSetFacts
  <1>4. r = <<>> \/ (r = <<s[Len(s)]>> /\ Len(s) # 1)
      BY <1>2 DEF Kept
  <1>5. r = <<>> => Len(r) = 0 /\ ToSet(r) = {} /\ r \in Seq(S)
      BY DEF ToSet
  <1>6. r = <<s[Len(s)]>> => Len(r) = 1 /\ ToSet(r) = {s[Len(s)]} /\ r \in Seq(S)
      BY <1>1 DEF ToSet
  <1> HIDE DEF r
  <1>7. r \in Seq(S) /\ Len(r) <= 1
      BY <1>4, <1>5, <1>6
  <1>8. ToSet(r) \subseteq ToSet(s) /\ Head(s) \in ToSet(s)
      BY <1>1, <1>3, <1>4, <1>5, <1>6
  <1>9. ASSUME Len(s) <= 1 + Len(r), NEW x \in ToSet(s)
        PROVE  x = Head(s) \/ x \in ToSet(r)
    <2>1. PICK i \in 1 .. Len(s) : x = s[i]
        BY <1>3
    <2>2. CASE r = <<>>
        BY <1>1, <1>5, <1>9, <2>1, <2>2
    <2>3. CASE r = <<s[Len(s)]>>
        BY <1>1, <1>6, <1>9, <2>1, <2>3
    <2>4. QED  BY <1>4, <2>2, <2>3
  <1>10. QED  BY <1>1, <1>7, <1>8, <1>9 DEF r

\* The links hold v: what they held, w, and p on every link of n.
Spread(w, v, n, p) ==
    /\ v \in [Links -> Seq(Ping)]
    /\ \A l \in Links : \A x : x \in ToSet(v[l]) <=> x \in ToSet(w[l]) \/ (l[1] = n /\ x = p)

\* write_to_all_peers puts a ping on every link of n, behind the others.
LEMMA SentFacts ==
    ASSUME NEW w \in [Links -> Seq(Ping)], NEW n, NEW p \in Ping
    PROVE  Spread(w, SentToAll(w, n, p), n, p)
  <1>1. ASSUME NEW l \in Links
        PROVE  /\ SentToAll(w, n, p)[l] \in Seq(Ping)
               /\ \A x : x \in ToSet(SentToAll(w, n, p)[l])
                          <=> x \in ToSet(w[l]) \/ (l[1] = n /\ x = p)
    <2>1. w[l] \in Seq(Ping)
        OBVIOUS
    <2>2. SentToAll(w, n, p)[l] = IF l[1] = n THEN Append(w[l], p) ELSE w[l]
        BY Zenon DEF SentToAll
    <2>3. CASE l[1] = n
      <3>1. Append(w[l], p) \in Seq(Ping)
          BY <2>1
      <3>2. ToSet(Append(w[l], p)) = ToSet(w[l]) \cup {p}
        <4> DEFINE s == w[l]
        <4>1. s \in Seq(Ping)
            BY <2>1
        <4> HIDE DEF s
        <4>2. ToSet(Append(s, p)) = ToSet(s) \cup {p}
            BY <4>1, ToSetFacts
        <4>3. QED  BY <4>2 DEF s
      <3>3. QED  BY <2>2, <2>3, <3>1, <3>2, Zenon
    <2>4. CASE l[1] # n
        BY <2>1, <2>2, <2>4
    <2>5. QED  BY <2>3, <2>4
  <1>2. SentToAll(w, n, p) = [l \in Links |-> SentToAll(w, n, p)[l]]
      BY Zenon DEF SentToAll
  <1>3. QED  BY <1>1, <1>2, Zenon DEF Spread

\* run_network starts a ping: its record, and the ping on all links of n.
LEMMA StartPingStep ==
    ASSUME PingTypeOK, NEW n \in Origins, StartPing(n)
    PROVE  LET tt == <<n, no_pings[n] + 1>>
               p == [tt |-> tt, dnext |-> 0]
           IN  /\ tt \in PingId /\ tt[1] = n /\ tt[2] = no_pings[n] + 1
               /\ p \in Ping /\ p.tt = tt /\ p.dnext = 0
               /\ no_pings[n] + 1 \in 1 .. PING_REPEAT
               /\ wire' \in [Links -> Seq(Ping)]
               /\ \A l \in Links : \A x : x \in OnLink(wire', buffer', l)
                      <=> x \in OnLink(wire, buffer, l) \/ (l[1] = n /\ x = p)
  <1> DEFINE tt == <<n, no_pings[n] + 1>>
             p == [tt |-> tt, dnext |-> 0]
  <1>1. no_pings[n] + 1 \in 1 .. PING_REPEAT
      BY RepeatAssumption DEF PingTypeOK, StartPing
  <1>2. tt \in PingId /\ tt[1] = n /\ tt[2] = no_pings[n] + 1
      BY <1>1 DEF PingId
  <1>3. /\ no_pings' = [no_pings EXCEPT ![n] = no_pings[n] + 1]
        /\ pings' = [pings EXCEPT ![n][tt] = 0]
        /\ wire' = SentToAll(wire, n, p) /\ buffer' = buffer /\ lost' = lost
      BY Zenon DEF StartPing
  <1> HIDE DEF tt
  <1>4. p \in Ping /\ p.tt = tt /\ p.dnext = 0
    <2>1. 0 \in Nat
        OBVIOUS
    <2>2. QED  BY <1>2, <2>1, Zenon DEF Ping
  <1> HIDE DEF p
  <1>6. wire \in [Links -> Seq(Ping)]
      BY Zenon DEF PingTypeOK
  <1>7. Spread(wire, wire', n, p)
      BY <1>3, <1>4, <1>6, SentFacts
  <1>8. \A l \in Links : \A x : x \in OnLink(wire', buffer', l)
            <=> x \in OnLink(wire, buffer, l) \/ (l[1] = n /\ x = p)
    <2> SUFFICES ASSUME NEW l \in Links, NEW x
                 PROVE  x \in OnLink(wire', buffer', l)
                          <=> x \in OnLink(wire, buffer, l) \/ (l[1] = n /\ x = p)
        BY Zenon
    <2>1. buffer' = buffer
        BY <1>3
    <2>2. x \in ToSet(wire'[l]) <=> x \in ToSet(wire[l]) \/ (l[1] = n /\ x = p)
        BY <1>7 DEF Spread
    <2>3. QED  BY <2>1, <2>2, Zenon DEF OnLink
  <1>9. wire' \in [Links -> Seq(Ping)]
      BY <1>7, Zenon DEF Spread
  <1>10. QED  BY <1>1, <1>2, <1>4, <1>8, <1>9, Zenon DEF p, tt

\* What is sent on is a ping of the same origin and number, one hop further.
LEMMA NextHopFacts ==
    ASSUME NEW p \in Ping
    PROVE  /\ p.tt \in PingId /\ p.dnext \in Nat
           /\ NextHop(p) \in Ping /\ NextHop(p).tt = p.tt /\ NextHop(p).dnext = p.dnext + 1
           /\ NextHop(p) = [tt |-> p.tt, dnext |-> p.dnext + 1]
           /\ p = [tt |-> p.tt, dnext |-> p.dnext]
    BY DEF Ping, NextHop

\* The ping that start and process_buffer handle when k more arrive on l.
Handled(l, k) == Head(buffer[l] \o SubSeq(wire[l], 1, k))

\* A read handles one ping of the link; the others stay, or lost is set; if it
\* is new it is sent on to all.
ReadOutcome(l, k) ==
    LET p   == Handled(l, k)
        new == IsNew(l[2], p)
    IN  /\ p \in Ping /\ p \in OnLink(wire, buffer, l)
        /\ wire' \in [Links -> Seq(Ping)] /\ buffer' \in [Links -> Seq(Ping)]
        /\ \A e \in Links : Len(buffer'[e]) <= 1
        /\ lost' \in BOOLEAN /\ no_pings' = no_pings
        /\ new => pings' = [pings EXCEPT ![l[2]][p.tt] = p.dnext]
        /\ ~new => pings' = pings
        /\ \A e \in Links : \A x \in OnLink(wire', buffer', e) :
              \/ x \in OnLink(wire, buffer, e)
              \/ new /\ e[1] = l[2] /\ x = NextHop(p)
        /\ new => \A e \in Links : e[1] = l[2] => NextHop(p) \in OnLink(wire', buffer', e)
        /\ ~lost' => /\ ~lost
                     /\ \A e \in Links : \A x \in OnLink(wire, buffer, e) :
                           x \in OnLink(wire', buffer', e) \/ (e = l /\ x = p)

\* start and process_buffer do that.
LEMMA ReadStep ==
    ASSUME PingTypeOK, NEW l \in Links, NEW k \in 0 .. MAX_READ, NEW more \in BOOLEAN,
           ReadPings(l, k, more)
    PROVE  ReadOutcome(l, k)
  <1> DEFINE n   == l[2]
             s   == buffer[l] \o SubSeq(wire[l], 1, k)
             p   == Head(s)
             new == IsNew(n, p)
             t   == SubSeq(wire[l], k + 1, Len(wire[l]))
             taken == [wire EXCEPT ![l] = t]
             rest == Kept(s, more)
  <1>1. /\ wire \in [Links -> Seq(Ping)] /\ buffer \in [Links -> Seq(Ping)]
        /\ \A e \in Links : Len(buffer[e]) <= 1
        /\ k \in 0 .. Len(wire[l])
    <2>1. k <= Len(wire[l])
        BY Zenon DEF ReadPings
    <2>2. wire \in [Links -> Seq(Ping)] /\ buffer \in [Links -> Seq(Ping)]
        BY Zenon DEF PingTypeOK
    <2>3. \A e \in Links : Len(buffer[e]) <= 1
        BY Zenon DEF PingTypeOK
    <2>4. k \in 0 .. Len(wire[l])
        BY <2>1, <2>2, RepeatAssumption
    <2>5. QED  BY <2>2, <2>3, <2>4, Zenon
  <1>2. /\ s # <<>>
        /\ (new /\ pings' = [pings EXCEPT ![n][p.tt] = p.dnext]
                /\ wire' = SentToAll(taken, n, NextHop(p)))
             \/ (~new /\ wire' = taken /\ pings' = pings)
        /\ buffer' = [buffer EXCEPT ![l] = rest]
        /\ lost' = (lost \/ Len(s) > 1 + Len(rest)) /\ no_pings' = no_pings
      BY Zenon DEF ReadPings
  <1> HIDE DEF new
  <1>3. s \in Seq(Ping) /\ t \in Seq(Ping)
        /\ \A x : x \in OnLink(wire, buffer, l) <=> x \in ToSet(s) \/ x \in ToSet(t)
    <2> DEFINE u == wire[l]
               v == buffer[l]
               h == SubSeq(u, 1, k)
    <2>1. u \in Seq(Ping) /\ v \in Seq(Ping) /\ k \in 0 .. Len(u)
        BY <1>1
    <2> HIDE DEF u, v
    <2>2. /\ h \in Seq(Ping) /\ SubSeq(u, k + 1, Len(u)) \in Seq(Ping)
          /\ ToSet(u) = ToSet(h) \cup ToSet(SubSeq(u, k + 1, Len(u)))
        BY <2>1, ToSetFacts
    <2> HIDE DEF h
    <2>3. ToSet(v \o h) = ToSet(v) \cup ToSet(h)
        BY <2>1, <2>2, ToSetFacts
    <2>4. v \o h \in Seq(Ping)
        BY <2>1, <2>2
    <2>5. QED  BY <2>2, <2>3, <2>4, Zenon DEF OnLink, u, v, h
  <1>4. /\ rest \in Seq(Ping) /\ Len(rest) <= 1 /\ ToSet(rest) \subseteq ToSet(s)
        /\ p \in ToSet(s) /\ p \in Ping
        /\ Len(s) <= 1 + Len(rest) => \A x \in ToSet(s) : x = p \/ x \in ToSet(rest)
    <2> HIDE DEF s
    <2>1. QED  BY <1>2, <1>3, KeptFacts, Zenon
  <1>5. Len(s) \in Nat /\ Len(rest) \in Nat
      BY <1>3, <1>4, LenProperties
  <1>6. p \in OnLink(wire, buffer, l)
      BY <1>3, <1>4, Zenon
  <1>7. NextHop(p) \in Ping
    <2> HIDE DEF p
    <2>1. QED  BY <1>4, NextHopFacts
  <1> HIDE DEF s, p, t, rest
  <1>8. taken \in [Links -> Seq(Ping)] /\ taken[l] = t /\ \A e \in Links \ {l} : taken[e] = wire[e]
      BY <1>1, <1>3
  <1> HIDE DEF taken
  <1>9. /\ buffer' \in [Links -> Seq(Ping)] /\ buffer'[l] = rest
        /\ \A e \in Links \ {l} : buffer'[e] = buffer[e]
      BY <1>1, <1>2, <1>4
  <1>10. \A e \in Links : Len(buffer'[e]) <= 1
      BY <1>1, <1>4, <1>9, Zenon
  <1> DEFINE q == NextHop(p)
  <1>11. /\ wire' \in [Links -> Seq(Ping)]
         /\ \A e \in Links : \A x : x \in ToSet(wire'[e])
                <=> x \in ToSet(taken[e]) \/ (new /\ e[1] = n /\ x = q)
    <2> HIDE DEF q, n
    <2>1. CASE new
      <3>1. wire' = SentToAll(taken, n, q)
          BY <1>2, <2>1, Zenon DEF q
      <3>2. Spread(taken, wire', n, q)
          BY <1>7, <1>8, <3>1, SentFacts DEF q
      <3>3. QED  BY <2>1, <3>2 DEF Spread
    <2>2. CASE ~new
      <3>1. wire' = taken
          BY <1>2, <2>2, Zenon
      <3>2. QED  BY <1>8, <2>2, <3>1
    <2>3. QED  BY <2>1, <2>2, Zenon
  <1> HIDE DEF q, n
  <1>12. ASSUME NEW e \in Links, NEW x \in OnLink(wire', buffer', e)
         PROVE  x \in OnLink(wire, buffer, e) \/ (new /\ e[1] = n /\ x = q)
    <2>1. x \in ToSet(buffer'[e]) \/ x \in ToSet(taken[e]) \/ (new /\ e[1] = n /\ x = q)
        BY <1>11 DEF OnLink
    <2>2. CASE e = l
        BY <1>3, <1>4, <1>8, <1>9, <2>1, <2>2
    <2>3. CASE e # l
        BY <1>8, <1>9, <2>1, <2>3 DEF OnLink
    <2>4. QED  BY <2>2, <2>3
  <1>13. ASSUME new, NEW e \in Links, e[1] = n
         PROVE  q \in OnLink(wire', buffer', e)
      BY <1>11, <1>13 DEF OnLink
  <1>14. ASSUME ~lost'
         PROVE  /\ ~lost
                /\ \A e \in Links : \A x \in OnLink(wire, buffer, e) :
                      x \in OnLink(wire', buffer', e) \/ (e = l /\ x = p)
    <2>1. ~lost /\ ~(Len(s) > 1 + Len(rest))
        BY <1>2, <1>14, Zenon
    <2>2. \A x \in ToSet(s) : x = p \/ x \in ToSet(rest)
        BY <1>4, <1>5, <2>1
    <2>3. ASSUME NEW e \in Links, NEW x \in OnLink(wire, buffer, e)
          PROVE  x \in OnLink(wire', buffer', e) \/ (e = l /\ x = p)
      <3>1. CASE e = l
        <4>1. x \in ToSet(s) \/ x \in ToSet(t)
            BY <1>3, <2>3, <3>1, Zenon
        <4>2. x = p \/ x \in ToSet(rest) \/ x \in ToSet(t)
            BY <2>2, <4>1, Zenon
        <4>3. x = p \/ x \in ToSet(buffer'[l]) \/ x \in ToSet(wire'[l])
            BY <1>8, <1>9, <1>11, <4>2
        <4>4. QED  BY <3>1, <4>3, Zenon DEF OnLink
      <3>2. CASE e # l
        <4>1. x \in ToSet(buffer[e]) \/ x \in ToSet(wire[e])
            BY Zenon DEF OnLink
        <4>2. x \in ToSet(buffer'[e]) \/ x \in ToSet(wire'[e])
            BY <1>8, <1>9, <1>11, <3>2, <4>1
        <4>3. QED  BY <4>2, Zenon DEF OnLink
      <3>3. QED  BY <3>1, <3>2, Zenon
    <2>4. QED  BY <2>1, <2>3, Zenon
  <1>15. lost' \in BOOLEAN
      BY <1>2, Zenon DEF PingTypeOK
  <1>16. /\ new => pings' = [pings EXCEPT ![n][p.tt] = p.dnext]
         /\ ~new => pings' = pings
      BY <1>2, Zenon
  <1>17. p = Handled(l, k) /\ (new <=> IsNew(l[2], p)) /\ n = l[2] /\ q = NextHop(p)
      BY Zenon DEF p, s, new, n, q, Handled
  <1>18. QED
      BY <1>2, <1>4, <1>6, <1>9, <1>10, <1>11, <1>12, <1>13, <1>14, <1>15, <1>16, <1>17, Zenon
      DEF ReadOutcome

\* P with d recorded by node n for ping tt.
Recorded(P, Q, n, tt, d) ==
    /\ Q \in [Nodes -> [PingId -> Nat \cup {None}]]
    /\ Q[n][tt] = d
    /\ \A x \in Nodes : \A t \in PingId : x # n \/ t # tt => Q[x][t] = P[x][t]

\* Recording a delay changes one entry of one node's table.
LEMMA RecordFacts ==
    ASSUME NEW P \in [Nodes -> [PingId -> Nat \cup {None}]],
           NEW n \in Nodes, NEW tt \in PingId, NEW d \in Nat
    PROVE  Recorded(P, [P EXCEPT ![n][tt] = d], n, tt, d)
    BY DEF Recorded

\* The parts of the identity of a ping.
LEMMA PingIdFacts ==
    ASSUME NEW tt \in PingId
    PROVE  /\ tt[1] \in Origins /\ tt[1] \in Nodes /\ tt[2] \in 1 .. PING_REPEAT
           /\ tt[2] \in Nat /\ tt = <<tt[1], tt[2]>>
    BY LinksAssumption, RepeatAssumption DEF PingId

\* A connection joins two nodes.
LEMMA LinkFacts ==
    ASSUME NEW l \in Links
    PROVE  l[1] \in Nodes /\ l[2] \in Nodes
    BY LinksAssumption

\* The parts of a started ping that the others do not have.
LEMMA StartPingInv ==
    ASSUME PingInv, NEW n \in Origins, StartPing(n)
    PROVE  PingInv'
  <1> DEFINE tt == <<n, no_pings[n] + 1>>
             p == [tt |-> tt, dnext |-> 0]
  <1>1. /\ tt \in PingId /\ tt[1] = n /\ tt[2] = no_pings[n] + 1
        /\ p \in Ping /\ p.tt = tt /\ p.dnext = 0
        /\ no_pings[n] + 1 \in 1 .. PING_REPEAT
        /\ wire' \in [Links -> Seq(Ping)]
        /\ \A l \in Links : \A x : x \in OnLink(wire', buffer', l)
               <=> x \in OnLink(wire, buffer, l) \/ (l[1] = n /\ x = p)
      BY StartPingStep, Zenon DEF PingInv
  <1>2. /\ no_pings' = [no_pings EXCEPT ![n] = no_pings[n] + 1]
        /\ pings' = [pings EXCEPT ![n][tt] = 0] /\ buffer' = buffer /\ lost' = lost
      BY Zenon DEF StartPing
  <1>3. /\ no_pings \in [Origins -> 0 .. PING_REPEAT]
        /\ pings \in [Nodes -> [PingId -> Nat \cup {None}]]
        /\ n \in Nodes /\ 0 \in Nat /\ 0 # None
      BY LinksAssumption DEF PingInv, PingTypeOK, None
  <1> DEFINE k == no_pings[n]
  <1>4. p = [tt |-> tt, dnext |-> 0]
      OBVIOUS
  <1> HIDE DEF tt, p
  <1>5. Recorded(pings, pings', n, tt, 0)
    <2>1. Recorded(pings, [pings EXCEPT ![n][tt] = 0], n, tt, 0)
        BY <1>1, <1>3, RecordFacts
    <2>2. QED  BY <1>2, <2>1, Zenon
  <1>6. /\ no_pings' \in [Origins -> 0 .. PING_REPEAT] /\ no_pings'[n] = no_pings[n] + 1
        /\ \A x \in Origins \ {n} : no_pings'[x] = no_pings[x]
    <2>1. no_pings[n] + 1 \in 0 .. PING_REPEAT
        BY <1>1
    <2>2. QED  BY <1>2, <1>3, <2>1
  <1>7. PingTypeOK'
    <2>1. pings' \in [Nodes -> [PingId -> Nat \cup {None}]]
        BY <1>5, Zenon DEF Recorded
    <2>2. QED  BY <1>1, <1>2, <1>6, <2>1, Zenon DEF PingInv, PingTypeOK
  <1>8. ASSUME NEW t \in PingId, t # tt
        PROVE  /\ \A x \in Nodes : pings'[x][t] = pings[x][t]
               /\ t[2] > no_pings'[t[1]] <=> t[2] > no_pings[t[1]]
               /\ t[2] <= no_pings'[t[1]] <=> t[2] <= no_pings[t[1]]
    <2>1. \A x \in Nodes : pings'[x][t] = pings[x][t]
        BY <1>5, <1>8, Zenon DEF Recorded
    <2>2. t[1] \in Origins /\ t[2] \in Nat /\ t = <<t[1], t[2]>>
        BY PingIdFacts
    <2>3. t[1] = n => t[2] # no_pings[n] + 1
        BY <1>8, <2>2 DEF tt
    <2>4. no_pings[t[1]] \in Nat
        BY <1>3, <2>2
    <2>5. QED  BY <1>6, <2>1, <2>2, <2>3, <2>4
  <1>9. /\ ~(tt[2] > no_pings'[tt[1]]) /\ ~(tt[2] <= no_pings[tt[1]])
        /\ tt[2] > no_pings[tt[1]]
    <2>1. no_pings[n] \in Nat
        BY <1>3
    <2>2. QED  BY <1>1, <1>6, <2>1
  <1>10. ASSUME NEW t \in PingId
         PROVE  /\ t[2] > no_pings'[t[1]] =>
                      /\ \A x \in Nodes : pings'[x][t] = None
                      /\ \A l \in Links : \A y \in OnLink(wire', buffer', l) : y.tt # t
                /\ t[2] <= no_pings'[t[1]] => pings'[t[1]][t] = 0
    <2>1. CASE t = tt
      <3>1. pings'[t[1]][t] = 0
          BY <1>1, <1>5, <2>1, Zenon DEF Recorded
      <3>2. QED  BY <1>9, <2>1, <3>1, Zenon
    <2>2. CASE t # tt
      <3>1. t[1] \in Nodes
          BY PingIdFacts
      <3>2. /\ t[2] > no_pings[t[1]] =>
                  /\ \A x \in Nodes : pings[x][t] = None
                  /\ \A l \in Links : \A y \in OnLink(wire, buffer, l) : y.tt # t
            /\ t[2] <= no_pings[t[1]] => pings[t[1]][t] = 0
          BY Zenon DEF PingInv, StartedOnly
      <3>3. QED  BY <1>1, <1>8, <2>2, <3>1, <3>2, Zenon
    <2>3. QED  BY <2>1, <2>2, Zenon
  <1>11. StartedOnly'
      BY <1>10, Zenon DEF StartedOnly
  <1>12. NotTooNear'
    <2>1. ASSUME NEW l \in Links, NEW y \in OnLink(wire', buffer', l)
          PROVE  l[1] \in WithinHops[y.dnext][y.tt[1]]
      <3>1. CASE y \in OnLink(wire, buffer, l)
          BY <3>1, Zenon DEF PingInv, NotTooNear
      <3>2. CASE l[1] = n /\ y = p
        <4>1. WithinHops[0][n] = {n}
            BY <1>3, HopsFacts, Zenon
        <4>2. n \in WithinHops[0][n]
            BY <4>1
        <4>3. p.dnext = 0 /\ p.tt[1] = n
            BY <1>1, Zenon
        <4>4. n \in WithinHops[p.dnext][p.tt[1]]
            BY <4>2, <4>3
        <4>5. QED  BY <3>2, <4>4, Zenon
      <3>3. y \in OnLink(wire, buffer, l) \/ (l[1] = n /\ y = p)
          BY <1>1, <2>1
      <3>4. QED  BY <3>1, <3>2, <3>3, Zenon
    <2>2. ASSUME NEW t \in PingId, NEW x \in Nodes \ {t[1]}
          PROVE  pings'[x][t] = pings[x][t]
        BY <1>1, <1>5, <2>2, Zenon DEF Recorded
    <2>3. \A t \in PingId : \A x \in Nodes \ {t[1]} :
             pings'[x][t] # None => x \in WithinHops[pings'[x][t] + 1][t[1]]
        BY <2>2, Zenon DEF PingInv, NotTooNear
    <2>4. QED  BY <2>1, <2>3, Zenon DEF NotTooNear
  <1>13. PassedOn'
    <2>1. ASSUME ~lost, NEW t \in PingId, NEW l \in Links, Mode(t) = 1, pings'[l[1]][t] # None
          PROVE  LET out == IF l[1] = t[1] THEN 0 ELSE pings'[l[1]][t] + 1
                 IN  \/ pings'[l[2]][t] # None /\ pings'[l[2]][t] <= out
                     \/ [tt |-> t, dnext |-> out] \in OnLink(wire', buffer', l)
      <3>1. l[1] \in Nodes /\ l[2] \in Nodes
          BY LinkFacts
      <3>2. CASE t = tt
        <4>1. l[1] = n
          <5>1. l[1] # n => pings'[l[1]][t] = pings[l[1]][t] /\ pings[l[1]][tt] = None
              BY <1>1, <1>5, <1>9, <3>1, <3>2, Zenon DEF PingInv, StartedOnly, Recorded
          <5>2. QED  BY <2>1, <3>2, <5>1, Zenon
        <4>2. p \in OnLink(wire', buffer', l)
            BY <1>1, <4>1, Zenon
        <4>3. QED  BY <1>1, <1>4, <3>2, <4>1, <4>2, Zenon
      <3>3. CASE t # tt
        <4>1. pings'[l[1]][t] = pings[l[1]][t] /\ pings'[l[2]][t] = pings[l[2]][t]
            BY <1>8, <3>1, <3>3, Zenon
        <4>2. \/ pings[l[2]][t] # None /\ pings[l[2]][t] <= SentOn(l[1], t)
              \/ [tt |-> t, dnext |-> SentOn(l[1], t)] \in OnLink(wire, buffer, l)
            BY <2>1, <4>1, Zenon DEF PingInv, PassedOn
        <4>3. \/ pings[l[2]][t] # None /\ pings[l[2]][t] <= SentOn(l[1], t)
              \/ [tt |-> t, dnext |-> SentOn(l[1], t)] \in OnLink(wire', buffer', l)
            BY <1>1, <4>2, Zenon
        <4>4. SentOn(l[1], t) = IF l[1] = t[1] THEN 0 ELSE pings'[l[1]][t] + 1
            BY <4>1, Zenon DEF SentOn
        <4>5. QED  BY <4>1, <4>3, <4>4, Zenon
      <3>4. QED  BY <3>2, <3>3, Zenon
    <2>2. QED  BY <1>2, <2>1, Zenon DEF PassedOn, SentOn
  <1>14. QED  BY <1>7, <1>11, <1>12, <1>13, Zenon DEF PingInv

\* Handling a ping of a link, in whatever order it comes, keeps the invariant.
LEMMA ReadPingsInv ==
    ASSUME PingInv, NEW l \in Links, NEW k \in 0 .. MAX_READ, NEW more \in BOOLEAN,
           ReadPings(l, k, more)
    PROVE  PingInv'
  <1> DEFINE v   == l[2]
             p   == Handled(l, k)
             new == IsNew(v, p)
  <1>1. /\ p \in Ping /\ p \in OnLink(wire, buffer, l)
        /\ wire' \in [Links -> Seq(Ping)] /\ buffer' \in [Links -> Seq(Ping)]
        /\ \A e \in Links : Len(buffer'[e]) <= 1
        /\ lost' \in BOOLEAN /\ no_pings' = no_pings
        /\ new => pings' = [pings EXCEPT ![v][p.tt] = p.dnext]
        /\ ~new => pings' = pings
        /\ \A e \in Links : \A x \in OnLink(wire', buffer', e) :
              x \in OnLink(wire, buffer, e) \/ (new /\ e[1] = v /\ x = NextHop(p))
        /\ new => \A e \in Links : e[1] = v => NextHop(p) \in OnLink(wire', buffer', e)
        /\ ~lost' => /\ ~lost
                     /\ \A e \in Links : \A x \in OnLink(wire, buffer, e) :
                           x \in OnLink(wire', buffer', e) \/ (e = l /\ x = p)
    <2>1. ReadOutcome(l, k)
        BY ReadStep DEF PingInv
    <2>2. QED  BY <2>1, Zenon DEF ReadOutcome
  <1> DEFINE tt == p.tt
             d  == p.dnext
             o  == tt[1]
             q  == NextHop(p)
  <1>2. v \in Nodes /\ l[1] \in Nodes
      BY LinkFacts
  <1>3. new <=> (pings[v][tt] = None \/ (Mode(tt) = 1 /\ pings[v][tt] > d))
      BY Zenon DEF IsNew
  <1> HIDE DEF new, p
  <1>4. /\ tt \in PingId /\ d \in Nat
        /\ q \in Ping /\ q.tt = tt /\ q.dnext = d + 1
        /\ q = [tt |-> tt, dnext |-> d + 1] /\ p = [tt |-> tt, dnext |-> d]
      BY <1>1, NextHopFacts
  <1> HIDE DEF q, tt, d
  <1>5. o \in Nodes /\ o \in Origins /\ tt[2] \in Nat
      BY <1>4, PingIdFacts
  <1>6. /\ pings \in [Nodes -> [PingId -> Nat \cup {None}]]
        /\ no_pings \in [Origins -> 0 .. PING_REPEAT]
      BY Zenon DEF PingInv, PingTypeOK
  <1>7. tt[2] <= no_pings[o] /\ pings[o][tt] = 0
    <2>1. ~(tt[2] > no_pings[o])
        BY <1>1, <1>4, Zenon DEF PingInv, StartedOnly, tt
    <2>2. no_pings[o] \in Nat
        BY <1>5, <1>6
    <2>3. tt[2] <= no_pings[o]
        BY <1>5, <2>1, <2>2
    <2>4. QED  BY <1>4, <2>3, Zenon DEF PingInv, StartedOnly
  <1>8. new => v # o
    <2>1. 0 # None /\ ~(0 > d)
        BY <1>4 DEF None
    <2>2. QED  BY <1>3, <1>7, <2>1, Zenon
  <1>9. CASE new
    <2>1. Recorded(pings, pings', v, tt, d)
      <3>1. Recorded(pings, [pings EXCEPT ![v][tt] = d], v, tt, d)
          BY <1>2, <1>4, <1>6, RecordFacts
      <3>2. QED  BY <1>1, <1>9, <3>1, Zenon DEF tt, d
    <2>2. /\ pings' \in [Nodes -> [PingId -> Nat \cup {None}]] /\ pings'[v][tt] = d
          /\ \A x \in Nodes : \A t \in PingId : x # v \/ t # tt => pings'[x][t] = pings[x][t]
        BY <2>1, Zenon DEF Recorded
    <2>3. PingTypeOK'
        BY <1>1, <2>2, Zenon DEF PingInv, PingTypeOK
    <2>4. ASSUME NEW t \in PingId
          PROVE  /\ t[2] > no_pings'[t[1]] =>
                      /\ \A x \in Nodes : pings'[x][t] = None
                      /\ \A e \in Links : \A y \in OnLink(wire', buffer', e) : y.tt # t
                 /\ t[2] <= no_pings'[t[1]] => pings'[t[1]][t] = 0
      <3>1. t[1] \in Nodes /\ t[1] \in Origins /\ t[2] \in Nat
          BY PingIdFacts
      <3>2. /\ t[2] > no_pings[t[1]] =>
                  /\ \A x \in Nodes : pings[x][t] = None
                  /\ \A e \in Links : \A y \in OnLink(wire, buffer, e) : y.tt # t
            /\ t[2] <= no_pings[t[1]] => pings[t[1]][t] = 0
          BY Zenon DEF PingInv, StartedOnly
      <3>3. t[2] > no_pings[t[1]] => t # tt
        <4>1. no_pings[t[1]] \in Nat
            BY <1>6, <3>1
        <4>2. QED  BY <1>7, <3>1, <4>1
      <3>4. t[2] > no_pings[t[1]] =>
                  /\ \A x \in Nodes : pings'[x][t] = None
                  /\ \A e \in Links : \A y \in OnLink(wire', buffer', e) : y.tt # t
          BY <1>1, <1>4, <2>2, <3>2, <3>3, Zenon DEF q
      <3>5. t[2] <= no_pings[t[1]] => pings'[t[1]][t] = 0
          BY <1>8, <1>9, <2>2, <3>1, <3>2, Zenon
      <3>6. QED  BY <1>1, <3>4, <3>5, Zenon
    <2>5. StartedOnly'
        BY <2>4, Zenon DEF StartedOnly
    <2>6. v \in WithinHops[d + 1][o]
      <3>1. l[1] \in WithinHops[d][o]
          BY <1>1, Zenon DEF PingInv, NotTooNear, tt, d
      <3>2. QED  BY <1>4, <1>5, <3>1, HopsFacts, Zenon
    <2>7. NotTooNear'
      <3>1. ASSUME NEW e \in Links, NEW y \in OnLink(wire', buffer', e)
            PROVE  e[1] \in WithinHops[y.dnext][y.tt[1]]
        <4>1. CASE y \in OnLink(wire, buffer, e)
            BY <4>1, Zenon DEF PingInv, NotTooNear
        <4>2. CASE e[1] = v /\ y = q
            BY <1>4, <2>6, <4>2, Zenon
        <4>3. QED  BY <1>1, <3>1, <4>1, <4>2, Zenon DEF q
      <3>2. ASSUME NEW t \in PingId, NEW x \in Nodes \ {t[1]}, pings'[x][t] # None
            PROVE  x \in WithinHops[pings'[x][t] + 1][t[1]]
        <4>1. CASE x = v /\ t = tt
            BY <2>2, <2>6, <4>1, Zenon
        <4>2. CASE x # v \/ t # tt
            BY <2>2, <3>2, <4>2, Zenon DEF PingInv, NotTooNear
        <4>3. QED  BY <4>1, <4>2, Zenon
      <3>3. QED  BY <3>1, <3>2, Zenon DEF NotTooNear
    <2>8. PassedOn'
      <3>1. ASSUME ~lost', NEW t \in PingId, NEW e \in Links, Mode(t) = 1,
                   pings'[e[1]][t] # None
            PROVE  LET out == IF e[1] = t[1] THEN 0 ELSE pings'[e[1]][t] + 1
                   IN  \/ pings'[e[2]][t] # None /\ pings'[e[2]][t] <= out
                       \/ [tt |-> t, dnext |-> out] \in OnLink(wire', buffer', e)
        <4>1. e[1] \in Nodes /\ e[2] \in Nodes
            BY LinkFacts
        <4>2. CASE e[1] = v /\ t = tt
          <5>1. q \in OnLink(wire', buffer', e)
              BY <1>1, <1>9, <4>2, Zenon DEF q
          <5>2. QED  BY <1>4, <1>8, <1>9, <2>2, <4>2, <5>1, Zenon
        <4>3. CASE e[1] # v \/ t # tt
          <5> DEFINE out == SentOn(e[1], t)
          <5>1. pings'[e[1]][t] = pings[e[1]][t]
              BY <2>2, <4>1, <4>3, Zenon
          <5>2. out = IF e[1] = t[1] THEN 0 ELSE pings'[e[1]][t] + 1
              BY <5>1, Zenon DEF SentOn
          <5>3. out \in Nat
            <6>1. pings[e[1]][t] \in Nat
                BY <1>6, <3>1, <4>1, <5>1
            <6>2. QED  BY <6>1 DEF SentOn
          <5>4. \/ pings[e[2]][t] # None /\ pings[e[2]][t] <= out
                \/ [tt |-> t, dnext |-> out] \in OnLink(wire, buffer, e)
              BY <1>1, <3>1, <5>1, Zenon DEF PingInv, PassedOn
          <5> HIDE DEF out
          <5>5. d # None
              BY <1>4 DEF None
          <5>6. CASE pings[e[2]][t] # None /\ pings[e[2]][t] <= out
            <6>1. CASE e[2] = v /\ t = tt
              <7>1. pings[v][tt] \in Nat /\ pings[v][tt] > d
                  BY <1>2, <1>3, <1>4, <1>6, <1>9, <5>6, <6>1
              <7>2. d <= out
                  BY <1>4, <5>3, <5>6, <6>1, <7>1
              <7>3. QED  BY <2>2, <5>2, <5>5, <6>1, <7>2, Zenon
            <6>2. CASE e[2] # v \/ t # tt
                BY <2>2, <4>1, <5>2, <5>6, <6>2, Zenon
            <6>3. QED  BY <6>1, <6>2, Zenon
          <5>7. CASE [tt |-> t, dnext |-> out] \in OnLink(wire, buffer, e)
            <6>1. \/ [tt |-> t, dnext |-> out] \in OnLink(wire', buffer', e)
                  \/ e = l /\ [tt |-> t, dnext |-> out] = p
                BY <1>1, <3>1, <5>7, Zenon
            <6>2. CASE e = l /\ [tt |-> t, dnext |-> out] = p
              <7>1. t = tt /\ d = out
                  BY <1>4, <6>2
              <7>2. d <= out
                  BY <5>3, <7>1
              <7>3. QED  BY <2>2, <5>2, <5>5, <6>2, <7>1, <7>2, Zenon
            <6>3. QED  BY <5>2, <6>1, <6>2, Zenon
          <5>8. QED  BY <5>4, <5>6, <5>7, Zenon
        <4>4. QED  BY <4>2, <4>3, Zenon
      <3>2. QED  BY <3>1, Zenon DEF PassedOn, SentOn
    <2>9. QED  BY <2>3, <2>5, <2>7, <2>8, Zenon DEF PingInv
  <1>10. CASE ~new
    <2>1. pings' = pings
        BY <1>1, <1>10, Zenon
    <2>2. \A e \in Links : \A x \in OnLink(wire', buffer', e) : x \in OnLink(wire, buffer, e)
        BY <1>1, <1>10, Zenon
    <2>3. PingTypeOK'
        BY <1>1, <2>1, Zenon DEF PingInv, PingTypeOK
    <2>4. StartedOnly' /\ NotTooNear'
        BY <1>1, <2>1, <2>2, Zenon DEF PingInv, StartedOnly, NotTooNear
    <2>5. PassedOn'
      <3>1. ASSUME ~lost', NEW t \in PingId, NEW e \in Links, Mode(t) = 1,
                   pings[e[1]][t] # None
            PROVE  \/ pings[e[2]][t] # None /\ pings[e[2]][t] <= SentOn(e[1], t)
                   \/ [tt |-> t, dnext |-> SentOn(e[1], t)] \in OnLink(wire', buffer', e)
        <4> DEFINE out == SentOn(e[1], t)
        <4>1. \/ pings[e[2]][t] # None /\ pings[e[2]][t] <= out
              \/ [tt |-> t, dnext |-> out] \in OnLink(wire, buffer, e)
            BY <1>1, <3>1, Zenon DEF PingInv, PassedOn
        <4>2. CASE [tt |-> t, dnext |-> out] \in OnLink(wire, buffer, e)
          <5>1. \/ [tt |-> t, dnext |-> out] \in OnLink(wire', buffer', e)
                \/ e = l /\ [tt |-> t, dnext |-> out] = p
              BY <1>1, <3>1, <4>2, Zenon
          <5> HIDE DEF out
          <5>2. CASE e = l /\ [tt |-> t, dnext |-> out] = p
            <6>1. t = tt /\ d = out
                BY <1>4, <5>2
            <6>2. pings[v][tt] # None /\ ~(pings[v][tt] > d)
                BY <1>3, <1>10, <3>1, <6>1, Zenon
            <6>3. pings[v][tt] \in Nat
                BY <1>2, <1>4, <1>6, <6>2
            <6>4. pings[v][tt] <= d
                BY <1>4, <6>2, <6>3
            <6>5. QED  BY <5>2, <6>1, <6>2, <6>4, Zenon DEF out
          <5>3. QED  BY <5>1, <5>2, Zenon DEF out
        <4>3. QED  BY <4>1, <4>2, Zenon
      <3>2. QED  BY <2>1, <3>1, Zenon DEF PassedOn, SentOn
    <2>6. QED  BY <2>3, <2>4, <2>5, Zenon DEF PingInv
  <1>11. QED  BY <1>9, <1>10, Zenon

\* Nothing is recorded and nothing on its way before the first ping.
LEMMA PingInitInv == PingInit => PingInv
  <1> SUFFICES ASSUME PingInit
               PROVE  PingInv
      OBVIOUS
  <1>1. /\ \A l \in Links : wire[l] = <<>> /\ buffer[l] = <<>>
        /\ \A n \in Nodes : \A tt \in PingId : pings[n][tt] = None
        /\ \A n \in Origins : no_pings[n] = 0
      BY Zenon DEF PingInit
  <1>2. \A l \in Links : OnLink(wire, buffer, l) = {}
      BY <1>1 DEF OnLink, ToSet
  <1>3. PingTypeOK
    <2>1. no_pings \in [Origins -> 0 .. PING_REPEAT]
        BY RepeatAssumption DEF PingInit
    <2>2. <<>> \in Seq(Ping) /\ Len(<<>>) <= 1
        OBVIOUS
    <2>3. wire \in [Links -> Seq(Ping)] /\ buffer \in [Links -> Seq(Ping)]
        BY <2>2, Zenon DEF PingInit
    <2>4. pings \in [Nodes -> [PingId -> Nat \cup {None}]]
        BY DEF PingInit
    <2>5. \A l \in Links : Len(buffer[l]) <= 1
        BY <1>1, <2>2, Zenon
    <2>6. QED  BY <2>1, <2>3, <2>4, <2>5, Zenon DEF PingTypeOK, PingInit
  <1>4. StartedOnly
    <2>1. ASSUME NEW tt \in PingId
          PROVE  ~(tt[2] <= no_pings[tt[1]])
      <3>1. tt[1] \in Origins /\ tt[2] \in 1 .. PING_REPEAT
          BY PingIdFacts
      <3>2. QED  BY <1>1, <3>1
    <2>2. QED  BY <1>1, <1>2, <2>1 DEF StartedOnly
  <1>5. NotTooNear
      BY <1>1, <1>2 DEF NotTooNear
  <1>6. PassedOn
    <2>1. \A l \in Links : l[1] \in Nodes
        BY LinkFacts
    <2>2. QED  BY <1>1, <2>1, Zenon DEF PassedOn
  <1>7. QED  BY <1>3, <1>4, <1>5, <1>6, Zenon DEF PingInv

\* Every step keeps PingInv.
LEMMA PingNextInv ==
    ASSUME PingInv, [PingNext]_pingVars
    PROVE  PingInv'
  <1>1. CASE PingNext
      BY <1>1, StartPingInv, ReadPingsInv, Zenon DEF PingNext
  <1>2. CASE UNCHANGED pingVars
    <2>1. UNCHANGED <<no_pings, pings, wire, buffer, lost>>
        BY <1>2, Zenon DEF pingVars
    <2>2. QED  BY <2>1, Zenon DEF PingInv, PingTypeOK, StartedOnly, NotTooNear, PassedOn, SentOn
  <1>3. QED  BY <1>1, <1>2, Zenon

\* When all pings have arrived and none was lost, every node within d hops has
\* recorded less than d: by induction on d, along the links.
LEMMA AllMeasured ==
    ASSUME PingInv, AllArrived, ~lost, NEW tt \in PingId, Mode(tt) = 1,
           tt[2] <= no_pings[tt[1]]
    PROVE  \A d \in Nat : \A n \in WithinHops[d][tt[1]] \ {tt[1]} :
               pings[n][tt] # None /\ pings[n][tt] + 1 <= d
  <1> DEFINE o == tt[1]
             A == {d \in Nat : \A n \in WithinHops[d][o] \ {o} :
                                   pings[n][tt] # None /\ pings[n][tt] + 1 <= d}
  <1>1. o \in Nodes /\ pings[o][tt] = 0
    <2>1. o \in Nodes
        BY PingIdFacts
    <2>2. QED  BY <2>1, Zenon DEF PingInv, StartedOnly
  <1>2. \A l \in Links : OnLink(wire, buffer, l) = {}
      BY DEF AllArrived, OnLink, ToSet
  <1>3. pings \in [Nodes -> [PingId -> Nat \cup {None}]]
      BY Zenon DEF PingInv, PingTypeOK
  <1> HIDE DEF o
  <1>4. 0 \in A
    <2>1. WithinHops[0][o] = {o}
        BY <1>1, HopsFacts, Zenon
    <2>2. QED  BY <2>1
  <1>5. ASSUME NEW d \in Nat, d \in A
        PROVE  d + 1 \in A
    <2> SUFFICES ASSUME NEW n \in WithinHops[d + 1][o], n # o
                 PROVE  pings[n][tt] # None /\ pings[n][tt] + 1 <= d + 1
        OBVIOUS
    <2>1. \A x \in WithinHops[d][o] \ {o} : pings[x][tt] # None /\ pings[x][tt] + 1 <= d
        BY <1>5
    <2>2. \A x \in WithinHops[d][o] : x \in Nodes
      <3>1. WithinHops[d] \in [Nodes -> SUBSET Nodes]
          BY HopsFacts, Zenon
      <3>2. QED  BY <1>1, <3>1
    <2>3. \/ n \in WithinHops[d][o]
          \/ \E l \in Links : l[1] \in WithinHops[d][o] /\ n = l[2]
      <3>1. \A dd \in Nat : \A nn \in Nodes : \A x :
                x \in WithinHops[dd + 1][nn] <=>
                    \/ x \in WithinHops[dd][nn]
                    \/ \E l \in Links : l[1] \in WithinHops[dd][nn] /\ x = l[2]
          BY HopsFacts, Zenon
      <3>2. n \in WithinHops[d + 1][o] <=>
                \/ n \in WithinHops[d][o]
                \/ \E l \in Links : l[1] \in WithinHops[d][o] /\ n = l[2]
          BY <1>1, <3>1
      <3>3. QED  BY <3>2
    <2>4. CASE n \in WithinHops[d][o]
      <3>1. n \in Nodes
          BY <2>2, <2>4
      <3>2. pings[n][tt] # None /\ pings[n][tt] + 1 <= d
          BY <2>1, <2>4, Zenon
      <3>3. pings[n][tt] \in Nat
          BY <1>3, <3>1, <3>2
      <3>4. QED  BY <3>2, <3>3
    <2>5. ASSUME NEW l \in Links, l[1] \in WithinHops[d][o], n = l[2]
          PROVE  pings[n][tt] # None /\ pings[n][tt] + 1 <= d + 1
      <3>1. l[1] \in Nodes /\ l[2] \in Nodes
          BY LinkFacts
      <3>2. pings[l[1]][tt] # None
        <4>1. 0 # None
            BY DEF None
        <4>2. QED  BY <1>1, <2>1, <2>5, <4>1, Zenon
      <3>3. pings[n][tt] # None /\ pings[n][tt] <= SentOn(l[1], tt)
          BY <1>2, <2>5, <3>2, Zenon DEF PingInv, PassedOn
      <3>4. pings[n][tt] \in Nat /\ pings[l[1]][tt] \in Nat
          BY <1>3, <2>5, <3>1, <3>2, <3>3
      <3>5. SentOn(l[1], tt) <= d /\ SentOn(l[1], tt) \in Nat
        <4>1. CASE l[1] = o
            BY <4>1 DEF SentOn, o
        <4>2. CASE l[1] # o
          <5>1. pings[l[1]][tt] + 1 <= d
              BY <2>1, <2>5, <4>2, Zenon
          <5>2. SentOn(l[1], tt) = pings[l[1]][tt] + 1
              BY <4>2, Zenon DEF SentOn, o
          <5>3. QED  BY <3>4, <5>1, <5>2
        <4>3. QED  BY <4>1, <4>2
      <3>6. QED  BY <3>3, <3>4, <3>5
    <2>6. QED  BY <2>3, <2>4, <2>5, Zenon
  <1> HIDE DEF A
  <1>6. \A d \in Nat : d \in A
      BY <1>4, <1>5, InductionOverSet
  <1>7. QED  BY <1>6, Zenon DEF A, o

\* The invariant gives what DistancesMeasured says.
LEMMA PingInvGives == PingInv => DistancesMeasured
  <1> SUFFICES ASSUME PingInv, NEW tt \in PingId, NEW n \in Nodes \ {tt[1]}, Mode(tt) = 1
               PROVE  LET far == pings[n][tt]
                      IN  /\ far # None => n \in WithinHops[far + 1][tt[1]]
                          /\ AllArrived /\ ~lost /\ tt[2] <= no_pings[tt[1]]
                               /\ n \in WithinHops[Cardinality(Nodes)][tt[1]]
                               => far # None /\ n \notin WithinHops[far][tt[1]]
      BY Zenon DEF PingInv, DistancesMeasured
  <1> DEFINE far == pings[n][tt]
  <1>1. far # None => n \in WithinHops[far + 1][tt[1]]
      BY Zenon DEF PingInv, NotTooNear
  <1>2. ASSUME AllArrived, ~lost, tt[2] <= no_pings[tt[1]],
               n \in WithinHops[Cardinality(Nodes)][tt[1]]
        PROVE  far # None /\ n \notin WithinHops[far][tt[1]]
    <2>1. Cardinality(Nodes) \in Nat
        BY NodesAssumption, FS_CardinalityType
    <2>2. \A d \in Nat : \A x \in WithinHops[d][tt[1]] \ {tt[1]} :
              pings[x][tt] # None /\ pings[x][tt] + 1 <= d
        BY <1>2, AllMeasured, Zenon
    <2>3. far # None
        BY <1>2, <2>1, <2>2, Zenon
    <2>4. far \in Nat
      <3>1. pings \in [Nodes -> [PingId -> Nat \cup {None}]]
          BY Zenon DEF PingInv, PingTypeOK
      <3>2. QED  BY <2>3, <3>1
    <2>5. n \in WithinHops[far][tt[1]] => far + 1 <= far
        BY <2>2, <2>4, Zenon
    <2> HIDE DEF far
    <2>6. QED  BY <2>3, <2>4, <2>5
  <1>3. QED  BY <1>1, <1>2, Zenon

\* In every network, for every order in which pings arrive, however they are
\* read together: no node records less than its distance, and when all have
\* arrived, and none was taken for a duplicate by process_buffer, each
\* node has recorded its distance from the origin.
THEOREM PingsMeasure == PingSpec => []DistancesMeasured
  <1>1. PingInv /\ [PingNext]_pingVars => PingInv'
      BY PingNextInv
  <1>2. QED  BY <1>1, PingInitInv, PingInvGives, PTL DEF PingSpec

------------------------------------------------------------------------------
\* Configuration.

\* The parameters and their defaults, as numbers.
LEMMA DefaultFacts ==
    /\ Default \in [Parameters -> Nat] /\ \A v \in Parameters : Default[v] < WORD
    /\ Default["COEFF"] = 4
    /\ Default["EXPECTED_MINE_TIME_IN_MILLISECONDS"] \div Default["COEFF"] = 250
    /\ Default["BLOCK_SIZE_IN_BYTES"] \div Default["COEFF"] = 8192
  <1>1. /\ Default["CHAINS"] = 1000 /\ Default["AT"] = 960 /\ Default["COEFF"] = 4
        /\ Default["EXPECTED_MINE_TIME_IN_MILLISECONDS"] = 1000
        /\ Default["BLOCK_SIZE_IN_BYTES"] = 32768 /\ Default["T_DISCARD"] = 6
      BY DEF Default, Parameters
  <1>2. \A v \in Parameters : Default[v] \in Nat /\ Default[v] < WORD
      BY <1>1, WordAssumption DEF Parameters
  <1>3. Default = [v \in Parameters |-> Default[v]]
    <2> DEFINE e(v) ==
            CASE v = "CHAINS" -> 1000 [] v = "AT" -> 960 [] v = "COEFF" -> 4
              [] v = "EXPECTED_MINE_TIME_IN_MILLISECONDS" -> 1000
              [] v = "BLOCK_SIZE_IN_BYTES" -> 32768 [] v = "T_DISCARD" -> 6
    <2>1. Default = [v \in Parameters |-> e(v)]
        BY DEF Default
    <2> HIDE DEF e
    <2>2. QED  BY <2>1
  <1>4. QED  BY <1>1, <1>2, <1>3

\* What is stored is a number of the width of its parameter.
LEMMA StoredFacts ==
    ASSUME NEW x \in Nat
    PROVE  /\ x % WORD \in Nat /\ x % WORD < WORD
           /\ \A v \in Parameters : /\ Stored(v, x) \in Nat
                                    /\ v # "AT" => Stored(v, x) < WORD
  <1>1. x % WORD \in Nat /\ x % WORD < WORD
      BY WordAssumption
  <1>2. QED  BY <1>1 DEF Stored

\* What one line of the file leaves of the parameters.
Assigned(f, g, v, x) ==
    \/ /\ v # "COEFF" /\ g[v] = Stored(v, x)
       /\ \A u \in Parameters \ {v} : g[u] = f[u]
    \/ /\ v = "COEFF" /\ g["COEFF"] = Stored("COEFF", x)
       /\ g["EXPECTED_MINE_TIME_IN_MILLISECONDS"] = (Stored("COEFF", x) * 250) % WORD
       /\ g["BLOCK_SIZE_IN_BYTES"] = (Stored("COEFF", x) * 8192) % WORD
       /\ \A u \in Parameters \ (Derived \cup {"COEFF"}) : g[u] = f[u]

\* A line either sets a known parameter, or is passed over.
LEMMA ReadLineFacts ==
    ASSUME ConfigTypeOK, NEW l \in Lines, ReadLine(l)
    PROVE  /\ ConfigTypeOK' /\ read' = Append(read, l)
           /\ \/ l.value # NotANumber /\ l.name \in KNOWN_VARS /\ l.value \in Nat
                 /\ Assigned(value, value', l.name, l.value)
              \/ (l.value = NotANumber \/ l.name \notin KNOWN_VARS) /\ value' = value
  <1>1. /\ value \in [Parameters -> Nat] /\ read \in Seq(Lines)
        /\ \A v \in Parameters \ {"AT"} : value[v] < WORD
      BY DEF ConfigTypeOK
  <1>2. read' = Append(read, l) /\ read' \in Seq(Lines)
      BY <1>1 DEF ReadLine
  <1>3. KNOWN_VARS \subseteq Parameters /\ "COEFF" \in Parameters /\ Derived \subseteq Parameters
      BY DEF KNOWN_VARS, Parameters, Derived
  <1>4. CASE l.value = NotANumber \/ l.name \notin KNOWN_VARS
    <2>1. value' = value
        BY <1>4 DEF ReadLine
    <2>2. QED  BY <1>1, <1>2, <1>4, <2>1 DEF ConfigTypeOK
  <1>5. CASE l.value # NotANumber /\ l.name \in KNOWN_VARS
    <2>1. l.value \in Nat
      <3>1. l.value \in Values \cup {NotANumber}
          BY DEF Lines
      <3>2. l.value \in Values
          BY <1>5, <3>1, Zenon
      <3>3. \A x \in Values : x \in Nat
          BY WordAssumption
      <3>4. QED  BY <3>2, <3>3, Zenon
    <2> DEFINE x == l.value
               y == Stored("COEFF", x)
               a == (y * 250) % WORD
               b == (y * 8 * 1024) % WORD
    <2>2. CASE l.name = "COEFF"
      <3>1. value' = [value EXCEPT !["COEFF"] = y,
                        !["EXPECTED_MINE_TIME_IN_MILLISECONDS"] = a,
                        !["BLOCK_SIZE_IN_BYTES"] = b]
          BY <1>5, <2>2 DEF ReadLine, WithCoeff
      <3>2. y \in Nat /\ y < WORD
          BY <1>3, <2>1, StoredFacts
      <3>3. y * 250 \in Nat /\ y * 8 * 1024 = y * 8192 /\ y * 8192 \in Nat
          BY <3>2
      <3>4. a \in Nat /\ a < WORD /\ b \in Nat /\ b < WORD /\ b = (y * 8192) % WORD
          BY <3>3, StoredFacts
      <3> HIDE DEF a, b, y
      <3>5. /\ value' \in [Parameters -> Nat] /\ value'["COEFF"] = y
            /\ value'["EXPECTED_MINE_TIME_IN_MILLISECONDS"] = a
            /\ value'["BLOCK_SIZE_IN_BYTES"] = b
            /\ \A u \in Parameters \ (Derived \cup {"COEFF"}) : value'[u] = value[u]
          BY <1>1, <1>3, <3>1, <3>2, <3>4 DEF Derived
      <3>6. \A v \in Parameters \ {"AT"} : value'[v] < WORD
          BY <1>1, <3>2, <3>4, <3>5 DEF Derived
      <3>7. ConfigTypeOK'
          BY <1>2, <3>5, <3>6 DEF ConfigTypeOK
      <3>8. Assigned(value, value', l.name, l.value)
          BY <2>2, <3>4, <3>5 DEF Assigned, a, y
      <3>9. QED  BY <1>2, <1>5, <2>1, <3>7, <3>8
    <2>3. CASE l.name # "COEFF"
      <3> DEFINE v == l.name
                 z == Stored(v, x)
      <3>1. value' = [value EXCEPT ![v] = z]
          BY <1>5, <2>3 DEF ReadLine
      <3>2. v \in Parameters /\ z \in Nat /\ (v # "AT" => z < WORD)
          BY <1>3, <1>5, <2>1, StoredFacts
      <3> HIDE DEF z, v
      <3>3. /\ value' \in [Parameters -> Nat] /\ value'[v] = z
            /\ \A u \in Parameters \ {v} : value'[u] = value[u]
          BY <1>1, <3>1, <3>2
      <3>4. \A u \in Parameters \ {"AT"} : value'[u] < WORD
          BY <1>1, <3>2, <3>3
      <3>5. ConfigTypeOK'
          BY <1>2, <3>3, <3>4 DEF ConfigTypeOK
      <3>6. Assigned(value, value', l.name, l.value)
          BY <2>3, <3>3 DEF Assigned, z, v
      <3>7. QED  BY <1>2, <1>5, <2>1, <3>5, <3>6
    <2>4. QED  BY <2>2, <2>3
  <1>6. QED  BY <1>4, <1>5

\* Every parameter has the value the last line for it gave, after one more.
LEMMA LastLineKept ==
    ASSUME LastLineCounts, NEW l \in Lines, ReadLine(l)
    PROVE  LastLineCounts'
  <1> DEFINE n == Len(read)
             Right(f, k, v) ==
                 IF k.name = v
                 THEN f[v] = IF v = "AT" THEN k.value ELSE k.value % WORD
                 ELSE f[v] = ((Default[v] \div Default["COEFF"]) * f["COEFF"]) % WORD
  <1>1. ConfigTypeOK /\ read \in Seq(Lines) /\ value \in [Parameters -> Nat]
      BY DEF LastLineCounts, ConfigTypeOK
  <1>2. /\ ConfigTypeOK' /\ read' = Append(read, l)
        /\ \/ l.value # NotANumber /\ l.name \in KNOWN_VARS /\ l.value \in Nat
              /\ Assigned(value, value', l.name, l.value)
           \/ (l.value = NotANumber \/ l.name \notin KNOWN_VARS) /\ value' = value
      BY <1>1, ReadLineFacts
  <1>3. /\ n \in Nat /\ Len(read') = n + 1 /\ read'[n + 1] = l
        /\ \A i \in 1 .. n : read'[i] = read[i]
        /\ DOMAIN read = 1 .. n /\ DOMAIN read' = 1 .. n + 1
      BY <1>1, <1>2
  <1>4. \A v \in KNOWN_VARS : \A i \in 1 .. n :
            Sets(read[i], v) /\ (\A j \in i + 1 .. n : ~Sets(read[j], v)) =>
                Right(value, read[i], v)
      BY <1>3 DEF LastLineCounts
  <1> SUFFICES ASSUME NEW v \in KNOWN_VARS, NEW i \in 1 .. n + 1,
                      Sets(read'[i], v), \A j \in i + 1 .. n + 1 : ~Sets(read'[j], v)
               PROVE  Right(value', read'[i], v)
      BY <1>2, <1>3 DEF LastLineCounts
  <1>5. v \in Parameters /\ "COEFF" \in KNOWN_VARS /\ Derived \subseteq KNOWN_VARS /\ "COEFF" \in Parameters
      BY DEF KNOWN_VARS, Parameters, Derived
  <1>6. CASE i \in 1 .. n
    <2>1. ~Sets(l, v)
        BY <1>3, <1>6
    <2>2. Sets(read[i], v) /\ \A j \in i + 1 .. n : ~Sets(read[j], v)
        BY <1>3, <1>6
    <2>3. Right(value, read[i], v) /\ read'[i] = read[i]
        BY <1>3, <1>4, <1>6, <2>2
    <2>4. value'[v] = value[v]
        BY <1>2, <1>5, <2>1 DEF Sets, Assigned
    <2>5. ASSUME v \in Derived, read[i].name # v
          PROVE  value'["COEFF"] = value["COEFF"]
      <3>1. l.value = NotANumber \/ l.name # "COEFF"
          BY <2>1, <2>5 DEF Sets
      <3>2. QED  BY <1>2, <1>5, <3>1 DEF Assigned
    <2>6. read[i].name # v => v \in Derived
        BY <2>2 DEF Sets
    <2>7. QED  BY <2>3, <2>4, <2>5, <2>6
  <1>7. CASE i = n + 1
    <2>1. read'[i] = l /\ Sets(l, v)
        BY <1>3, <1>7
    <2>2. l.value # NotANumber /\ l.name \in KNOWN_VARS /\ Assigned(value, value', l.name, l.value) /\ l.value \in Nat
        BY <1>2, <1>5, <2>1 DEF Sets
    <2>3. CASE l.name = v
      <3>1. value'[v] = Stored(v, l.value)
          BY <2>2, <2>3 DEF Assigned
      <3>2. QED  BY <2>1, <2>3, <3>1 DEF Stored
    <2>4. CASE l.name # v
      <3>1. l.name = "COEFF" /\ v \in Derived
          BY <2>1, <2>4 DEF Sets
      <3> DEFINE y == value'["COEFF"]
      <3>2. /\ y = Stored("COEFF", l.value)
            /\ value'["EXPECTED_MINE_TIME_IN_MILLISECONDS"] = (y * 250) % WORD
            /\ value'["BLOCK_SIZE_IN_BYTES"] = (y * 8192) % WORD
          BY <2>2, <3>1 DEF Assigned
      <3>3. y \in Nat
        <4>1. Stored("COEFF", l.value) \in Nat
            BY <1>5, <2>2, StoredFacts, Zenon
        <4>2. QED  BY <3>2, <4>1
      <3>4. y * 250 = 250 * y /\ y * 8192 = 8192 * y
          BY <3>3
      <3> HIDE DEF y
      <3>5. value'[v] = ((Default[v] \div Default["COEFF"]) * y) % WORD
          BY <3>1, <3>2, <3>4, DefaultFacts DEF Derived
      <3>6. QED  BY <2>1, <2>4, <3>5 DEF y
    <2>5. QED  BY <2>3, <2>4
  <1>8. QED  BY <1>3, <1>6, <1>7

\* For every file and every order of its lines set_configuration leaves each
\* parameter as the last line for it says, also those that COEFF sets.
THEOREM ConfigurationSafety == ConfigSpec => []LastLineCounts
  <1>1. ConfigInit => LastLineCounts
    <2> SUFFICES ASSUME ConfigInit PROVE LastLineCounts
        OBVIOUS
    <2>1. ConfigTypeOK
        BY DefaultFacts DEF ConfigInit, ConfigTypeOK
    <2>2. DOMAIN read = {}
        BY DEF ConfigInit
    <2>3. QED  BY <2>1, <2>2 DEF LastLineCounts
  <1>2. LastLineCounts /\ [ConfigNext]_configVars => LastLineCounts'
    <2> SUFFICES ASSUME LastLineCounts, [ConfigNext]_configVars
                 PROVE  LastLineCounts'
        OBVIOUS
    <2>1. CASE ConfigNext
        BY <2>1, LastLineKept DEF ConfigNext
    <2>2. CASE UNCHANGED configVars
        BY <2>2 DEF configVars, LastLineCounts, ConfigTypeOK
    <2>3. QED  BY <2>1, <2>2
  <1>3. QED  BY <1>1, <1>2, PTL DEF ConfigSpec
=============================================================================
