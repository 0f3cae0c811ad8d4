------------------------------- MODULE PeerConn -------------------------------
(***************************************************************************)
(* One outgoing connection of tcp_server (an element of peers): the pass   *)
(* of run_network that connects, the strand with the queue of messages,    *)
(* and the callbacks of boost::asio.  All handlers run on the one thread   *)
(* of io_service.run; the miner and transaction_creator only post to the   *)
(* strand.                                                                 *)
(*                                                                         *)
(* Handlers of the io_service run in the order they were queued.  A        *)
(* session that is dropped (its shared_ptr assigned) closes its socket:    *)
(* its pending connect and writes complete with an error, and these        *)
(* callbacks are queued before anything its successor can cause.           *)
(*                                                                         *)
(* A write refers to the memory of the first queued message.  When that    *)
(* message is popped, or the vector of peers moves, before the write is    *)
(* done, what is sent is undefined: the message or Garbage.                *)
(***************************************************************************)
EXTENDS Integers, SequencesExt

CONSTANTS
    MAX_POSTS,      \* bound: messages written to this peer
    MAX_PROCEEDS    \* bound: strand_proceed tasks not yet run

ASSUME BoundsAssumption == {MAX_POSTS, MAX_PROCEEDS} \subseteq Nat

Garbage == 0
Messages == 1 .. MAX_POSTS
Proceed == MAX_POSTS + 1      \* the task strand_proceed

VARIABLES
    connected, session, strand, \* of the Peer; the pointers: not NULL
    m,              \* Peer::_m, the queue of messages
    connecting,     \* the session's async_connect has not completed
    stale,          \* connect callbacks of dropped sessions, to run with an error
    tasks,          \* posted to the strand: strand_write of a message, or Proceed
    writing,        \* async_writes under way: message, live session, live buffer
    posted,         \* number of messages posted so far
    sent,           \* messages handed to the network
    upset           \* history: what may have disordered the connection

conn == <<connected, session, strand, connecting, stale>>
connVars == <<conn, m, tasks, writing, posted, sent, upset>>

Write == [msg : Messages, live : BOOLEAN, buf : BOOLEAN]

\* State and types.
ConnTypeOK ==
    /\ {connected, session, strand, connecting} \subseteq BOOLEAN
    /\ m \in Seq(Messages) /\ tasks \in Seq(Messages \cup {Proceed})
    /\ stale \in 0 .. 1 /\ posted \in 0 .. MAX_POSTS
    /\ writing \in Seq(Write) /\ sent \in Seq(Messages \cup {Garbage})
    /\ upset \subseteq {"crossed", "moved"}

\* add_peer of a peer that is not connected
ConnInit ==
    /\ connected = FALSE /\ session = FALSE /\ strand = FALSE
    /\ connecting = FALSE /\ stale = 0
    /\ m = <<>> /\ tasks = <<>> /\ writing = <<>>
    /\ posted = 0 /\ sent = <<>> /\ upset = {}

------------------------------------------------------------------------------
\* Dropping the session makes its operations fail.
Dropped(ws) == [i \in 1 .. Len(ws) |-> [ws[i] EXCEPT !.live = FALSE]]
DropConnect == IF connecting THEN stale + 1 ELSE stale

\* close_peer_connection, which keeps the queue.
Closed(ws, late) ==
    /\ session' = FALSE /\ strand' = FALSE /\ connected' = FALSE
    /\ connecting' = FALSE /\ stale' = late
    /\ writing' = Dropped(ws)

\* The callbacks of dropped sessions have run.
Quiet == stale = 0 /\ \A i \in 1 .. Len(writing) : writing[i].live

\* run_network, for a peer that is not connected: a new session replaces
\* the one that may be connecting still; the strand is kept.
ConnectPass ==
    /\ ~connected /\ Quiet
    /\ session' = TRUE /\ strand' = TRUE /\ connecting' = TRUE
    /\ stale' = DropConnect /\ writing' = Dropped(writing)
    /\ UNCHANGED <<connected, m, tasks, posted, sent, upset>>

\* The callback of async_connect, without an error.
\* (Mutant: the queue left from the last connection is not looked at.)
ConnectedQuietly ==
    /\ connecting /\ Quiet
    /\ connected' = TRUE /\ connecting' = FALSE
    /\ UNCHANGED <<session, strand, stale, tasks, upset, m, writing, posted, sent>>
Connected ==
    /\ connecting /\ Quiet
    /\ Len(SelectSeq(tasks, LAMBDA x : x = Proceed)) < MAX_PROCEEDS
    /\ connected' = TRUE /\ connecting' = FALSE
    /\ tasks' = Append(tasks, Proceed)
    /\ upset' = upset \cup (IF tasks # <<>> THEN {"crossed"} ELSE {})
    /\ UNCHANGED <<session, strand, stale, m, writing, posted, sent>>

\* The callback with an error: refused, or of a session dropped before.
ConnectFailed ==
    /\ IF stale > 0 THEN Closed(writing, DropConnect - 1)
       ELSE connecting /\ Closed(writing, stale)
    /\ UNCHANGED <<m, tasks, posted, sent, upset>>

------------------------------------------------------------------------------
\* write_to_all_peers, write_to_all_peers_except, write_to_one_peer: a peer
\* without strand is passed over.
Post ==
    /\ posted < MAX_POSTS /\ posted' = posted + 1
    /\ tasks' = IF strand THEN Append(tasks, posted') ELSE tasks
    /\ UNCHANGED <<conn, m, writing, sent, upset>>

\* _m[0]
First(q) == IF q = <<>> THEN Garbage ELSE Head(q)

\* tcp_server::write of queue q, with ws under way: without a connection it
\* calls handle_write, which pops a message and calls write again.
Written(q, ws) ==
    IF session /\ connected /\ strand
    THEN m' = q /\ writing' = Append(ws, [msg |-> First(q), live |-> TRUE, buf |-> TRUE])
    ELSE m' = <<>> /\ writing' = [i \in 1 .. Len(ws) |-> [ws[i] EXCEPT !.buf = FALSE]]

\* (Mutant: strand_write does not look whether a write is under way.)
StrandWriteAlways(x) == Written(Append(m, x), writing)
StrandWrite(x) ==
    IF m # <<>> THEN m' = Append(m, x) /\ UNCHANGED writing
    ELSE Written(<<x>>, writing)

StrandProceed ==
    IF m # <<>> THEN Written(m, writing) ELSE UNCHANGED <<m, writing>>

\* The strand runs its next task.
RunTask ==
    /\ tasks # <<>> /\ tasks' = Tail(tasks)
    /\ IF Head(tasks) = Proceed THEN StrandProceed ELSE StrandWrite(Head(tasks))
    /\ UNCHANGED <<conn, posted, sent, upset>>

\* handle_write after the i-th write: pops the first message, whichever was
\* sent, and goes on with the next one.
Popped(ws) ==
    [i \in 1 .. Len(ws) |-> [ws[i] EXCEPT !.buf = @ /\ (m = <<>> \/ ws[i].msg # Head(m))]]

\* (Mutant: the last message goes.)
PopBack(q) == IF q = <<>> THEN q ELSE Front(q)
PopFront(q) == IF q = <<>> THEN q ELSE Tail(q)

WriteDone(i) ==
    LET ws == RemoveAt(writing, i)
    IN  /\ writing[i].live
        /\ \E x \in {writing[i].msg} \cup (IF writing[i].buf THEN {} ELSE {Garbage}) :
              sent' = Append(sent, x)
        /\ IF Len(m) > 1 THEN Written(PopFront(m), Popped(ws))
           ELSE m' = <<>> /\ writing' = Popped(ws)
        /\ UNCHANGED <<conn, tasks, posted, upset>>

WriteFailed(i) ==
    LET ws == Popped(RemoveAt(writing, i))
    IN  /\ IF m = <<>> THEN writing' = ws /\ UNCHANGED <<m, conn>>
           ELSE m' = PopFront(m) /\ Closed(ws, DropConnect)
        /\ UNCHANGED <<tasks, posted, sent, upset>>

\* add_peer of another peer: the vector grows and moves its elements.
PeersGrow ==
    /\ writing # <<>> /\ upset' = upset \cup {"moved"}
    /\ writing' = [i \in 1 .. Len(writing) |-> [writing[i] EXCEPT !.buf = FALSE]]
    /\ UNCHANGED <<conn, m, tasks, posted, sent>>

ConnNext ==
    \/ ConnectPass \/ Connected \/ ConnectFailed
    \/ Post \/ RunTask \/ PeersGrow
    \/ \E i \in 1 .. Len(writing) : WriteDone(i) \/ WriteFailed(i)

\* run_network comes round, the io_service runs what is queued, the kernel
\* answers, and a peer that is tried again and again can be reached.
ConnFairness ==
    /\ WF_connVars(ConnectPass) /\ WF_connVars(ConnectFailed /\ stale > 0) /\ SF_connVars(Connected)
    /\ WF_connVars(RunTask)
    /\ WF_connVars(\E i \in 1 .. Len(writing) : WriteDone(i) \/ WriteFailed(i))

ConnSpec     == ConnInit /\ [][ConnNext]_connVars
ConnFairSpec == ConnSpec /\ ConnFairness

------------------------------------------------------------------------------
\* A connected peer has a session and a strand: the callbacks may use both
\* (peers[i]._strand->post), and a peer that lost them is connected again.
ConnectedIsUp == (connected => session /\ strand /\ ~connecting) /\ (connecting => strand)

\* handle_write pops the message that was sent, and nothing frees the memory
\* of a write under way, unless a connection came up while messages waited in
\* its strand or the vector of peers grew.
OneWriteOfTheFirst ==
    /\ upset = {} => /\ Len(writing) <= 1
                     /\ \A i \in 1 .. Len(writing) :
                            writing[i].buf /\ writing[i].msg = First(m)
    /\ "crossed" \notin upset => Len(writing) <= 1

\* Types, pointers and queue together: no order of callbacks, errors and
\* reconnects of tcp_server breaks a connection in another way.
ConnectionInv == ConnTypeOK /\ ConnectedIsUp /\ OneWriteOfTheFirst

\* Until then the connection is a lossy channel: no message is sent twice,
\* none is overtaken, whatever breaks and reconnects.
\* (Proceed is nowhere but at the head of tasks until then: WireProofs.)
Transit == m \o (IF tasks # <<>> /\ Head(tasks) = Proceed THEN Tail(tasks) ELSE tasks)
Channel == INSTANCE LossyChannel WITH transit <- Transit, Msg <- Messages
ImplementsChannel == Channel!Init /\ [][upset' = {} => Channel!Next]_<<Transit, sent>>

\* What is queued leaves the queue: a queue kept over a lost connection is
\* taken up again, and no order of errors, late callbacks and reconnects
\* leaves it without a write under way.
QueueMoves == m # <<>> ~> m = <<>>
=============================================================================
