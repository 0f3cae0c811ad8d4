-------------------------------- MODULE Pings --------------------------------
(***************************************************************************)
(* The pings by which a network of nodes measures itself: run_network      *)
(* starts them, the #ping handler records and floods them.  Odd pings      *)
(* (mode 1) measure the diameter, even ones (mode 0) the latency.          *)
(*                                                                         *)
(* A read of a connection may bring several messages.  In one buffer only  *)
(* the first #ping of a sender is handled, as its key in passed is the     *)
(* sender; the last message of the buffer is then kept for the next read,  *)
(* the ones between are lost.                                              *)
(***************************************************************************)
EXTENDS Integers, FiniteSets, SequencesExt

CONSTANTS
    Nodes,
    Links,          \* connections that are up: <<from, to>>
    Origins,        \* nodes that send pings
    PING_REPEAT,
    MAX_READ        \* bound: pings one read brings

ASSUME LinksAssumption  == Links \subseteq Nodes \X Nodes /\ Origins \subseteq Nodes
ASSUME NodesAssumption  == IsFiniteSet(Nodes)
ASSUME RepeatAssumption == PING_REPEAT \in Nat /\ MAX_READ \in Nat

None == -1

\* A ping is named by its origin and number (tt).
PingId == Origins \X (1 .. PING_REPEAT)
Mode(tt) == tt[2] % 2
Ping == [tt : PingId, dnext : Nat]

VARIABLES
    no_pings,   \* pings each origin has sent
    pings,      \* tcp_server::pings of each node: dnext, or None
    wire,       \* pings on their way on each link
    buffer,     \* pings kept in full_buffer at the end of each link
    lost        \* history: a ping was taken for a duplicate

pingVars == <<no_pings, pings, wire, buffer, lost>>

\* State and types; a buffer keeps one message at most.
PingTypeOK ==
    /\ no_pings \in [Origins -> 0 .. PING_REPEAT]
    /\ pings \in [Nodes -> [PingId -> Nat \cup {None}]]
    /\ wire \in [Links -> Seq(Ping)] /\ buffer \in [Links -> Seq(Ping)]
    /\ \A l \in Links : Len(buffer[l]) <= 1
    /\ lost \in BOOLEAN

PingInit ==
    /\ no_pings = [n \in Origins |-> 0]
    /\ pings = [n \in Nodes |-> [tt \in PingId |-> None]]
    /\ wire = [l \in Links |-> <<>>] /\ buffer = [l \in Links |-> <<>>]
    /\ lost = FALSE

------------------------------------------------------------------------------
\* add_ping: whether the ping is recorded.
\* (Mutant: a ping seen before is never taken.)
IsNewOnly(n, p) == pings[n][p.tt] = None
IsNew(n, p) ==
    \/ pings[n][p.tt] = None
    \/ Mode(p.tt) = 1 /\ pings[n][p.tt] > p.dnext

\* write_to_all_peers, on top of wires w.
SentToAll(w, n, p) == [l \in Links |-> IF l[1] = n THEN Append(w[l], p) ELSE w[l]]

\* run_network, next_ping is due.
StartPing(n) ==
    LET p == [tt |-> <<n, no_pings[n] + 1>>, dnext |-> 0]
    IN  /\ no_pings[n] < PING_REPEAT
        /\ no_pings' = [no_pings EXCEPT ![n] = @ + 1]
        /\ pings' = [pings EXCEPT ![n][p.tt] = 0]
        /\ wire' = SentToAll(wire, n, p)
        /\ UNCHANGED <<buffer, lost>>

\* What is sent on.
NextHop(p) == [p EXCEPT !.dnext = @ + 1]

\* What full_buffer keeps of the pings m, with other messages behind them
\* (more) or not.
\* (Mutant: the last message is kept although it was handled.)
KeptHandled(m, more) == <<Last(m)>>
Kept(m, more) == IF more \/ Len(m) = 1 THEN <<>> ELSE <<Last(m)>>

\* tcp_connection::start and process_buffer: k more pings arrive on l.
ReadPings(l, k, more) ==
    LET n     == l[2]
        m     == buffer[l] \o SubSeq(wire[l], 1, k)
        p     == Head(m)
        taken == [wire EXCEPT ![l] = SubSeq(@, k + 1, Len(@))]
        rest  == Kept(m, more)
    IN  /\ k <= Len(wire[l]) /\ m # <<>> /\ (k > 0 \/ more)
        /\ IF IsNew(n, p)
           THEN /\ pings' = [pings EXCEPT ![n][p.tt] = p.dnext]
                /\ wire' = SentToAll(taken, n, NextHop(p))
           ELSE wire' = taken /\ UNCHANGED pings
        /\ buffer' = [buffer EXCEPT ![l] = rest]
        /\ lost' = (lost \/ Len(m) > 1 + Len(rest))
        /\ UNCHANGED no_pings

PingNext ==
    \/ \E n \in Origins : StartPing(n)
    \/ \E l \in Links, k \in 0 .. MAX_READ, more \in BOOLEAN : ReadPings(l, k, more)

\* What is on the wire arrives, and transactions follow every second.
PingFairness ==
    \A l \in Links : WF_pingVars(\E k \in 0 .. MAX_READ : ReadPings(l, k, TRUE))

PingSpec     == PingInit /\ [][PingNext]_pingVars
PingFairSpec == PingSpec /\ PingFairness

------------------------------------------------------------------------------
\* Distance over the links.
WithinHops[d \in Nat] ==
    [n \in Nodes |-> IF d = 0 THEN {n}
                     ELSE WithinHops[d - 1][n]
                            \cup {l[2] : l \in {x \in Links : x[1] \in WithinHops[d - 1][n]}}]
AllArrived == \A l \in Links : wire[l] = <<>> /\ buffer[l] = <<>>

\* "if mode=1, it means we measure diameter. Thus we update hash pings if
\* dnext is smaller than previously seen" (process_buffer.cpp:101): in any
\* order of arrival no node records less than its distance from the origin,
\* and when all pings have arrived, and none was taken for a duplicate, every
\* node that can be reached has recorded exactly that.
DistancesMeasured ==
    /\ PingTypeOK
    /\ \A tt \in PingId : \A n \in Nodes \ {tt[1]} :
           LET far == pings[n][tt]
           IN  Mode(tt) = 1 =>
                   /\ far # None => n \in WithinHops[far + 1][tt[1]]
                   /\ AllArrived /\ ~lost /\ tt[2] <= no_pings[tt[1]]
                        /\ n \in WithinHops[Cardinality(Nodes)][tt[1]]
                        => far # None /\ n \notin WithinHops[far][tt[1]]

\* The flood ends: pings that come back, over any path and in any order, are
\* not sent round for ever.
PingsDieOut == <>[]AllArrived
=============================================================================
