------------------------------- MODULE MCWire -------------------------------
\* What happens between nodes and shares no state, in one run of TLC: the
\* sending side of a connection, the list of peers, the pings.  The initial
\* state chooses which of them works; the others stay in one initial state.
EXTENDS PeerConn, Pings, PeerList

CONSTANTS a, b, c

VARIABLE part

Init ==
    /\ part \in {"sender", "peers", "pings"}
    /\ ConnInit /\ PeersInit /\ PingInit

Next ==
    \/ part = "sender" /\ ConnNext /\ UNCHANGED <<part, peersVars, pingVars>>
    \/ part = "peers"  /\ PeersNext /\ UNCHANGED <<part, connVars, pingVars>>
    \/ part = "pings"  /\ PingNext /\ UNCHANGED <<part, connVars, peersVars>>

\* The others have nothing to do in their initial state.
Fairness == (part = "sender" => ConnFairness) /\ PeersFairness /\ PingFairness

Spec ==
    /\ Init /\ [][Next]_<<part, connVars, peersVars, pingVars>>
    /\ Fairness

\* A triangle, and a fourth node that has not connected back yet.
Edges == {<<1, 2>>, <<2, 3>>, <<1, 3>>}
TriangleAndTail == Edges \cup {<<e[2], e[1]>> : e \in Edges} \cup {<<3, 4>>}

\* a and b on one machine, c on another with a public and a private ip; c is in
\* its own file under its host name.
Line(name, port) == [name |-> name, port |-> port]
Machines == {"10.0.0.1", "10.0.0.2"}

MCResolve == [x \in {"10.0.0.1", "10.0.0.2", "54.0.0.2", "hosta", "hostc"} |->
    CASE x = "hosta" -> "10.0.0.1" [] x = "hostc" -> "54.0.0.2" [] OTHER -> x]

MCConf == [x \in {a, b, c} |->
    CASE x = a -> [my_ip |-> "10.0.0.1", my_name |-> "hosta", private_ip |-> "",
                   port |-> 1, allowed |-> Machines,
                   file |-> <<Line("hosta", 1), Line("10.0.0.1", 2),
                              Line("hosta", 2), Line("54.0.0.2", 1), Line("10.0.0.2", 1)>>]
      [] x = b -> [my_ip |-> "10.0.0.1", my_name |-> "10.0.0.1", private_ip |-> "",
                   port |-> 2, allowed |-> Machines,
                   file |-> <<Line("10.0.0.1", 2), Line("hostc", 1)>>]
      [] x = c -> [my_ip |-> "54.0.0.2", my_name |-> "54.0.0.2", private_ip |-> "10.0.0.2",
                   port |-> 1, allowed |-> Machines \cup {"54.0.0.2"},
                   file |-> <<Line("hostc", 1), Line("10.0.0.2", 1),
                              Line("hosta", 1), Line("10.0.0.1", 2)>>]]
=============================================================================
