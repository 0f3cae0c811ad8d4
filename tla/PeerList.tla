------------------------------ MODULE PeerList ------------------------------
(***************************************************************************)
(* How nodes come to know each other: main fills the list of peers from    *)
(* the file of peers, in random order; later the senders of messages are   *)
(* added.  A peer stays at its index for ever: the callbacks of            *)
(* connections and writes keep the index.                                  *)
(*                                                                         *)
(* An address is an ip and a port.  A name in the file, or the name a node *)
(* gives itself, may be an ip or a host name; Resolve says which ip it     *)
(* stands for.                                                             *)
(***************************************************************************)
EXTENDS Integers, FiniteSets, Sequences, SequencesExt

CONSTANTS
    Hosts,
    Conf,       \* [my_ip, my_name, private_ip, port, file, allowed] of a node
    Resolve,    \* get_ip: the ip of every name
    MAX_PEERS

ASSUME PeersAssumption == MAX_PEERS \in Nat
ASSUME ConfAssumption == \A n \in Hosts :
    /\ Conf[n].file \in Seq([name : DOMAIN Resolve, port : Nat])
    /\ Conf[n].my_name \in DOMAIN Resolve /\ Conf[n].port \in Nat

Address == [ip : {Resolve[x] : x \in DOMAIN Resolve}, port : Nat]

VARIABLES
    pc,      \* "start", "adding" (the loop of main) or "running" (io_service)
    tmp,     \* main: the addresses not yet added
    peers,   \* tcp_server::peers
    speers   \* tcp_server::speers: the addresses added

peersVars == <<pc, tmp, peers, speers>>

\* Types; the file of peers gives a node MAX_PEERS peers at most.
PeersTypeOK ==
    /\ pc \in [Hosts -> {"start", "adding", "running"}]
    /\ tmp \in [Hosts -> Seq(Address)] /\ peers \in [Hosts -> Seq(Address)]
    /\ speers \in [Hosts -> SUBSET Address]
    /\ \A n \in Hosts : pc[n] # "running" => Len(peers[n]) <= MAX_PEERS

PeersInit ==
    /\ pc = [n \in Hosts |-> "start"]
    /\ tmp = [n \in Hosts |-> <<>>] /\ peers = [n \in Hosts |-> <<>>]
    /\ speers = [n \in Hosts |-> {}]

------------------------------------------------------------------------------
Known(n, p) == p \in speers[n]
Me(n) == [ip |-> Conf[n].my_ip, port |-> Conf[n].port]

\* add_peer; add_indirect_peer_if_doesnt_exist makes the same test first.
\* (Mutant: an address is added again.)
AddPeerAgain(n, p) ==
    /\ peers'  = [peers EXCEPT ![n] = IF p = Me(n) THEN @ ELSE Append(@, p)]
    /\ speers' = [speers EXCEPT ![n] = IF p = Me(n) THEN @ ELSE @ \cup {p}]
AddPeer(n, p) ==
    IF p = Me(n) \/ Known(n, p)
    THEN UNCHANGED <<peers, speers>>
    ELSE /\ peers'  = [peers EXCEPT ![n] = Append(@, p)]
         /\ speers' = [speers EXCEPT ![n] = @ \cup {p}]

\* main, reading the file: lines that name this node are left out.
IsOther(n, e) ==
    \/ e.name # Conf[n].my_name /\ Resolve[e.name] # Conf[n].private_ip
    \/ e.port # Conf[n].port
Listed(n) ==
    LET lines == Conf[n].file
        read[k \in 0 .. Len(lines)] ==
            IF k = 0 THEN <<>>
            ELSE IF IsOther(n, lines[k])
            THEN Append(read[k - 1], [ip |-> Resolve[lines[k].name], port |-> lines[k].port])
            ELSE read[k - 1]
    IN  read[Len(lines)]

ReadPeers(n) ==
    /\ pc[n] = "start"
    /\ pc'  = [pc EXCEPT ![n] = "adding"]
    /\ tmp' = [tmp EXCEPT ![n] = Listed(n)]
    /\ UNCHANGED <<peers, speers>>

\* The condition of the loop; tr stays 0.
WantsPeers(n) == Len(tmp[n]) > 0 /\ Len(peers[n]) < MAX_PEERS

\* (Mutant: the address is not erased.)
ErasedNot(s, i) == s
Erased(s, i) == RemoveAt(s, i)

\* One round of the loop, with the i-th address: an address that is this
\* node's own stays in tmp.
AddOne(n, i) ==
    /\ pc[n] = "adding" /\ WantsPeers(n)
    /\ tmp[n][i].ip # Conf[n].my_name \/ tmp[n][i].port # Conf[n].port
    /\ AddPeer(n, tmp[n][i])
    /\ tmp' = [tmp EXCEPT ![n] = Erased(@, i)]
    /\ UNCHANGED pc

\* run_network and io_service.run
Run(n) ==
    /\ pc[n] = "adding" /\ ~WantsPeers(n)
    /\ pc' = [pc EXCEPT ![n] = "running"]
    /\ UNCHANGED <<tmp, peers, speers>>

\* m has connected to n, is not refused by handle_accept, and sends a message,
\* with the name m gives itself.
Hear(n, m) ==
    /\ pc[n] = "running" /\ pc[m] = "running"
    /\ \E x \in {Conf[n].my_ip, Conf[n].private_ip} : [ip |-> x, port |-> Conf[n].port] \in speers[m]
    /\ Conf[m].my_ip \in Conf[n].allowed
    /\ AddPeer(n, [ip |-> Resolve[Conf[m].my_name], port |-> Conf[m].port])
    /\ UNCHANGED <<pc, tmp>>

PeersNext == \E n \in Hosts :
    \/ ReadPeers(n)
    \/ \E i \in DOMAIN tmp[n] : AddOne(n, i)
    \/ Run(n)
    \/ \E m \in Hosts : Hear(n, m)

\* main goes on, and every index is drawn again and again.
PeersFairness == \A n \in Hosts :
    /\ WF_peersVars(Run(n))
    /\ WF_peersVars(\E i \in DOMAIN tmp[n] : AddOne(n, i))

PeersSpec     == PeersInit /\ [][PeersNext]_peersVars
PeersFairSpec == PeersSpec /\ PeersFairness

------------------------------------------------------------------------------
\* Every address is one peer, this node's own none: from repeated lines and
\* several names in the file and from many messages of the same sender.
\* (Otherwise every message would be sent twice.)
OnePeerPerAddress ==
    /\ PeersTypeOK
    /\ \A n \in Hosts :
           /\ IsInjective(peers[n]) /\ ToSet(peers[n]) = speers[n]
           /\ Me(n) \notin ToSet(peers[n])

\* The line is this node under another name: its address is not erased by the
\* loop.
NamesItself(n, e) ==
    /\ e.name # Conf[n].my_name
    /\ Resolve[e.name] = Conf[n].my_name /\ e.port = Conf[n].port

\* A node gets through the loop of main and runs, if no line of the file of
\* peers names it by another name than the one it was given, or the file has
\* MAX_PEERS other addresses; if not, it draws its own address for ever.
Starts ==
    \A n \in Hosts :
        LET own    == {e \in ToSet(Conf[n].file) : NamesItself(n, e)}
            others == {[ip |-> Resolve[e.name], port |-> e.port] :
                         e \in ToSet(Conf[n].file) \ own} \cap ToSet(Listed(n))
        IN  own = {} \/ Cardinality(others \ {Me(n)}) >= MAX_PEERS
                => (pc[n] = "adding" ~> pc[n] = "running")
=============================================================================
