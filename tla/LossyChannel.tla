----------------------------- MODULE LossyChannel -----------------------------
(***************************************************************************)
(* What the rest of a node expects from write_to_one_peer and              *)
(* write_to_all_peers: messages arrive in the order they were written, each *)
(* at most once, and any of them may be lost.                              *)
(***************************************************************************)
EXTENDS Naturals, Sequences

CONSTANT Msg

VARIABLES
    transit,    \* messages written and not yet sent or lost
    sent        \* messages handed to the network, in order

Init == transit = <<>> /\ sent = <<>>

Send == \E x \in Msg : transit' = Append(transit, x) /\ UNCHANGED sent

Deliver ==
    /\ transit # <<>>
    /\ sent' = Append(sent, Head(transit)) /\ transit' = Tail(transit)

\* A number of messages, the oldest first.
Lose ==
    /\ \E n \in 1 .. Len(transit) : transit' = SubSeq(transit, n + 1, Len(transit))
    /\ UNCHANGED sent

Next == Send \/ Deliver \/ Lose
=============================================================================
