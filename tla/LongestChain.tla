---------------------------- MODULE LongestChain ----------------------------
(***************************************************************************)
(* What the block trees of a node promise, without incomplete trees,       *)
(* pointers or requests: each node knows a growing set of blocks, closed   *)
(* under parents, and extends on every chain the first block it saw of     *)
(* maximal depth.                                                          *)
(***************************************************************************)
EXTENDS Integers

CONSTANTS Nodes, Chain, Hashes, NULL

VARIABLES
    blk,    \* every mined block: its chain, parent and depth
    known,  \* known[n]: the blocks node n can build on
    tip     \* tip[n][c]: the block node n would extend on chain c

lcVars == <<blk, known, tip>>

Init ==
    /\ blk   = [c \in Chain |-> [chain |-> c, parent |-> NULL, depth |-> 0]]
    /\ known = [n \in Nodes |-> Chain]
    /\ tip   = [n \in Nodes |-> [c \in Chain |-> c]]

\* Node n mines h on top of its tip of chain c.
Mine(n, h, c) ==
    /\ h \notin DOMAIN blk
    /\ blk' = [x \in DOMAIN blk \cup {h} |->
                 IF x = h THEN [chain |-> c, parent |-> tip[n][c],
                                depth |-> blk[tip[n][c]].depth + 1]
                          ELSE blk[x]]
    /\ known' = [known EXCEPT ![n] = @ \cup {h}]
    /\ tip'   = [tip EXCEPT ![n][c] = h]

\* Node n learns the blocks S of chain c, all of whose parents it knows or
\* learns with them; it keeps its tip unless one of S is deeper.
Learn(n, c, S) ==
    LET deepestOf == {d \in S \cup {tip[n][c]} :
                        \A x \in S \cup {tip[n][c]} : blk[x].depth <= blk[d].depth}
    IN  /\ S # {} /\ S \subseteq DOMAIN blk \ known[n]
        /\ \A h \in S : blk[h].chain = c /\ blk[h].parent \in known[n] \cup S
        /\ known' = [known EXCEPT ![n] = @ \cup S]
        /\ \E d \in deepestOf :
             /\ tip[n][c] \in deepestOf => d = tip[n][c]
             /\ tip' = [tip EXCEPT ![n][c] = d]
        /\ UNCHANGED blk

Next == \E n \in Nodes, c \in Chain :
    \/ \E h \in Hashes : Mine(n, h, c)
    \/ \E S \in SUBSET (DOMAIN blk) : Learn(n, c, S)

Spec == Init /\ [][Next]_lcVars
=============================================================================
