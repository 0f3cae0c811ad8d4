------------------------------- MODULE Framing -------------------------------
(***************************************************************************)
(* How a session cuts messages out of the byte stream of a peer:           *)
(* tcp_connection::start appends what was read to full_buffer, and         *)
(* process_buffer handles the complete messages in it and keeps the rest.  *)
(*                                                                         *)
(* A message is '#', its fields, '!'.  A message that does not parse is    *)
(* skipped, or kept in the buffer for the next read if it is the last one; *)
(* so is one whose key was seen before in the same buffer.  A message is   *)
(* abstracted to its length, its key (none for #transactions) and what     *)
(* becomes of it:                                                          *)
(*   "good"   it parses and is handled                                     *)
(*   "bad"    it has too few fields                                        *)
(*   "short"  a #full_block with fewer transactions than announced: it is  *)
(*            handled, refused, and kept if it is the last one.            *)
(***************************************************************************)
EXTENDS Integers, SequencesExt

CONSTANTS
    Keys,      \* keys of messages, which parse__... look up in passed
    NoKey,     \* the key of a message without a key
    MAX_LEN,   \* bound: length of a message
    MAX_MSGS   \* bound: messages in the stream

Kind    == {"good", "bad", "short"}
Message == [key : Keys \cup {NoKey}, kind : Kind, len : 2 .. MAX_LEN]
Byte    == [msg : 1 .. MAX_MSGS, pos : 1 .. MAX_LEN]

ASSUME FramingBounds == MAX_LEN \in Nat /\ MAX_LEN >= 2 /\ MAX_MSGS \in Nat \ {0}
ASSUME KeysAssumption == NoKey \notin Keys

VARIABLES
    stream,        \* the messages the peer sends
    received,      \* bytes read so far
    full_buffer,   \* full_buffer of the session
    handled        \* history: messages handed to their handlers, in order

frVars == <<stream, received, full_buffer, handled>>

\* Types; what is kept starts with a '#' (or the next read throws it away).
FrameTypeOK ==
    /\ full_buffer # <<>> => full_buffer[1].pos = 1
    /\ stream \in [1 .. MAX_MSGS -> Message] /\ received \in Nat
    /\ full_buffer \in Seq(Byte) /\ handled \in Seq(1 .. MAX_MSGS)

Text(k) == [i \in 1 .. stream[k].len |-> [msg |-> k, pos |-> i]]

\* What the first k messages are on the wire.
Sent[k \in 0 .. MAX_MSGS] == IF k = 0 THEN <<>> ELSE Sent[k - 1] \o Text(k)

Wire == Sent[MAX_MSGS]

FrameInit ==
    /\ stream \in [1 .. MAX_MSGS -> Message]
    /\ received = 0 /\ full_buffer = <<>> /\ handled = <<>>

IsHash(b) == b.pos = 1
IsBang(b) == b.pos = stream[b.msg].len

\* find("#", at + 1): where the message at position at of buffer m ends, one
\* past the end of the buffer for the last one.
NextHash(m, at) ==
    CHOOSE i \in at + 1 .. Len(m) + 1 :
        /\ i = Len(m) + 1 \/ IsHash(m[i])
        /\ \A j \in at + 1 .. i - 1 : ~IsHash(m[j])

\* parse__...: enough fields, and a key not in passed.
Parses(k, passed) == stream[k].kind # "bad" /\ stream[k].key \notin passed

\* key_present comes after the test for the number of fields.
Passed(k, passed) ==
    IF stream[k].kind = "bad" \/ stream[k].key = NoKey THEN passed
    ELSE passed \cup {stream[k].key}

\* (Mutant: the last message stays in the buffer in any case.)
KeepsAlways(k, passed) == TRUE
\* What stays in the buffer if it is the last message.
Keeps(k, passed) == ~Parses(k, passed) \/ stream[k].kind = "short"

\* One round of process_buffer's loop over buffer m: acc has the keys seen, the
\* messages handled and where the next message starts; stop after a break.
Round(m, acc) ==
    LET k     == m[acc.at].msg
        next  == NextHash(m, acc.at)
        stays == next = Len(m) + 1 /\ Keeps(k, acc.passed)
    IN  IF acc.stop \/ acc.at > Len(m) THEN acc
        ELSE IF ~IsBang(m[next - 1]) THEN [acc EXCEPT !.stop = TRUE]
        ELSE [passed |-> Passed(k, acc.passed),
              out    |-> IF Parses(k, acc.passed) THEN Append(acc.out, k) ELSE acc.out,
              at     |-> IF stays THEN acc.at ELSE next,
              stop   |-> stays]

\* The loop: a buffer has at most as many messages as bytes.
AfterLoop(m) ==
    LET turn[p \in 0 .. Len(m)] ==
            IF p = 0 THEN [passed |-> {}, out |-> <<>>, at |-> 1, stop |-> FALSE]
            ELSE Round(m, turn[p - 1])
    IN  turn[Len(m)]

\* (Mutant: the unfinished rest is lost.)
RestNothing(m, at) == <<>>
Rest(m, at) == SubSeq(m, at, Len(m))

\* process_buffer on buffer m: the messages it handles and what it leaves.
ProcessBuffer(m) ==
    IF ~IsHash(m[1]) THEN [out |-> <<>>, rest |-> <<>>]
    ELSE [out |-> AfterLoop(m).out, rest |-> Rest(m, AfterLoop(m).at)]

\* async_read_some delivers the next n bytes.
ReadSome(n) ==
    LET m == full_buffer \o SubSeq(Wire, received + 1, received + n)
        result == ProcessBuffer(m)
    IN  /\ received + n <= Len(Wire)
        /\ received' = received + n
        /\ full_buffer' = result.rest
        /\ handled' = handled \o result.out
        /\ UNCHANGED stream

FrameNext == \E n \in 1 .. MAX_LEN * MAX_MSGS : ReadSome(n)

FrameSpec == FrameInit /\ [][FrameNext]_frVars

------------------------------------------------------------------------------
Arrived(k) == \E i \in 1 .. received : Wire[i].msg = k /\ IsBang(Wire[i])

\* Messages are handled in the order sent, each once, however the stream is
\* cut into reads; only a refused #full_block kept for the next read is
\* handled a second time.
OnceInOrder ==
    /\ FrameTypeOK
    /\ \A i, j \in DOMAIN handled :
           i < j => \/ handled[i] < handled[j]
                    \/ handled[i] = handled[j] /\ j = i + 1
                       /\ stream[handled[i]].kind = "short"

\* A complete message is handled in the read that completes it, unless it does
\* not parse or an earlier message with its key was handled: nothing is held
\* back or lost by the cuts between reads.
HandledAtOnce ==
    \A k \in 1 .. MAX_MSGS :
        Arrived(k) /\ stream[k].kind # "bad" =>
            \/ k \in ToSet(handled)
            \/ \E e \in ToSet(handled) :
                 e < k /\ stream[e].key = stream[k].key /\ stream[k].key # NoKey
==============================================================================
