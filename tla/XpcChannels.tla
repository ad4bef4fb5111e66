----------------------------- MODULE XpcChannels -----------------------------
(***************************************************************************)
(* What a user of RemoteXpcClient relies on: each channel is a queue of    *)
(* messages.  A receive asks for some channels and is given the next       *)
(* message of one of them, or nothing; whatever is not given to one        *)
(* receive is there for a later one.                                       *)
(***************************************************************************)
EXTENDS Naturals, Sequences

CONSTANTS
    Channels,
    Script,     \* the messages of each channel: [len, body], in order
    Receives    \* the lists of channels a receive asks for

VARIABLES
    wanted,     \* the channels the receive in progress asks for, if there is one
    got,        \* per channel: the messages receives have returned
    intact      \* no receive has met bytes it could not decode

vars == <<wanted, got, intact>>

\* The messages with a body among the first k of a channel: empty messages, such
\* as keepalives, are nobody's.
BodiesUpTo(c) ==
    LET upto[k \in 0..Len(Script[c])] ==
            IF k = 0 THEN <<>>
            ELSE IF Script[c][k].body THEN Append(upto[k - 1], k) ELSE upto[k - 1]
    IN  upto

Bodies(c) == BodiesUpTo(c)[Len(Script[c])]

Init == wanted = <<>> /\ got = [c \in Channels |-> <<>>] /\ intact = TRUE

Ask(o) == wanted = <<>> /\ wanted' = o /\ UNCHANGED <<got, intact>>

Deliver(c) ==
    /\ \E j \in DOMAIN wanted : wanted[j] = c
    /\ Len(got[c]) < Len(Bodies(c))
    /\ got' = [got EXCEPT ![c] = Append(@, Bodies(c)[Len(@) + 1])]
    /\ wanted' = <<>>
    /\ UNCHANGED intact

\* The receive fails with the connection, or is dropped.
GiveUp == wanted # <<>> /\ wanted' = <<>> /\ UNCHANGED <<got, intact>>

Next == (\E o \in Receives : Ask(o)) \/ (\E c \in Channels : Deliver(c)) \/ GiveUp

Spec == Init /\ [][Next]_vars
=============================================================================
