------------------------------- MODULE Forwarder -------------------------------
(***************************************************************************)
(* What pkt2receiver promises to the handlers: it takes one packet at a       *)
(* time and puts its message on the message bus before it takes the next      *)
(* one, so messages are neither repeated nor reordered, and only a failing    *)
(* bus (lossy) loses one.                                                    *)
(***************************************************************************)
EXTENDS Sequences

CONSTANTS Packets, None

VARIABLES
    pending, \* the packet whose message is due, or None
    sent,    \* the messages put on the bus, each named by its packet
    lossy    \* the bus may fail

vars == <<pending, sent, lossy>>

Init == pending = None /\ sent = <<>> /\ lossy \in BOOLEAN

Take(p) ==
    /\ pending = None
    /\ pending' = p
    /\ UNCHANGED <<sent, lossy>>

Put ==
    /\ pending # None
    /\ sent' = Append(sent, pending)
    /\ pending' = None
    /\ UNCHANGED lossy

Lose ==
    /\ lossy
    /\ pending # None
    /\ pending' = None
    /\ UNCHANGED <<sent, lossy>>

Next == (\E p \in Packets : Take(p)) \/ Put \/ Lose

Spec == Init /\ [][Next]_vars

FairSpec == Spec /\ WF_vars(Put \/ Lose)
=============================================================================
