---------------------------------- MODULE Sink ----------------------------------
(***************************************************************************)
(* What the programs at the end of the pipeline have in common: messages (or      *)
(* packets, or lines) arrive one after the other, a loop takes them, and a        *)
(* service that is not ours may fail while one is handled.                       *)
(*                                                                          *)
(* A message is a record with an id and a class: "good"; "other", of a type that   *)
(* -a does not allow; "noise", which readDelimitedMessage() cannot decode; for     *)
(* dumpers "short", smaller than the header of a packet.                        *)
(***************************************************************************)
EXTENDS Naturals, Sequences

CONSTANTS
    None,      \* no message
    Messages,  \* every message that may arrive
    Inboxes,   \* program |-> what arrives, in the order of the ids
    MaxFaults  \* bound: how often a service fails

ASSUME FaultsAssumption == MaxFaults \in Nat
ASSUME IdsAssumption ==
    /\ \A m \in Messages : m.id \in Nat
    /\ \A m, n \in Messages : m.id = n.id => m = n
ASSUME InboxesAssumption ==
    \A s \in DOMAIN Inboxes :
        /\ Inboxes[s] \in Seq(Messages)
        /\ \A i, j \in 1..Len(Inboxes[s]) : i < j => Inboxes[s][i].id < Inboxes[s][j].id

VARIABLES
    sink,   \* the program that runs
    pc,
    inbox,  \* what is still to arrive
    msg,    \* what is being handled
    stop,   \* stop_request # 0
    faults

sinkVars == <<sink, pc, inbox, msg, stop, faults>>

SinkInit == inbox = Inboxes[sink] /\ pc = "loop" /\ msg = None /\ stop = FALSE /\ faults = 0

Fault == faults < MaxFaults /\ faults' = faults + 1
NoFault == UNCHANGED faults

\* At place here of program s.
At(s, here) == sink = s /\ pc = here

Goes(there) == pc' = there /\ UNCHANGED <<sink, inbox, msg, stop>>

\* nn_recv() gives the next message; one that is not wanted is dropped.
Receive(s, there, wanted) ==
    /\ At(s, "loop") /\ ~stop /\ inbox # <<>>
    /\ inbox' = Tail(inbox)
    /\ LET taken == Head(inbox).class \in wanted IN
       msg' = (IF taken THEN Head(inbox) ELSE msg) /\ pc' = (IF taken THEN there ELSE pc)
    /\ NoFault /\ UNCHANGED <<sink, stop>>

\* nn_recv() fails for another reason than a signal: it is logged.
ReceiveFails(s) == At(s, "loop") /\ ~stop /\ Fault /\ Goes("loop")

Leave(s) == At(s, "loop") /\ stop /\ NoFault /\ Goes("ended")

\* A signal: its handler sets stop_request.
Signal ==
    /\ ~stop /\ pc # "ended"
    /\ stop' = TRUE
    /\ UNCHANGED <<sink, pc, inbox, msg, faults>>
=============================================================================
