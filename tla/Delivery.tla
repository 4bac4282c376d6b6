-------------------------------- MODULE Delivery --------------------------------
(***************************************************************************)
(* Where messages and packets end: any one of the programs behind the buses, from    *)
(* an open connection until it leaves its loop (Service and Programs model what      *)
(* comes before and after).  Only the writers of Google Sheets share something,      *)
(* and run together.                                                          *)
(***************************************************************************)
EXTENDS Gateways, Sheets, SheetCodec

deliveryVars == <<sinkVars, pqVars, fcmVars, dumpVars, gateVars, gsVars>>

Sinks == {"pqwriter", "fcm-writer", "sheets"} \cup Dumpers \cup Gates

ASSUME SinksAssumption == Sinks \subseteq DOMAIN Inboxes

Repeats == {"message2gateway-stream", "pkt2gateway", "tcpemitter"}

Init ==
    /\ sink \in Sinks /\ SinkInit
    /\ \E m \in (IF sink = "pqwriter" THEN {"sql", "sql2", "none"} ELSE {"none"}) : PqInit(m)
    /\ FcmInit
    /\ \E o \in (IF sink \in Dumpers THEN BOOLEAN ELSE {TRUE}) : DumpInit(o)
    /\ \E r \in (IF sink \in Repeats THEN RetryCounts ELSE IF sink = "pkt2js" THEN {0, 1} ELSE {0}),
          o \in (IF sink \in {"tcpemitter", "messageemitter", "pkt2gateway", "pkt2js"} THEN BOOLEAN ELSE {TRUE}) :
          GateInit(r, o)
    /\ GsInit
    /\ sink # "sheets" => token_file = NoToken /\ valid = {}

PqWriters == PqStep /\ UNCHANGED <<fcmVars, dumpVars, gateVars, gsVars>>
Notifiers == sink = "fcm-writer" /\ FcmStep /\ UNCHANGED <<pqVars, dumpVars, gateVars, gsVars>>
DumperStep == DumpStep /\ UNCHANGED <<gateVars, gsVars>>
Passing == GateStep /\ UNCHANGED <<pqVars, fcmVars, dumpVars, gsVars>>

\* What each program does by itself.
Step == PqWriters \/ Notifiers \/ DumperStep \/ Passing

Writer(w) ==
    /\ sink = "sheets" /\ GsWriter(w)
    /\ UNCHANGED <<sinkVars, pqVars, fcmVars, dumpVars, gateVars>>

\* What comes from outside.
Outside ==
    \/ sink # "sheets" /\ sink # "pkt2gateway" /\ Signal
       /\ UNCHANGED <<pqVars, fcmVars, dumpVars, gateVars, gsVars>>
    \/ pkt2gateway_signal /\ UNCHANGED <<pqVars, fcmVars, dumpVars, gsVars>>
    \/ sink = "sheets" /\ (Expire \/ \E w \in Writers : ReadFails(w))
       /\ UNCHANGED <<sinkVars, pqVars, fcmVars, dumpVars, gateVars>>

Next == Step \/ (\E w \in Writers : Writer(w)) \/ Outside

\* A program is a process of its own: it goes on while it can.
DeliverySpec ==
    /\ Init /\ [][Next]_deliveryVars
    /\ WF_deliveryVars(Step) /\ \A w \in Writers : WF_deliveryVars(Writer(w))

-----------------------------------------------------------------------------

(***************************************************************************)
(* The conversions of google-sheets.cpp are right on every input of the bounds.      *)
(* They do not depend on the state: the first states are enough to look at them.    *)
(***************************************************************************)
ConversionsRight == (sink = "sheets" /\ gpc = [w \in Writers |-> "new"] /\ trouble = 0) => CodecRight

(***************************************************************************)
(* Whatever fails on the way, a program comes back for the next message until none   *)
(* is left, or leaves its loop; the writers of Google Sheets come to their last row   *)
(* whatever token they have, unless a file cannot be read.  (The emitters do          *)
(* neither if their file cannot be opened.)                                      *)
(***************************************************************************)
ComesBack ==
    <>(\/ IF sink = "sheets" THEN AllRowsTried ELSE pc = "loop" /\ inbox = <<>>
       \/ pc \in {"ended", "crashed"}
       \/ sink \in {"tcpemitter", "messageemitter"} /\ ~opened)
=============================================================================
