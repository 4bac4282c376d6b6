-------------------------------- MODULE Notifier --------------------------------
(***************************************************************************)
(* Notifications through Firebase: handler-fcm for messages, pkt2dumpfcm for       *)
(* packets.  A list of subscribers comes from the database, and each of them is    *)
(* pushed to until one push does not answer 2xx.  The database and Firebase are    *)
(* external; a push may arrive although its answer is lost.                      *)
(***************************************************************************)
EXTENDS PqWriter, SequencesExt, Integers

CONSTANTS
    Owners,   \* imei |-> the tokens of the owners of that device
    Root,     \* the tokens of user 1
    NoImei,   \* no field with the IMEI, or a device that is not in the database
    ImeiEnd,  \* imei_field_offset + imei_field_size
    PacketSize, \* packet_size, the least that a packet has
    Header    \* sizeof(PacketHeader) + 2 * sizeof(sockaddr_storage)

ASSUME OwnersAssumption ==
    /\ Root \in Seq(STRING) /\ \A d \in DOMAIN Owners : Owners[d] \in Seq(STRING)
    /\ \A m \in Messages : m.imei \in DOMAIN Owners \cup {NoImei}

VARIABLES
    tokens,  \* TokenNNameList: those that are still to be pushed to
    tz,      \* the time zone for the push
    pushed   \* id |-> those who have been notified of that message, in this order

fcmVars == <<tokens, tz, pushed>>

getPayloadSize(bytes) == bytes - Header

FcmInit == tokens = <<>> /\ tz = "default" /\ pushed = [n \in {m.id : m \in Messages} |-> <<>>]

fcm_writer_run ==
    /\ \/ Receive("fcm-writer", "lookup", {"good"})
       \/ ReceiveFails("fcm-writer")
       \/ Leave("fcm-writer")
    /\ UNCHANGED fcmVars

\* getTokenNNameList() of fcm-writer.cpp: an IMEI that is empty has no subscribers; if a
\* query fails, put() returns.
Lookup ==
    /\ At("fcm-writer", "lookup") /\ UNCHANGED <<tz, pushed>>
    /\ \/ /\ NoFault /\ Goes("zone")
          /\ tokens' = IF msg.imei = NoImei THEN <<>> ELSE Owners[msg.imei]
       \/ msg.imei # NoImei /\ Fault /\ Goes("loop") /\ UNCHANGED tokens

\* getDeviceTimeZone(), which is given the token for an IMEI and so finds no device.  A
\* BEGIN or END that fails makes the error code of the function its result.
getDeviceTimeZone ==
    /\ At("fcm-writer", "zone") /\ tokens # <<>> /\ UNCHANGED <<tokens, pushed>>
    /\ Goes("push")
    /\ \/ NoFault /\ tz' = "default"
       \/ Fault /\ tz' \in {"default", "errorcode"}

\* A packet without room for the IMEI, or too short, is not looked at.
fcmdumper_imei ==
    /\ At("fcmdumper", "lookup") /\ NoFault /\ UNCHANGED fcmVars
    /\ LET size == getPayloadSize(msg.size)
       IN Goes(IF size <= ImeiEnd \/ size < PacketSize THEN "free" ELSE "query")

\* getTokenNNameList() of fcmdumper.cpp, whose result is not looked at: a list that was
\* filled before END failed is used, a query for tokens that fails adds none.
Query ==
    /\ At("fcmdumper", "query") /\ UNCHANGED <<tz, pushed>> /\ Goes("push")
    /\ \/ NoFault /\ tokens' = IF msg.imei = NoImei THEN <<>> ELSE Root \o Owners[msg.imei]
       \/ Fault /\ msg.imei = NoImei /\ tokens' = <<>>
       \/ Fault /\ msg.imei # NoImei /\ tokens' \in {<<>>, Root, Owners[msg.imei], Root \o Owners[msg.imei]}

\* Where put() and sendNotifications() return to.
Back == IF sink = "fcmdumper" THEN "free" ELSE "loop"

Pushed == pushed' = [pushed EXCEPT ![msg.id] = Append(@, Head(tokens))]

\* Wrong on purpose: the loop goes on after a push that failed.
push2instance_Goes ==
    /\ pc = "push" /\ sink \in {"fcm-writer", "fcmdumper"} /\ tokens # <<>> /\ UNCHANGED tz
    /\ tokens' = Tail(tokens)
    /\ Goes(IF sink = "fcmdumper" THEN "push" ELSE "zone")
    /\ \/ NoFault /\ Pushed
       \/ Fault /\ UNCHANGED pushed

push2instance ==
    /\ pc = "push" /\ sink \in {"fcm-writer", "fcmdumper"} /\ tokens # <<>> /\ UNCHANGED tz
    /\ tokens' = Tail(tokens)
    /\ \/ NoFault /\ Pushed /\ Goes(IF sink = "fcmdumper" THEN "push" ELSE "zone")
       \/ Fault /\ Goes(Back) /\ (Pushed \/ UNCHANGED pushed)

\* The list is at its end.
AllPushed ==
    /\ At("fcm-writer", "zone") \/ At("fcmdumper", "push")
    /\ tokens = <<>> /\ NoFault /\ Goes(Back) /\ UNCHANGED fcmVars

FcmStep == fcm_writer_run \/ Lookup \/ getDeviceTimeZone \/ push2instance \/ AllPushed
FcmDumpStep == fcmdumper_imei \/ Query \/ push2instance \/ AllPushed

Recipients(m) ==
    IF m.imei = NoImei THEN {<<>>}
    ELSE IF sink = "fcm-writer" THEN {Owners[m.imei]}
    ELSE {Root, Owners[m.imei], Root \o Owners[m.imei]}

(***************************************************************************)
(* Nobody is notified of a message of somebody else's device, nor more often      *)
(* than the list has him, nor after one whose push failed: those notified are a     *)
(* first part of the list of that message, whatever failed for the messages before. *)
(* (fcm-writer.cpp 123-209, fcmdumper.cpp 58-193)                               *)
(***************************************************************************)
NotifiedInTurn ==
    sink \in {"fcm-writer", "fcmdumper"} =>
        \A m \in Messages : \E list \in Recipients(m) : IsPrefix(pushed[m.id], list)
=============================================================================
