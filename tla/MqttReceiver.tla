----------------------------- MODULE MqttReceiver -----------------------------
(***************************************************************************)
(* mqtt-receiver: the main thread opens the bus, connects the MQTT client and  *)
(* waits for a request to stop; a thread of the MQTT library calls back for    *)
(* every message and when the connection is lost.  The broker keeps what no     *)
(* callback has returned from, for conn_opts.cleansession is 0.                *)
(*                                                                          *)
(* The library and the broker are modelled from their use: callbacks of one     *)
(* client do not overlap, and MQTTClient_disconnect() waits for a running one.  *)
(***************************************************************************)
EXTENDS Integers, Sequences, FiniteSets

CONSTANTS
    MaxMessages,    \* bound: how many messages are published
    MaxLost,        \* bound: how often the connection is lost
    MaxRefused,     \* bound: how often the broker or the bus refuses
    MaxUnsent,      \* bound: how often nn_send() fails through an endpoint that is there
    MaxMqttSignals  \* bound: how many signals are delivered

ASSUME MqttBounds ==
    /\ MaxMessages \in Nat /\ MaxLost \in Nat /\ MaxRefused \in Nat
    /\ MaxUnsent \in Nat /\ MaxMqttSignals \in Nat

VARIABLES
    mpc,        \* the main thread: "start", "open", "connect", "loop", "shutdown", "disconnect", "again", "ended"
    mstop,      \* config->stop_request
    mout,       \* the nanomsg endpoint is connected to the packet bus
    mlink,      \* the client is connected to the broker, and the callbacks may run
    mqueue,     \* what the broker has for the client: numbers of messages
    mcallback,  \* 0, or the message cb_message_arrived() was called for and has not returned from
    msent,      \* the messages that nn_send() took for the packet bus
    mhandled,   \* the messages a callback has returned from
    mlost,      \* the connection was lost and the main thread has not connected since
    mcount      \* what happened so far, for the bounds

mqttVars == <<mpc, mstop, mout, mlink, mqueue, mcallback, msent, mhandled, mlost, mcount>>

MqttPlaces == {"start", "open", "connect", "loop", "shutdown", "disconnect", "again", "ended"}
MqttEvents == {"messages", "lost", "refused", "unsent", "signals"}
Nothing == [e \in MqttEvents |-> 0]
Happened(what) == mcount' = [mcount EXCEPT ![what] = @ + 1]

MqttInit ==
    /\ mpc = "start"
    /\ mstop = 0
    /\ mout = FALSE
    /\ mlink = FALSE
    /\ mqueue = <<>>
    /\ mcallback = 0
    /\ msent = <<>>
    /\ mhandled = {}
    /\ mlost = FALSE
    /\ mcount = Nothing

-----------------------------------------------------------------------------
(* The main thread.                                                         *)

MqttStart ==
    /\ mpc = "start"
    /\ mstop' = 0
    /\ mpc' = "open"
    /\ UNCHANGED <<mout, mlink, mqueue, mcallback, msent, mhandled, mlost, mcount>>

\* Wrong on purpose: a bus that refuses is not looked at.
MqttOpen_Unchecked ==
    /\ mpc = "open"
    /\ mpc' = "connect"
    /\ \/ mcount.refused < MaxRefused /\ Happened("refused") /\ UNCHANGED mout
       \/ mout' = TRUE /\ UNCHANGED mcount
    /\ UNCHANGED <<mstop, mlink, mqueue, mcallback, msent, mhandled, mlost>>

\* nn_setsockopt() or nn_connect() may fail.
MqttOpen ==
    /\ mpc = "open"
    /\ \/ /\ mcount.refused < MaxRefused
          /\ mpc' = "ended"
          /\ Happened("refused")
          /\ UNCHANGED mout
       \/ /\ mpc' = "connect"
          /\ mout' = TRUE
          /\ UNCHANGED mcount
    /\ UNCHANGED <<mstop, mlink, mqueue, mcallback, msent, mhandled, mlost>>

\* The client is made, given its callbacks, connected and subscribed.  The loop is
\* entered whether or not it is connected: the result is not looked at.
do_connect ==
    /\ mpc = "connect"
    /\ mpc' = "loop"
    /\ mlost' = FALSE
    /\ \/ mlink' = TRUE /\ UNCHANGED mcount
       \/ mcount.refused < MaxRefused /\ mlink' = FALSE /\ Happened("refused")
    /\ UNCHANGED <<mstop, mout, mqueue, mcallback, msent, mhandled>>

MqttLoop ==
    /\ mpc = "loop"
    /\ mstop # 0
    /\ mpc' = "shutdown"
    /\ UNCHANGED <<mstop, mout, mlink, mqueue, mcallback, msent, mhandled, mlost, mcount>>

nn_shutdown ==
    /\ mpc = "shutdown"
    /\ mout' = FALSE
    /\ mpc' = "disconnect"
    /\ UNCHANGED <<mstop, mlink, mqueue, mcallback, msent, mhandled, mlost, mcount>>

\* MQTTClient_disconnect() and MQTTClient_destroy().
MqttDisconnect ==
    /\ mpc = "disconnect"
    /\ mcallback = 0
    /\ mlink' = FALSE
    /\ mpc' = "again"
    /\ UNCHANGED <<mstop, mout, mqueue, mcallback, msent, mhandled, mlost, mcount>>

MqttAgain ==
    /\ mpc = "again"
    /\ mpc' = IF mstop = 2 THEN "start" ELSE "ended"
    /\ UNCHANGED <<mstop, mout, mlink, mqueue, mcallback, msent, mhandled, mlost, mcount>>

-----------------------------------------------------------------------------
(* The thread of the library.                                                *)

\* nn_send() may fail at any time, which is only logged; once the endpoint is shut down
\* it fails or finds no peer.
cb_message_arrived ==
    /\ mlink
    /\ mcallback = 0
    /\ mqueue # <<>>
    /\ mcallback' = Head(mqueue)
    /\ \/ mout /\ msent' = Append(msent, Head(mqueue)) /\ UNCHANGED mcount
       \/ mout /\ mcount.unsent < MaxUnsent /\ Happened("unsent") /\ UNCHANGED msent
       \/ ~mout /\ UNCHANGED <<msent, mcount>>
    /\ UNCHANGED <<mpc, mstop, mout, mlink, mqueue, mhandled, mlost>>

\* Wrong on purpose: the callback returns 0, and is called again.
MessageHandled_Refused ==
    /\ mcallback # 0
    /\ mhandled' = mhandled \cup {mcallback}
    /\ mcallback' = 0
    /\ UNCHANGED <<mpc, mstop, mout, mlink, mqueue, msent, mlost, mcount>>

\* It returns 1 whether or not the packet was sent.
MessageHandled ==
    /\ mcallback # 0
    /\ mhandled' = mhandled \cup {mcallback}
    /\ mqueue' = Tail(mqueue)
    /\ mcallback' = 0
    /\ UNCHANGED <<mpc, mstop, mout, mlink, msent, mlost, mcount>>

\* Wrong on purpose: the loss is written to the log only.
cb_connection_lost_Silent ==
    /\ mlink
    /\ mcallback = 0
    /\ mcount.lost < MaxLost
    /\ mlink' = FALSE
    /\ mlost' = TRUE
    /\ Happened("lost")
    /\ UNCHANGED <<mpc, mstop, mout, mqueue, mcallback, msent, mhandled>>

\* It may overwrite a request to stop.
cb_connection_lost ==
    /\ mlink
    /\ mcallback = 0
    /\ mcount.lost < MaxLost
    /\ mlink' = FALSE
    /\ mlost' = TRUE
    /\ mstop' = 2
    /\ Happened("lost")
    /\ UNCHANGED <<mpc, mout, mqueue, mcallback, msent, mhandled>>

-----------------------------------------------------------------------------
(* The broker and the signals.                                               *)

Publish ==
    /\ mcount.messages < MaxMessages
    /\ Happened("messages")
    /\ mqueue' = Append(mqueue, mcount.messages + 1)
    /\ UNCHANGED <<mpc, mstop, mout, mlink, mcallback, msent, mhandled, mlost>>

MqttSignal ==
    /\ mpc # "ended"
    /\ mcount.signals < MaxMqttSignals
    /\ mstop' \in {1, 2}
    /\ Happened("signals")
    /\ UNCHANGED <<mpc, mout, mlink, mqueue, mcallback, msent, mhandled, mlost>>

MqttMain == MqttStart \/ MqttOpen \/ do_connect \/ MqttLoop \/ nn_shutdown \/ MqttDisconnect \/ MqttAgain
MqttThread == cb_message_arrived \/ MessageHandled
MqttNext == MqttMain \/ MqttThread \/ cb_connection_lost \/ Publish \/ MqttSignal

MqttSpec == MqttInit /\ [][MqttNext]_mqttVars

-----------------------------------------------------------------------------
(* Properties.                                                              *)

MqttFlags == mout \in BOOLEAN /\ mlink \in BOOLEAN /\ mlost \in BOOLEAN

MqttTypeOK ==
    /\ mpc \in MqttPlaces
    /\ mstop \in 0..2
    /\ MqttFlags
    /\ mqueue \in Seq(Nat)
    /\ mcallback \in Nat
    /\ msent \in Seq(Nat)
    /\ mhandled \in SUBSET Nat
    /\ mcount \in [MqttEvents -> Nat]

\* A message that the broker forgets although the packet bus never had it is one for
\* which nn_send() reported a failure, or one handled after nn_shutdown() and before
\* MQTTClient_disconnect(), the two calls at the end of mqtt_receiever_nano(): at no
\* other time does the callback find the endpoint missing.
LossHasAReason ==
    [][(mcallback = 0 /\ mcallback' # 0 /\ msent' = msent)
           => mpc = "disconnect" \/ mcount'.unsent > mcount.unsent]_mqttVars

\* The packet bus sees every message at most once and in the order of the broker, over all
\* reconnections.
SentInOrder == \A i, j \in 1..Len(msent) : i < j => msent[i] < msent[j]

\* A lost connection is tried again, or the program ends, whatever requests the
\* signals and the callbacks write over each other.
LostIsTriedAgain == mlost ~> (~mlost \/ mpc = "ended")
=============================================================================
