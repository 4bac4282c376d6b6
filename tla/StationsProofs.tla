---------------------------- MODULE StationsProofs ----------------------------
(***************************************************************************)
(* The receivers at the edge: what mqtt-receiver does with the messages of the   *)
(* broker, for any number of messages, lost connections, refusals and signals,    *)
(* what freceiver makes of a file of any length, and what tcpreceiver makes of    *)
(* packets of any length, compressed with any table of codes.                   *)
(***************************************************************************)
EXTENDS Stations, SequenceTheorems, FiniteSetTheorems, WellFoundedInduction, TLAPS

\* The endpoint is there while the callbacks may run, but for the time between
\* nn_shutdown() and MQTTClient_disconnect().
Connected ==
    /\ mpc \in {"connect", "loop", "shutdown"} => mout
    /\ mlink => mpc \in {"loop", "shutdown", "disconnect"}

\* The broker's queue is in order and has been published; a running callback is that of
\* its head; what was sent comes before what waits.
Queued ==
    /\ \A i \in 1..Len(mqueue) : mqueue[i] \in 1..mcount.messages
    /\ \A i, j \in 1..Len(mqueue) : i < j => mqueue[i] < mqueue[j]
    /\ mcallback # 0 => mqueue # <<>> /\ mcallback = mqueue[1]

Sent ==
    /\ \A i \in 1..Len(msent) : msent[i] <= mcount.messages
    /\ \A i \in 1..Len(msent), j \in 1..Len(mqueue) : msent[i] <= mqueue[j]
    /\ mcallback = 0 => \A i \in 1..Len(msent), j \in 1..Len(mqueue) : msent[i] < mqueue[j]
    /\ SentInOrder

MqttInv == MqttTypeOK /\ Queued /\ Sent

-----------------------------------------------------------------------------
\* Head and Tail of a queue of numbers, and a number put at the end of one.
LEMMA QueueParts ==
    ASSUME NEW q \in Seq(Nat), q # <<>>
    PROVE  /\ Head(q) = q[1] /\ Len(q) \in Nat /\ Len(q) >= 1 /\ q[1] \in Nat
           /\ Tail(q) \in Seq(Nat) /\ Len(Tail(q)) = Len(q) - 1
           /\ \A i \in 1..Len(Tail(q)) : Tail(q)[i] = q[i + 1]
  OBVIOUS

LEMMA QueueAppend ==
    ASSUME NEW q \in Seq(Nat), NEW e \in Nat
    PROVE  /\ Append(q, e) \in Seq(Nat) /\ Len(q) \in Nat /\ Len(Append(q, e)) = Len(q) + 1
           /\ \A i \in 1..Len(q) : Append(q, e)[i] = q[i] /\ q[i] \in Nat
           /\ Append(q, e)[Len(q) + 1] = e
           /\ Append(q, e) # q
  OBVIOUS

\* A step that leaves the messages and their order alone keeps the invariant on them.
LEMMA Elsewhere ==
    ASSUME MqttInv, UNCHANGED <<mqueue, mcallback, msent>>, mcount'.messages = mcount.messages
    PROVE  Queued' /\ Sent'
  BY DEF MqttInv, Queued, Sent, SentInOrder

\* What is counted stays a number; only Publish counts messages.
LEMMA Counted ==
    ASSUME mcount \in [MqttEvents -> Nat], NEW what \in MqttEvents, Happened(what)
    PROVE  /\ mcount' \in [MqttEvents -> Nat]
           /\ mcount'.messages = IF what = "messages" THEN mcount.messages + 1 ELSE mcount.messages
  BY DEF Happened, MqttEvents

-----------------------------------------------------------------------------
LEMMA InitHolds == MqttInit => MqttInv
  <1> SUFFICES ASSUME MqttInit PROVE MqttInv
    OBVIOUS
  <1>0. MqttFlags
    BY DEF MqttInit, MqttFlags
  <1>1. MqttTypeOK
    BY <1>0 DEF MqttInit, MqttTypeOK, MqttPlaces, MqttEvents, Nothing
  <1>2. Len(<<>>) = 0 /\ mqueue = <<>> /\ msent = <<>> /\ mcallback = 0
    BY DEF MqttInit
  <1>3. Queued /\ Sent
    BY <1>2 DEF Queued, Sent, SentInOrder
  <1> QED BY <1>1, <1>3 DEF MqttInv

\* Every step keeps the flags Boolean.
LEMMA StepFlags == MqttFlags /\ [MqttNext]_mqttVars => MqttFlags'
  <1> SUFFICES ASSUME MqttFlags, [MqttNext]_mqttVars PROVE MqttFlags'
    OBVIOUS
  <1> USE DEF MqttFlags
  <1>1. CASE MqttMain
    BY <1>1 DEF MqttMain, MqttStart, MqttOpen, do_connect, MqttLoop, nn_shutdown, MqttDisconnect, MqttAgain
  <1>2. CASE MqttThread
    BY <1>2 DEF MqttThread, cb_message_arrived, MessageHandled
  <1>3. CASE cb_connection_lost \/ Publish \/ MqttSignal
    BY <1>3 DEF cb_connection_lost, Publish, MqttSignal
  <1>4. CASE UNCHANGED mqttVars
    BY <1>4 DEF mqttVars
  <1> QED BY <1>1, <1>2, <1>3, <1>4 DEF MqttNext

\* Every step keeps the types.
LEMMA StepTypes == MqttInv /\ [MqttNext]_mqttVars => MqttTypeOK'
  <1> SUFFICES ASSUME MqttInv, [MqttNext]_mqttVars PROVE MqttTypeOK'
    OBVIOUS
  <1> USE DEF MqttInv, MqttTypeOK, MqttPlaces, MqttEvents
  <1>0. MqttFlags'
    BY StepFlags
  <1> USE <1>0
  <1>1. CASE MqttStart BY <1>1 DEF MqttStart
  <1>2. CASE MqttOpen BY <1>2, Counted DEF MqttOpen
  <1>3. CASE do_connect BY <1>3, Counted DEF do_connect
  <1>4. CASE MqttLoop BY <1>4 DEF MqttLoop
  <1>5. CASE nn_shutdown BY <1>5 DEF nn_shutdown
  <1>6. CASE MqttDisconnect BY <1>6 DEF MqttDisconnect
  <1>7. CASE MqttAgain BY <1>7 DEF MqttAgain
  <1>8. CASE cb_message_arrived
    <2>1. Head(mqueue) \in Nat /\ Append(msent, Head(mqueue)) \in Seq(Nat)
      BY <1>8, QueueParts, QueueAppend DEF cb_message_arrived
    <2>2. mcount' \in [MqttEvents -> Nat]
      BY <1>8, Counted DEF cb_message_arrived
    <2> QED BY <1>8, <2>1, <2>2 DEF cb_message_arrived
  <1>9. CASE MessageHandled
    <2>1. mqueue # <<>> /\ Tail(mqueue) \in Seq(Nat)
      BY <1>9, QueueParts DEF MessageHandled, Queued
    <2> QED BY <1>9, <2>1 DEF MessageHandled
  <1>10. CASE cb_connection_lost BY <1>10, Counted DEF cb_connection_lost
  <1>11. CASE Publish
    <2>1. mcount.messages + 1 \in Nat
      OBVIOUS
    <2>2. Append(mqueue, mcount.messages + 1) \in Seq(Nat)
      BY <2>1
    <2> QED BY <1>11, <2>2, Counted DEF Publish
  <1>12. CASE MqttSignal BY <1>12, Counted DEF MqttSignal
  <1>13. CASE UNCHANGED mqttVars BY <1>13 DEF mqttVars
  <1> QED BY <1>1, <1>2, <1>3, <1>4, <1>5, <1>6, <1>7, <1>8, <1>9, <1>10, <1>11, <1>12, <1>13
          DEF MqttNext, MqttMain, MqttThread

\* Every step keeps the order of the messages; only three touch it.
LEMMA StepOrder == MqttInv /\ [MqttNext]_mqttVars => Queued' /\ Sent'
  <1> SUFFICES ASSUME MqttInv, [MqttNext]_mqttVars PROVE Queued' /\ Sent'
    OBVIOUS
  <1>0. /\ mqueue \in Seq(Nat) /\ msent \in Seq(Nat) /\ mcallback \in Nat
        /\ mcount.messages \in Nat /\ Len(mqueue) \in Nat /\ Len(msent) \in Nat
        /\ mcount \in [MqttEvents -> Nat]
    BY DEF MqttInv, MqttTypeOK, MqttEvents
  <1>1. CASE cb_message_arrived
    <2>0. mcount'.messages = mcount.messages
      BY <1>0, <1>1, Counted DEF cb_message_arrived, MqttEvents
    <2>1. /\ mqueue' = mqueue /\ mcount'.messages = mcount.messages /\ mcallback = 0 /\ mqueue # <<>>
          /\ mcallback' = mqueue[1] /\ Head(mqueue) = mqueue[1] /\ mqueue[1] \in Nat /\ Len(mqueue) >= 1
      BY <1>0, <1>1, <2>0, QueueParts DEF cb_message_arrived
    <2>2. Queued'
      BY <1>0, <2>1 DEF MqttInv, Queued
    <2>3. mcallback' # 0
      BY <1>0, <2>1 DEF MqttInv, Queued
    <2>4. CASE msent' = msent
      BY <1>0, <2>1, <2>3, <2>4 DEF MqttInv, Queued, Sent, SentInOrder
    <2>5. CASE msent' = Append(msent, mqueue[1])
      <3>1. /\ Len(msent') = Len(msent) + 1 /\ msent'[Len(msent) + 1] = mqueue[1]
            /\ \A i \in 1..Len(msent) : msent'[i] = msent[i] /\ msent[i] \in Nat
        BY <1>0, <2>1, <2>5, QueueAppend
      <3>2. \A j \in 1..Len(mqueue) : mqueue[1] <= mqueue[j]
        BY <1>0, <2>1 DEF MqttInv, Queued
      <3>3. \A i \in 1..Len(msent) : msent[i] < mqueue[1]
        BY <1>0, <2>1 DEF MqttInv, Sent
      <3>4. mqueue[1] <= mcount.messages
        BY <1>0, <2>1 DEF MqttInv, Queued
      <3>5. \A i \in 1..Len(msent') : i \in 1..Len(msent) \/ i = Len(msent) + 1
        BY <1>0, <3>1
      <3>6. SentInOrder'
        <4>1. \A i, j \in 1..Len(msent) : i < j => msent[i] < msent[j]
          BY DEF MqttInv, Sent, SentInOrder
        <4>2. \A i, j \in 1..Len(msent') : i < j => msent'[i] < msent'[j]
          BY <1>0, <2>1, <3>1, <3>3, <3>5, <4>1, SMTT(40)
        <4> QED BY <4>2 DEF SentInOrder
      <3>7. \A i \in 1..Len(msent') : msent'[i] <= mcount.messages
        BY <1>0, <3>1, <3>4, <3>5 DEF MqttInv, Sent
      <3>8. \A i \in 1..Len(msent'), j \in 1..Len(mqueue) : msent'[i] <= mqueue[j]
        BY <1>0, <3>1, <3>2, <3>5 DEF MqttInv, Sent
      <3> QED BY <2>1, <2>2, <2>3, <3>6, <3>7, <3>8 DEF Sent
    <2> QED BY <1>1, <2>1, <2>2, <2>4, <2>5 DEF cb_message_arrived
  <1>2. CASE MessageHandled
    <2>1. /\ mqueue # <<>> /\ msent' = msent /\ mcount' = mcount /\ mcallback' = 0 /\ mqueue' = Tail(mqueue)
      BY <1>2 DEF MessageHandled, MqttInv, Queued
    <2>2. /\ Len(mqueue') = Len(mqueue) - 1 /\ Len(mqueue) >= 1
          /\ \A i \in 1..Len(mqueue') : mqueue'[i] = mqueue[i + 1] /\ i + 1 \in 1..Len(mqueue)
      BY <1>0, <2>1, QueueParts
    <2>3. \A i \in 1..Len(mqueue) : mqueue[i] \in Nat
      BY <1>0
    <2>4. Queued'
      BY <1>0, <2>1, <2>2, <2>3 DEF MqttInv, Queued
    <2>5. \A i \in 1..Len(msent), j \in 1..Len(mqueue') : msent[i] < mqueue'[j]
      <3> SUFFICES ASSUME NEW i \in 1..Len(msent), NEW j \in 1..Len(mqueue') PROVE msent[i] < mqueue'[j]
        OBVIOUS
      <3>1. msent[i] <= mqueue[1] /\ msent[i] \in Nat
        BY <1>0, <2>2 DEF MqttInv, Sent
      <3>2. mqueue[1] < mqueue[j + 1]
        BY <1>0, <2>2 DEF MqttInv, Queued
      <3> QED BY <1>0, <2>2, <2>3, <3>1, <3>2, SMTT(40)
    <2>6. \A i \in 1..Len(msent) : msent[i] \in Nat
      BY <1>0
    <2>7. Sent'
      BY <1>0, <2>1, <2>2, <2>3, <2>5, <2>6 DEF MqttInv, Sent, SentInOrder
    <2> QED BY <2>4, <2>7
  <1>3. CASE Publish
    <2> DEFINE e == mcount.messages + 1
    <2>1. /\ mqueue' = Append(mqueue, e) /\ mcount'.messages = e
          /\ UNCHANGED <<mcallback, msent>>
      BY <1>0, <1>3, Counted DEF Publish, MqttEvents
    <2>2. /\ Len(mqueue') = Len(mqueue) + 1 /\ mqueue'[Len(mqueue) + 1] = e
          /\ \A i \in 1..Len(mqueue) : mqueue'[i] = mqueue[i] /\ mqueue[i] \in Nat
      BY <1>0, <2>1, QueueAppend
    <2>3. \A i \in 1..Len(mqueue') : i \in 1..Len(mqueue) \/ i = Len(mqueue) + 1
      BY <1>0, <2>2
    <2>4. e \in Nat /\ e > mcount.messages
      BY <1>0
    <2> HIDE DEF e
    <2>5. \A i \in 1..Len(mqueue) : mqueue[i] \in 1..mcount.messages
      BY DEF MqttInv, Queued
    <2>6. \A i \in 1..Len(mqueue') : mqueue'[i] \in 1..e
      <3> SUFFICES ASSUME NEW i \in 1..Len(mqueue') PROVE mqueue'[i] \in 1..e
        OBVIOUS
      <3>1. mcount.messages \in Nat
        BY <1>0
      <3>2. CASE i \in 1..Len(mqueue)
        <4>1. mqueue'[i] = mqueue[i] /\ mqueue[i] \in 1..mcount.messages
          BY <2>2, <2>5, <3>2
        <4> QED BY <2>4, <3>1, <4>1
      <3>3. CASE i = Len(mqueue) + 1
        BY <2>2, <2>4, <3>1, <3>3
      <3> QED BY <2>3, <3>2, <3>3
    <2>7. \A i, j \in 1..Len(mqueue') : i < j => mqueue'[i] < mqueue'[j]
      <3> SUFFICES ASSUME NEW i \in 1..Len(mqueue'), NEW j \in 1..Len(mqueue'), i < j
                   PROVE  mqueue'[i] < mqueue'[j]
        OBVIOUS
      <3>1. mcount.messages \in Nat /\ i \in 1..Len(mqueue)
        BY <1>0, <2>2
      <3>2. mqueue'[i] = mqueue[i] /\ mqueue[i] \in 1..mcount.messages
        BY <2>2, <2>5, <3>1
      <3>3. CASE j \in 1..Len(mqueue)
        <4>1. mqueue'[j] = mqueue[j]
          BY <2>2, <3>3
        <4> QED BY <3>1, <3>2, <3>3, <4>1 DEF MqttInv, Queued
      <3>4. CASE j = Len(mqueue) + 1
        BY <2>2, <2>4, <3>1, <3>2, <3>4
      <3> QED BY <2>3, <3>3, <3>4
    <2>8. mcallback # 0 => mqueue' # <<>> /\ mcallback = mqueue'[1]
      <3> SUFFICES ASSUME mcallback # 0 PROVE mqueue' # <<>> /\ mcallback = mqueue'[1]
        OBVIOUS
      <3>1. mqueue # <<>> /\ mcallback = mqueue[1] /\ Len(mqueue) >= 1
        BY <1>0, QueueParts DEF MqttInv, Queued
      <3> QED BY <1>0, <2>1, <2>2, <3>1
    <2>9. Queued'
      BY <2>1, <2>6, <2>7, <2>8 DEF Queued
    <2>10. \A i \in 1..Len(msent) : msent[i] <= mcount.messages /\ msent[i] \in Nat
      BY <1>0 DEF MqttInv, Sent
    <2>11. Sent'
      <3>1. \A i \in 1..Len(msent'), j \in 1..Len(mqueue') :
               /\ msent'[i] <= mqueue'[j]
               /\ mcallback' = 0 => msent'[i] < mqueue'[j]
        <4> SUFFICES ASSUME NEW i \in 1..Len(msent), NEW j \in 1..Len(mqueue')
                     PROVE  /\ msent[i] <= mqueue'[j]
                            /\ mcallback = 0 => msent[i] < mqueue'[j]
          BY <2>1
        <4>1. CASE j \in 1..Len(mqueue)
          <5>1. mqueue'[j] = mqueue[j]
            BY <2>2, <4>1
          <5> QED BY <4>1, <5>1 DEF MqttInv, Sent
        <4>2. CASE j = Len(mqueue) + 1
          <5>1. mqueue'[j] = e /\ msent[i] <= mcount.messages /\ msent[i] \in Nat /\ mcount.messages \in Nat
            BY <1>0, <2>2, <2>10, <4>2
          <5> QED BY <2>4, <5>1
        <4> QED BY <2>3, <4>1, <4>2
      <3>2. \A i \in 1..Len(msent') : msent'[i] <= mcount'.messages
        <4> SUFFICES ASSUME NEW i \in 1..Len(msent) PROVE msent[i] <= e
          BY <2>1
        <4>1. msent[i] <= mcount.messages /\ msent[i] \in Nat /\ mcount.messages \in Nat
          BY <1>0, <2>10
        <4> QED BY <2>4, <4>1
      <3>3. SentInOrder'
        <4>1. SentInOrder
          BY DEF MqttInv, Sent
        <4> QED BY <2>1, <4>1 DEF SentInOrder
      <3> QED BY <3>1, <3>2, <3>3 DEF Sent
    <2> QED BY <2>9, <2>11
  <1>4. ASSUME UNCHANGED <<mqueue, mcallback, msent>>, mcount'.messages = mcount.messages
        PROVE  Queued' /\ Sent'
    BY <1>4, Elsewhere
  <1> USE <1>0, Counted DEF MqttEvents
  <1>5. CASE MqttMain
    BY <1>4, <1>5 DEF MqttMain, MqttStart, MqttOpen, do_connect, MqttLoop, nn_shutdown, MqttDisconnect, MqttAgain
  <1>6. CASE cb_connection_lost
    BY <1>4, <1>6 DEF cb_connection_lost
  <1>7. CASE MqttSignal
    BY <1>4, <1>7 DEF MqttSignal
  <1>8. CASE UNCHANGED mqttVars
    BY <1>4, <1>8 DEF mqttVars
  <1> QED BY <1>1, <1>2, <1>3, <1>5, <1>6, <1>7, <1>8 DEF MqttNext, MqttThread

\* The state of the two connections at every place of the main thread.
LEMMA StepConnected == MqttInv /\ Connected /\ [MqttNext]_mqttVars => Connected'
  <1> SUFFICES ASSUME MqttInv, Connected, [MqttNext]_mqttVars PROVE Connected'
    OBVIOUS
  <1> USE DEF Connected
  <1>1. CASE MqttMain
    BY <1>1 DEF MqttMain, MqttStart, MqttOpen, do_connect, MqttLoop, nn_shutdown, MqttDisconnect, MqttAgain
  <1>2. CASE MqttThread
    BY <1>2 DEF MqttThread, cb_message_arrived, MessageHandled
  <1>3. CASE cb_connection_lost \/ Publish \/ MqttSignal
    BY <1>3 DEF cb_connection_lost, Publish, MqttSignal
  <1>4. CASE UNCHANGED mqttVars
    BY <1>4 DEF mqttVars
  <1> QED BY <1>1, <1>2, <1>3, <1>4 DEF MqttNext

\* A callback that begins and leaves the bus as it was met a failing nn_send() or found
\* the endpoint shut down.
LEMMA LossNeedsReason ==
    ASSUME MqttInv, Connected, [MqttNext]_mqttVars, mcallback = 0, mcallback' # 0, msent' = msent
    PROVE  mpc = "disconnect" \/ mcount'.unsent > mcount.unsent
  <1>1. cb_message_arrived
    BY DEF MqttNext, MqttMain, MqttThread, MqttStart, MqttOpen, do_connect, MqttLoop, nn_shutdown, MqttDisconnect,
           MqttAgain, MessageHandled, cb_connection_lost, Publish, MqttSignal, mqttVars
  <1>2. mqueue # <<>> /\ mlink /\ Head(mqueue) \in Nat /\ msent \in Seq(Nat)
    BY <1>1, QueueParts DEF cb_message_arrived, MqttInv, MqttTypeOK
  <1>3. ~mout \/ Happened("unsent")
    BY <1>1, <1>2, QueueAppend DEF cb_message_arrived
  <1>4. CASE ~mout
    BY <1>2, <1>4 DEF Connected
  <1>5. CASE Happened("unsent")
    <2>1. mcount \in [MqttEvents -> Nat]
      BY DEF MqttInv, MqttTypeOK
    <2>2. mcount'.unsent = mcount.unsent + 1 /\ mcount.unsent \in Nat
      BY <1>5, <2>1 DEF Happened, MqttEvents
    <2> QED BY <2>2
  <1> QED BY <1>3, <1>4, <1>5

-----------------------------------------------------------------------------
\* The strengthened invariant of mqtt_receiever_nano() and its callbacks.
LEMMA Invariance == MqttSpec => [](MqttInv /\ Connected)
  <1>1. MqttInit => MqttInv /\ Connected
    BY InitHolds DEF MqttInit, Connected
  <1>2. MqttInv /\ Connected /\ [MqttNext]_mqttVars => (MqttInv /\ Connected)'
    BY StepTypes, StepOrder, StepConnected DEF MqttInv
  <1> QED BY <1>1, <1>2, PTL DEF MqttSpec

\* mqtt-receiver is none the worse for the other receivers: they share none of its state.
LEMMA MqttAlone == Spec => MqttSpec
  <1>1. Init => MqttInit
    BY DEF Init
  <1>2. [Next]_stationVars => [MqttNext]_mqttVars
    BY DEF Next, Tcp, Mqtt, File, stationVars, mqttVars
  <1> QED BY <1>1, <1>2, PTL DEF Spec, MqttSpec

\* Type correctness of mqtt-receiver: stop_request is 0, 1 or 2 whichever thread wrote it
\* last, and only numbers of messages are queued and sent.
THEOREM MqttTypes == Spec => []MqttTypeOK
  <1>1. MqttInv => MqttTypeOK
    BY DEF MqttInv
  <1> QED BY MqttAlone, Invariance, <1>1, PTL

\* The packet bus gets the messages in the order in which the broker has them and none
\* twice, over any number of reconnections (cb_message_arrived()).
THEOREM BusInOrder == Spec => []SentInOrder
  <1>1. MqttInv => SentInOrder
    BY DEF MqttInv, Sent
  <1> QED BY MqttAlone, Invariance, <1>1, PTL

\* A message is lost only if nn_send() reported a failure for it, or between nn_shutdown()
\* and MQTTClient_disconnect() at the end of mqtt_receiever_nano().
THEOREM LossesHaveReasons == Spec => LossHasAReason
  <1>1. MqttInv /\ Connected /\ [MqttNext]_mqttVars
            => [(mcallback = 0 /\ mcallback' # 0 /\ msent' = msent)
                    => mpc = "disconnect" \/ mcount'.unsent > mcount.unsent]_mqttVars
    BY LossNeedsReason
  <1> QED BY MqttAlone, Invariance, <1>1, PTL DEF MqttSpec, LossHasAReason

-----------------------------------------------------------------------------
(* freceiver                                                                *)

\* What of the file is not read after n packets.
Rest(job, n) ==
    LET From(k) == SubSeq(job.file, k + 1, Len(job.file))
    IN CASE job.file_mode = "hex" -> From(n)
         [] job.file_mode # "hex" /\ job.packet_size = 0 -> IF n = 0 THEN job.file ELSE <<>>
         [] job.file_mode = "bin" /\ job.packet_size > 0 -> From(n * job.packet_size)
         [] job.file_mode = "int" /\ job.packet_size > 0 -> From(n * (job.packet_size + 1))

\* The file from position a on.
IsRest(S, s, a, rest) ==
    /\ rest \in Seq(S)
    /\ Len(rest) = (IF a < Len(s) THEN Len(s) - a ELSE 0)
    /\ \A i \in 1..Len(rest) : rest[i] = s[a + i]

LEMMA RestIsRest ==
    ASSUME NEW S, NEW s \in Seq(S), NEW a \in Nat
    PROVE  IsRest(S, s, a, SubSeq(s, a + 1, Len(s)))
  <1>1. Len(s) \in Nat
    OBVIOUS
  <1> QED BY <1>1 DEF IsRest

\* The first k of what is left after a of them, and what is left after those.
Taken(s, a, rest, k) ==
    /\ SubSeq(rest, 1, k) = SubSeq(s, a + 1, a + k)
    /\ SubSeq(rest, k + 1, Len(rest)) = SubSeq(s, a + k + 1, Len(s))

LEMMA FirstOfRest ==
    ASSUME NEW S, NEW s \in Seq(S), NEW a \in Nat, NEW k \in Nat, a + k <= Len(s),
           NEW rest, IsRest(S, s, a, rest)
    PROVE  Taken(s, a, rest, k)
  <1>1. Len(s) \in Nat
    OBVIOUS
  <1>2. /\ rest \in Seq(S) /\ Len(rest) = Len(s) - a /\ Len(rest) \in Nat /\ k <= Len(rest)
        /\ \A i \in 1..Len(rest) : rest[i] = s[a + i]
    BY <1>1 DEF IsRest
  <1>3. SubSeq(rest, 1, k) = SubSeq(s, a + 1, a + k)
    <2> DEFINE b == SubSeq(rest, 1, k)
               c == SubSeq(s, a + 1, a + k)
    <2>1. b \in Seq(S) /\ Len(b) = k /\ \A i \in 1..k : b[i] = rest[i]
      BY <1>1, <1>2
    <2>2. c \in Seq(S) /\ Len(c) = k /\ \A i \in 1..k : c[i] = s[a + i]
      BY <1>1
    <2>3. \A i \in 1..k : rest[i] = s[a + i]
      BY <1>2
    <2> HIDE DEF b, c
    <2>4. \A i \in 1..k : b[i] = c[i]
      BY <2>1, <2>2, <2>3
    <2>5. b = c
      BY <2>1, <2>2, <2>4, SeqEqual
    <2> QED BY <2>5 DEF b, c
  <1>4. SubSeq(rest, k + 1, Len(rest)) = SubSeq(s, a + k + 1, Len(s))
    <2> DEFINE b == SubSeq(rest, k + 1, Len(rest))
               c == SubSeq(s, a + k + 1, Len(s))
               m == Len(s) - a - k
    <2>1. m \in Nat /\ m = Len(rest) - k
      BY <1>1, <1>2
    <2>2. b \in Seq(S) /\ Len(b) = m /\ \A i \in 1..m : b[i] = rest[k + i]
      BY <1>1, <1>2
    <2>3. c \in Seq(S) /\ Len(c) = m /\ \A i \in 1..m : c[i] = s[a + k + i]
      BY <1>1
    <2>4. \A i \in 1..m : rest[k + i] = s[a + (k + i)] /\ a + (k + i) = a + k + i
      BY <1>1, <1>2
    <2> HIDE DEF b, c, m
    <2>5. \A i \in 1..m : b[i] = c[i]
      BY <2>2, <2>3, <2>4
    <2>6. b = c
      BY <2>2, <2>3, <2>5, SeqEqual
    <2> QED BY <2>6 DEF b, c
  <1> QED BY <1>3, <1>4 DEF Taken

\* A piece of a sequence is empty only when it is of length 0.
LEMMA FirstIsEmpty ==
    ASSUME NEW S, NEW s \in Seq(S), NEW k \in 0..Len(s)
    PROVE  SubSeq(s, 1, k) = <<>> <=> k = 0
  <1>1. Len(s) \in Nat
    OBVIOUS
  <1>2. k \in Nat /\ Len(SubSeq(s, 1, k)) = k
    BY <1>1
  <1>3. CASE k = 0
    BY <1>1, <1>3
  <1>4. CASE k # 0
    <2>1. Len(SubSeq(s, 1, k)) # 0
      BY <1>2, <1>4
    <2>2. Len(<<>>) = 0
      OBVIOUS
    <2> QED BY <1>4, <2>1, <2>2
  <1> QED BY <1>3, <1>4

\* A packet of at most size is taken, and t of the file with it.
CutOff(s, a, size, t, rest) ==
    /\ SubSeq(rest, 1, AtMost(size, Len(rest)))
         = SubSeq(s, a + 1, IF a + size < Len(s) THEN a + size ELSE Len(s))
    /\ AtMost(t, Len(rest)) = 0 <=> SubSeq(rest, 1, AtMost(size, Len(rest))) = <<>>
    /\ SubSeq(rest, AtMost(t, Len(rest)) + 1, Len(rest)) = SubSeq(s, a + t + 1, Len(s))

LEMMA Cutting ==
    ASSUME NEW S, NEW s \in Seq(S), NEW a \in Nat, NEW size \in Nat \ {0}, NEW t \in {size, size + 1},
           NEW rest, IsRest(S, s, a, rest)
    PROVE  CutOff(s, a, size, t, rest)
  <1> DEFINE k == AtMost(size, Len(rest))
             r == AtMost(t, Len(rest))
             end == IF a + size < Len(s) THEN a + size ELSE Len(s)
  <1>1. Len(s) \in Nat /\ t \in Nat /\ t > 0 /\ rest \in Seq(S) /\ Len(rest) \in Nat
    BY DEF IsRest
  <1>2. CASE a >= Len(s)
    <2>1. Len(rest) = 0
      BY <1>1, <1>2 DEF IsRest
    <2>2. rest = <<>>
      BY <1>1, <2>1
    <2>3. SubSeq(s, a + t + 1, Len(s)) = <<>>
      BY <1>1, <1>2
    <2>4. k = 0 /\ r = 0
      BY <1>1, <2>1 DEF AtMost
    <2>5. SubSeq(s, a + 1, end) = <<>>
      BY <1>1, <1>2
    <2>6. SubSeq(rest, 1, 0) = <<>> /\ SubSeq(rest, 0 + 1, Len(rest)) = <<>>
      BY <1>1, <2>1
    <2> HIDE DEF k, r, end
    <2>7. /\ SubSeq(rest, 1, k) = SubSeq(s, a + 1, end) /\ (r = 0 <=> SubSeq(rest, 1, k) = <<>>)
          /\ SubSeq(rest, r + 1, Len(rest)) = SubSeq(s, a + t + 1, Len(s))
      BY <2>3, <2>4, <2>5, <2>6, Zenon
    <2> QED BY <2>7 DEF CutOff, k, r, end
  <1>3. CASE a < Len(s)
    <2>1. Len(rest) = Len(s) - a /\ Len(rest) > 0
      BY <1>1, <1>3 DEF IsRest
    <2>2. /\ k \in Nat /\ k > 0 /\ a + k <= Len(s) /\ r \in Nat /\ r > 0 /\ a + r <= Len(s)
          /\ a + k = end
          /\ a + r = (IF a + t < Len(s) THEN a + t ELSE Len(s))
      BY <1>1, <2>1 DEF AtMost
    <2>3. SubSeq(rest, 1, k) = SubSeq(s, a + 1, a + k)
      <3> HIDE DEF k
      <3>1. Taken(s, a, rest, k)
        BY <2>2, FirstOfRest
      <3> QED BY <3>1 DEF Taken
    <2>4. SubSeq(rest, r + 1, Len(rest)) = SubSeq(s, a + r + 1, Len(s))
      <3> HIDE DEF r
      <3>1. Taken(s, a, rest, r)
        BY <2>2, FirstOfRest
      <3> QED BY <3>1 DEF Taken
    <2> HIDE DEF k, r, end
    <2>5. SubSeq(s, a + r + 1, Len(s)) = SubSeq(s, a + t + 1, Len(s))
      <3>1. CASE a + t < Len(s)
        <4>1. r = t
          BY <1>1, <2>2, <3>1
        <4> QED BY <4>1
      <3>2. CASE a + t >= Len(s)
        <4>1. a + r = Len(s)
          BY <1>1, <2>2, <3>2
        <4>2. SubSeq(s, a + r + 1, Len(s)) = <<>> /\ SubSeq(s, a + t + 1, Len(s)) = <<>>
          BY <1>1, <3>2, <4>1
        <4> QED BY <4>2
      <3>3. a + t < Len(s) \/ a + t >= Len(s)
        BY <1>1
      <3> QED BY <3>1, <3>2, <3>3
    <2>6. SubSeq(rest, 1, k) # <<>>
      <3>1. k \in 0..Len(rest) /\ k # 0
        BY <1>1, <2>1, <2>2
      <3> QED BY <1>1, <3>1, FirstIsEmpty
    <2>7. r # 0
      BY <2>2
    <2>8. /\ SubSeq(rest, 1, k) = SubSeq(s, a + 1, end) /\ (r = 0 <=> SubSeq(rest, 1, k) = <<>>)
          /\ SubSeq(rest, r + 1, Len(rest)) = SubSeq(s, a + t + 1, Len(s))
      BY <2>2, <2>3, <2>4, <2>5, <2>6, <2>7, Zenon
    <2> QED BY <2>8 DEF CutOff, k, r, end
  <1>4. a >= Len(s) \/ a < Len(s)
    BY <1>1
  <1> QED BY <1>2, <1>3, <1>4

\* The first of what is left after a of them, and what is left after that one.
LEMMA HeadOfRest ==
    ASSUME NEW S, NEW s \in Seq(S), NEW a \in Nat, a + 1 <= Len(s)
    PROVE  /\ SubSeq(s, a + 1, Len(s)) # <<>>
           /\ Head(SubSeq(s, a + 1, Len(s))) = s[a + 1] /\ s[a + 1] \in S
           /\ Tail(SubSeq(s, a + 1, Len(s))) = SubSeq(s, (a + 1) + 1, Len(s))
  <1> DEFINE rest == SubSeq(s, a + 1, Len(s))
             more == SubSeq(s, (a + 1) + 1, Len(s))
  <1>1. Len(s) \in Nat /\ s[a + 1] \in S
    OBVIOUS
  <1>2. rest \in Seq(S) /\ Len(rest) = Len(s) - a /\ \A i \in 1..Len(rest) : rest[i] = s[a + i]
    BY <1>1
  <1>3. more \in Seq(S) /\ Len(more) = Len(s) - a - 1 /\ \A i \in 1..Len(more) : more[i] = s[a + 1 + i]
    BY <1>1
  <1>4. Len(rest) > 0
    BY <1>1, <1>2
  <1> HIDE DEF rest, more
  <1>5. rest # <<>> /\ Head(rest) = s[a + 1]
    BY <1>1, <1>2, <1>4
  <1>6. Tail(rest) = more
    <2>1. /\ Tail(rest) \in Seq(S) /\ Len(Tail(rest)) = Len(rest) - 1
          /\ \A i \in 1..Len(Tail(rest)) : Tail(rest)[i] = rest[i + 1]
      BY <1>2, <1>5
    <2>2. Len(Tail(rest)) = Len(more)
      BY <1>1, <1>2, <1>3, <2>1
    <2>3. \A i \in 1..Len(more) : Tail(rest)[i] = more[i]
      BY <1>1, <1>2, <1>3, <2>1, <2>2
    <2> QED BY <1>3, <2>1, <2>2, <2>3, SeqEqual
  <1> QED BY <1>1, <1>5, <1>6 DEF rest, more

\* A packet of bytes or of numbers, by the t of them that are read for each packet.
LEMMA CutAt ==
    ASSUME NEW job \in Jobs, NEW n \in Nat, NEW t \in {job.packet_size, job.packet_size + 1},
           job.packet_size > 0, job.file_mode # "hex",
           job.file_mode = "int" <=> t = job.packet_size + 1
    PROVE  Cut(job, n + 1)
             = SubSeq(job.file, n * t + 1,
                      IF n * t + job.packet_size < Len(job.file) THEN n * t + job.packet_size ELSE Len(job.file))
  <1>1. /\ job.packet_size \in Nat /\ job.packet_size # job.packet_size + 1
        /\ job.file_mode \in {"hex", "int", "bin"} /\ (n + 1) - 1 = n
    BY JobsAssumption
  <1> DEFINE file == job.file
             size == job.packet_size
             a == n * t
  <1>2. file \in Seq(Nat) /\ Len(file) \in Nat /\ size \in Nat \ {0}
    BY <1>1, JobsAssumption
  <1>3. Cut(job, n + 1) = SubSeq(file, a + 1, IF a + size < Len(file) THEN a + size ELSE Len(file))
    BY <1>1, <1>2 DEF Cut
  <1> QED BY <1>3

LEMMA NextMultiple ==
    ASSUME NEW n \in Nat, NEW t \in Nat
    PROVE  n * t \in Nat /\ n * t + t = (n + 1) * t
  OBVIOUS

\* readData() reads the next packet of the file, and ends only where there is none.
LEMMA ReadsCut ==
    ASSUME NEW job \in Jobs, NEW n \in Nat, NEW got,
           got = readData("whole", job.file_mode, job.packet_size, Rest(job, n))
    PROVE  /\ got.packet = Cut(job, n + 1)
           /\ got.r = 0 <=> got.packet = <<>>
           /\ got.r # 0 => got.rest = Rest(job, n + 1)
  <1> DEFINE file == job.file
             size == job.packet_size
  <1>1. size \in Nat /\ job.file_mode \in {"hex", "int", "bin"} /\ (n + 1) - 1 = n
    BY JobsAssumption
  <1>2. CASE job.file_mode = "hex"
    <2>1. file \in Seq(Seq(Nat)) /\ Len(file) \in Nat
      BY <1>2, JobsAssumption
    <2>2. Rest(job, n) = SubSeq(file, n + 1, Len(file)) /\ Rest(job, n + 1) = SubSeq(file, (n + 1) + 1, Len(file))
      BY <1>2 DEF Rest
    <2>3. got = readLine(size, Rest(job, n))
      BY <1>2 DEF readData
    <2>4. Cut(job, n + 1) = IF n + 1 > Len(file) THEN <<>> ELSE SubSeq(file[n + 1], 1, AtMost(size, Len(file[n + 1])))
      BY <1>2 DEF Cut
    <2>5. CASE n + 1 > Len(file)
      <3>1. Rest(job, n) = <<>>
        BY <2>1, <2>2, <2>5
      <3>2. got = [r |-> 0, packet |-> <<>>, rest |-> <<>>]
        BY <2>3, <3>1 DEF readLine
      <3>3. Cut(job, n + 1) = <<>>
        BY <2>4, <2>5
      <3> QED BY <3>2, <3>3
    <2>6. CASE n + 1 <= Len(file)
      <3>1. /\ Rest(job, n) # <<>> /\ Head(Rest(job, n)) = file[n + 1] /\ file[n + 1] \in Seq(Nat)
            /\ Tail(Rest(job, n)) = Rest(job, n + 1)
        BY <2>1, <2>2, <2>6, HeadOfRest
      <3>2. Len(file[n + 1]) \in Nat /\ AtMost(size, Len(file[n + 1])) \in 0..Len(file[n + 1])
        BY <1>1, <3>1 DEF AtMost
      <3>3. SubSeq(file[n + 1], 1, AtMost(size, Len(file[n + 1]))) = <<>> <=> AtMost(size, Len(file[n + 1])) = 0
        BY <3>1, <3>2, FirstIsEmpty
      <3>4. /\ got.r = AtMost(size, Len(file[n + 1])) /\ got.rest = Rest(job, n + 1)
            /\ got.packet = SubSeq(file[n + 1], 1, AtMost(size, Len(file[n + 1])))
        <4> DEFINE line == file[n + 1]
                   k == AtMost(size, Len(line))
        <4>1. Head(Rest(job, n)) = line /\ Rest(job, n) # <<>>
          BY <3>1
        <4>2. got = [r |-> k, packet |-> SubSeq(line, 1, k), rest |-> Tail(Rest(job, n))]
          <5> HIDE DEF line
          <5> QED BY <2>3, <4>1 DEF readLine
        <4> HIDE DEF k
        <4>3. got.r = k /\ got.packet = SubSeq(line, 1, k) /\ got.rest = Tail(Rest(job, n))
          BY <4>2
        <4> QED BY <3>1, <4>3 DEF k
      <3>5. got.packet = Cut(job, n + 1)
        <4>1. ~(n + 1 > Len(file))
          BY <2>1, <2>6
        <4> QED BY <2>4, <3>4, <4>1, Zenon
      <3> QED BY <3>3, <3>4, <3>5
    <2> QED BY <2>1, <2>5, <2>6
  <1>3. CASE job.file_mode # "hex" /\ size = 0
    <2>1. file \in Seq(Nat) /\ Len(file) \in Nat
      BY <1>3, JobsAssumption
    <2>2. Rest(job, n) = (IF n = 0 THEN file ELSE <<>>) /\ Rest(job, n + 1) = <<>>
      BY <1>3 DEF Rest
    <2>3. Cut(job, n + 1) = Rest(job, n)
      BY <1>3, <2>2 DEF Cut
    <2>4. Rest(job, n) \in Seq(Nat) /\ Len(Rest(job, n)) \in Nat
      BY <2>1, <2>2
    <2>5. got.r = Len(Rest(job, n)) /\ got.packet = Rest(job, n) /\ got.rest = <<>>
      <3>1. CASE job.file_mode = "int"
        BY <1>3, <3>1 DEF readData, readNumbers
      <3>2. CASE job.file_mode = "bin"
        <4>1. got = readBytes(0, Rest(job, n)) /\ AtMost(0, Len(Rest(job, n))) = Len(Rest(job, n))
          BY <1>3, <2>4, <3>2 DEF readData, AtMost
        <4>2. /\ SubSeq(Rest(job, n), 1, Len(Rest(job, n))) = Rest(job, n)
              /\ SubSeq(Rest(job, n), Len(Rest(job, n)) + 1, Len(Rest(job, n))) = <<>>
          BY <2>4
        <4>3. got = [r |-> Len(Rest(job, n)), packet |-> Rest(job, n), rest |-> <<>>]
          BY <4>1, <4>2 DEF readBytes
        <4> QED BY <4>3
      <3> QED BY <1>1, <1>3, <3>1, <3>2
    <2>6. Len(Rest(job, n)) = 0 <=> Rest(job, n) = <<>>
      BY <2>4
    <2> QED BY <2>2, <2>3, <2>5, <2>6
  <1>4. ASSUME NEW t \in {size, size + 1}, size > 0, job.file_mode # "hex",
               job.file_mode = "int" <=> t = size + 1
        PROVE  /\ got.packet = Cut(job, n + 1)
               /\ got.r = 0 <=> got.packet = <<>>
               /\ got.r # 0 => got.rest = Rest(job, n + 1)
    <2>1. file \in Seq(Nat) /\ Len(file) \in Nat /\ size \in Nat \ {0} /\ size # size + 1
      BY <1>1, <1>4, JobsAssumption
    <2> DEFINE a == n * t
               rest == SubSeq(file, a + 1, Len(file))
    <2>2. a \in Nat /\ a + t = (n + 1) * t
      <3>1. t \in Nat
        BY <1>1, <1>4
      <3> QED BY <3>1, NextMultiple
    <2>3. Rest(job, n) = rest /\ Rest(job, n + 1) = SubSeq(file, a + t + 1, Len(file))
      BY <1>1, <1>4, <2>1, <2>2 DEF Rest
    <2>4. Cut(job, n + 1) = SubSeq(file, a + 1, IF a + size < Len(file) THEN a + size ELSE Len(file))
      BY <1>4, CutAt
    <2>5. /\ got.packet = SubSeq(rest, 1, AtMost(size, Len(rest)))
          /\ got.r = AtMost(t, Len(rest))
          /\ got.rest = SubSeq(rest, AtMost(t, Len(rest)) + 1, Len(rest))
      BY <1>1, <1>4, <2>1, <2>3 DEF readData, readNumbers, readBytes
    <2> DEFINE k == AtMost(size, Len(rest))
               r == AtMost(t, Len(rest))
    <2>6. /\ SubSeq(rest, 1, k) = SubSeq(file, a + 1, IF a + size < Len(file) THEN a + size ELSE Len(file))
          /\ r = 0 <=> SubSeq(rest, 1, k) = <<>>
          /\ SubSeq(rest, r + 1, Len(rest)) = SubSeq(file, a + t + 1, Len(file))
      <3>1. a \in Nat /\ size \in Nat \ {0} /\ t \in {size, size + 1} /\ file \in Seq(Nat)
        BY <1>4, <2>1, <2>2
      <3>2. IsRest(Nat, file, a, rest)
        BY <3>1, RestIsRest
      <3> HIDE DEF a, size, file, rest
      <3>3. CutOff(file, a, size, t, rest)
        BY <3>1, <3>2, Cutting
      <3> QED BY <3>3 DEF CutOff
    <2>7. got.packet = SubSeq(rest, 1, k) /\ got.r = r /\ got.rest = SubSeq(rest, r + 1, Len(rest))
      BY <2>5
    <2> HIDE DEF a, k, r, rest
    <2> QED BY <2>3, <2>4, <2>6, <2>7
  <1>5. CASE job.file_mode # "hex" /\ size # 0
    <2>1. CASE job.file_mode = "int"
      BY <1>1, <1>4, <1>5, <2>1
    <2>2. CASE job.file_mode = "bin"
      BY <1>1, <1>4, <1>5, <2>2
    <2> QED BY <1>1, <1>5, <2>1, <2>2
  <1> QED BY <1>2, <1>3, <1>5

\* A packet of a file is a sequence of numbers.
LEMMA CutType ==
    ASSUME NEW job \in Jobs, NEW n \in Nat
    PROVE  Cut(job, n + 1) \in Seq(Nat)
  <1> DEFINE file == job.file
             size == job.packet_size
             Part(from) == SubSeq(file, from + 1, IF from + size < Len(file) THEN from + size ELSE Len(file))
  <1>1. size \in Nat /\ job.file_mode \in {"hex", "int", "bin"} /\ (n + 1) - 1 = n
    BY JobsAssumption
  <1>2. CASE job.file_mode = "hex"
    <2>1. file \in Seq(Seq(Nat)) /\ Len(file) \in Nat
      BY <1>2, JobsAssumption
    <2>2. CASE n + 1 > Len(file)
      BY <1>2, <2>2 DEF Cut
    <2>3. CASE n + 1 <= Len(file)
      <3>1. PICK line : line = file[n + 1]
        OBVIOUS
      <3>2. line \in Seq(Nat) /\ Len(line) \in Nat
        BY <2>1, <2>3, <3>1
      <3>3. PICK k : k = AtMost(size, Len(line))
        OBVIOUS
      <3>4. k \in 0..Len(line)
        BY <1>1, <3>2, <3>3 DEF AtMost
      <3>5. SubSeq(line, 1, k) \in Seq(Nat)
        BY <3>2, <3>4
      <3>6. Cut(job, n + 1) = SubSeq(line, 1, k)
        <4>1. ~(n + 1 > Len(file))
          BY <2>1, <2>3
        <4> QED BY <1>2, <3>1, <3>3, <4>1 DEF Cut
      <3> QED BY <3>5, <3>6
    <2> QED BY <2>1, <2>2, <2>3
  <1>3. CASE job.file_mode # "hex"
    <2>1. file \in Seq(Nat) /\ Len(file) \in Nat
      BY <1>3, JobsAssumption
    <2>2. ASSUME NEW from \in Nat
          PROVE  Part(from) \in Seq(Nat)
      <3>1. PICK end : end = IF from + size < Len(file) THEN from + size ELSE Len(file)
        OBVIOUS
      <3>2. end \in 0..Len(file)
        BY <1>1, <2>1, <3>1
      <3>3. SubSeq(file, from + 1, end) \in Seq(Nat)
        BY <2>1, <3>2
      <3> QED BY <3>1, <3>3
    <2>3. CASE size = 0
      BY <1>1, <1>3, <2>1, <2>3 DEF Cut
    <2>4. CASE size # 0
      <3>1. PICK t \in {size, size + 1} : job.file_mode = "int" <=> t = size + 1
        BY <1>1
      <3>2. size > 0 /\ n * t \in Nat
        BY <1>1, <2>4
      <3>3. Cut(job, n + 1) = Part(n * t)
        BY <1>3, <3>1, <3>2, CutAt
      <3> QED BY <2>2, <3>2, <3>3
    <2> QED BY <2>3, <2>4
  <1> QED BY <1>2, <1>3

\* Before anything is read, all of the file is left.
LEMMA AllIsLeft ==
    ASSUME NEW job \in Jobs
    PROVE  Rest(job, 0) = job.file
  <1> DEFINE file == job.file
             size == job.packet_size
  <1>1. size \in Nat /\ job.file_mode \in {"hex", "int", "bin"} /\ 0 * size = 0 /\ 0 * (size + 1) = 0
    BY JobsAssumption
  <1>2. SubSeq(file, 0 + 1, Len(file)) = file
    <2>1. CASE job.file_mode = "hex"
      <3>1. file \in Seq(Seq(Nat))
        BY <2>1, JobsAssumption
      <3> QED BY <3>1
    <2>2. CASE job.file_mode # "hex"
      <3>1. file \in Seq(Nat)
        BY <2>2, JobsAssumption
      <3> QED BY <3>1
    <2> QED BY <2>1, <2>2
  <1>3. CASE job.file_mode = "hex"
    BY <1>2, <1>3 DEF Rest
  <1>4. CASE job.file_mode # "hex" /\ size = 0
    BY <1>4 DEF Rest
  <1>5. CASE job.file_mode = "bin" /\ size # 0
    <2>1. size > 0
      BY <1>1, <1>5
    <2>2. Rest(job, 0) = SubSeq(file, 0 * size + 1, Len(file))
      BY <1>5, <2>1 DEF Rest
    <2> QED BY <1>1, <1>2, <2>2, Zenon
  <1>6. CASE job.file_mode = "int" /\ size # 0
    <2>1. size > 0
      BY <1>1, <1>6
    <2>2. Rest(job, 0) = SubSeq(file, 0 * (size + 1) + 1, Len(file))
      BY <1>6, <2>1 DEF Rest
    <2> QED BY <1>1, <1>2, <2>2, Zenon
  <1> QED BY <1>1, <1>3, <1>4, <1>5, <1>6

\* The rest of a file is of the type of the file.
LEMMA RestType ==
    ASSUME NEW job \in Jobs, NEW n \in Nat
    PROVE  /\ job.file_mode = "hex" => Rest(job, n) \in Seq(Seq(Nat))
           /\ job.file_mode # "hex" => Rest(job, n) \in Seq(Nat)
  <1> DEFINE file == job.file
             size == job.packet_size
  <1>1. size \in Nat /\ job.file_mode \in {"hex", "int", "bin"}
    BY JobsAssumption
  <1>2. ASSUME NEW S, NEW s \in Seq(S), NEW k \in Nat PROVE SubSeq(s, k + 1, Len(s)) \in Seq(S)
    BY <1>2, RestIsRest DEF IsRest
  <1>3. CASE job.file_mode = "hex"
    <2>1. file \in Seq(Seq(Nat))
      BY <1>3, JobsAssumption
    <2>2. Rest(job, n) = SubSeq(file, n + 1, Len(file))
      BY <1>3 DEF Rest
    <2> QED BY <1>2, <1>3, <2>1, <2>2
  <1>4. CASE job.file_mode # "hex"
    <2>1. file \in Seq(Nat)
      BY <1>4, JobsAssumption
    <2>2. CASE size = 0
      BY <1>4, <2>1, <2>2 DEF Rest
    <2>3. CASE size # 0
      <3>1. PICK t \in {size, size + 1} : job.file_mode = "int" <=> t = size + 1
        BY <1>1
      <3>2. size > 0 /\ n * t \in Nat /\ size # size + 1
        BY <1>1, <2>3
      <3>3. Rest(job, n) = SubSeq(file, n * t + 1, Len(file))
        <4>1. CASE job.file_mode = "int"
          <5>1. Rest(job, n) = SubSeq(file, n * (size + 1) + 1, Len(file))
            <6>1. size # 0
              BY <1>1, <3>2
            <6> QED BY <3>2, <4>1, <6>1 DEF Rest
          <5>2. t = size + 1
            BY <3>1, <4>1
          <5> QED BY <5>1, <5>2
        <4>2. CASE job.file_mode = "bin"
          <5>1. Rest(job, n) = SubSeq(file, n * size + 1, Len(file))
            <6>1. size # 0
              BY <1>1, <3>2
            <6> QED BY <3>2, <4>2, <6>1 DEF Rest
          <5>2. t = size
            BY <3>1, <4>2
          <5> QED BY <5>1, <5>2
        <4> QED BY <1>1, <1>4, <4>1, <4>2
      <3> QED BY <1>2, <1>4, <2>1, <3>2, <3>3
    <2> QED BY <2>2, <2>3
  <1> QED BY <1>3, <1>4

\* At the end readData() returns 0.
LEMMA ReadsNothing ==
    ASSUME NEW job \in Jobs, NEW input, input # "bad", NEW got,
           got = readData(input, job.file_mode, job.packet_size, <<>>)
    PROVE  got.r = 0 /\ got.rest = <<>>
  <1>1. job.packet_size \in Nat /\ job.file_mode \in {"hex", "int", "bin"} /\ Len(<<>>) = 0
    BY JobsAssumption
  <1>2. \A k \in Nat : AtMost(k, 0) = 0
    BY DEF AtMost
  <1>3. CASE job.file_mode = "hex"
    BY <1>3 DEF readData, readLine
  <1>4. CASE job.file_mode = "int"
    <2>1. AtMost(job.packet_size + 1, Len(<<>>)) = 0
      BY <1>1, <1>2
    <2> QED BY <1>1, <1>4, <2>1 DEF readData, readNumbers
  <1>5. CASE job.file_mode = "bin"
    <2>1. AtMost(job.packet_size, Len(<<>>)) = 0
      BY <1>1, <1>2
    <2> QED BY <1>1, <1>5, <2>1 DEF readData, readBytes
  <1> QED BY <1>1, <1>3, <1>4, <1>5

\* The beginning of a sequence of numbers; if digits may be missing, the last is smaller.
Shorter(digits, p, q) ==
    /\ p \in Seq(Nat)
    /\ Len(p) <= Len(q)
    /\ \A i \in 1..Len(p) : p[i] = q[i] \/ (digits /\ i = Len(p) /\ p[i] <= q[i])

LEMMA FirstIsShorter ==
    ASSUME NEW digits, NEW q \in Seq(Nat), NEW n \in 0..Len(q)
    PROVE  Shorter(digits, SubSeq(q, 1, n), q)
  <1>1. /\ SubSeq(q, 1, n) \in Seq(Nat) /\ Len(SubSeq(q, 1, n)) = n /\ Len(q) \in Nat
        /\ \A i \in 1..n : SubSeq(q, 1, n)[i] = q[i]
    OBVIOUS
  <1> QED BY <1>1 DEF Shorter

LEMMA BrokenIsShorter ==
    ASSUME NEW q \in Seq(Nat), NEW n \in 1..Len(q), NEW part \in 0..q[n]
    PROVE  Shorter(TRUE, Append(SubSeq(q, 1, n - 1), part), q)
  <1>1. Len(q) \in Nat /\ n \in Nat /\ n - 1 \in 0..Len(q) /\ q[n] \in Nat /\ part \in Nat /\ part <= q[n]
    OBVIOUS
  <1>2. PICK s : s = SubSeq(q, 1, n - 1)
    OBVIOUS
  <1>3. s \in Seq(Nat) /\ Len(s) = n - 1 /\ \A i \in 1..(n - 1) : s[i] = q[i]
    BY <1>1, <1>2
  <1>4. PICK p : p = Append(s, part)
    OBVIOUS
  <1>5. /\ p \in Seq(Nat) /\ Len(p) = n /\ p[n] = part
        /\ \A i \in 1..(n - 1) : p[i] = q[i]
    BY <1>1, <1>3, <1>4
  <1>6. \A i \in 1..n : i \in 1..(n - 1) \/ i = n
    BY <1>1
  <1>7. Shorter(TRUE, p, q)
    BY <1>1, <1>5, <1>6 DEF Shorter
  <1> QED BY <1>2, <1>4, <1>7

\* What is cut off the beginning of a shorter one is shorter.
LEMMA CutIsShorter ==
    ASSUME NEW digits, NEW p, NEW q \in Seq(Nat), Shorter(digits, p, q), NEW size \in Nat
    PROVE  Shorter(digits, SubSeq(p, 1, AtMost(size, Len(p))), SubSeq(q, 1, AtMost(size, Len(q))))
  <1>1. p \in Seq(Nat) /\ Len(p) \in Nat /\ Len(q) \in Nat /\ Len(p) <= Len(q)
    BY DEF Shorter
  <1>2. PICK k, m : k = AtMost(size, Len(p)) /\ m = AtMost(size, Len(q))
    OBVIOUS
  <1>3. k \in 0..Len(p) /\ m \in 0..Len(q) /\ k <= m /\ (k = Len(p) \/ k = size)
    BY <1>1, <1>2 DEF AtMost
  <1>4. PICK a, b : a = SubSeq(p, 1, k) /\ b = SubSeq(q, 1, m)
    OBVIOUS
  <1>5. a \in Seq(Nat) /\ Len(a) = k /\ \A i \in 1..k : a[i] = p[i]
    BY <1>1, <1>3, <1>4
  <1>6. Len(b) = m /\ \A i \in 1..m : b[i] = q[i]
    BY <1>1, <1>3, <1>4
  <1>7. \A i \in 1..k : i \in 1..m /\ i \in 1..Len(p) /\ (i = Len(p) => i = k)
    BY <1>1, <1>3
  <1>8. \A i \in 1..k : a[i] = b[i] \/ (digits /\ i = k /\ a[i] <= b[i])
    BY <1>5, <1>6, <1>7 DEF Shorter
  <1>9. Shorter(digits, a, b)
    BY <1>3, <1>5, <1>6, <1>8 DEF Shorter
  <1> QED BY <1>2, <1>4, <1>9

\* The packet of bytes or of numbers that readData() takes off.
LEMMA PacketIs ==
    ASSUME NEW mode \in {"int", "bin"}, NEW size \in Nat, NEW s \in Seq(Nat)
    PROVE  readData("whole", mode, size, s).packet = SubSeq(s, 1, AtMost(size, Len(s)))
  <1>1. CASE mode = "bin"
    BY <1>1 DEF readData, readBytes
  <1>2. CASE mode = "int" /\ size # 0
    BY <1>2 DEF readData, readNumbers
  <1>3. CASE mode = "int" /\ size = 0
    <2>1. AtMost(size, Len(s)) = Len(s) /\ SubSeq(s, 1, Len(s)) = s
      BY <1>3 DEF AtMost
    <2> QED BY <1>3, <2>1 DEF readData, readNumbers
  <1> QED BY <1>1, <1>2, <1>3

\* What readData() makes of an input that ends before its time: the beginning of the
\* packet it would have made.
LEMMA ReadsShort ==
    ASSUME NEW job \in Jobs, NEW n \in Nat,
           NEW data \in Broken(job.file_mode, job.packet_size, Rest(job, n)),
           ~job.stdin => data \in Before(job.file_mode, job.packet_size, Rest(job, n))
    PROVE  LET packet == readData("whole", job.file_mode, job.packet_size, data).packet
           IN packet \in Seq(Nat) /\ Beginning(job, packet, Cut(job, n + 1))
  <1> DEFINE mode == job.file_mode
             size == job.packet_size
             rest == Rest(job, n)
             packet == readData("whole", mode, size, data).packet
  <1>1. size \in Nat /\ mode \in {"hex", "int", "bin"} /\ job.stdin \in BOOLEAN
    BY JobsAssumption
  <1>2. readData("whole", mode, size, rest).packet = Cut(job, n + 1)
    <2>1. PICK got : got = readData("whole", mode, size, rest)
      OBVIOUS
    <2>2. got.packet = Cut(job, n + 1)
      BY <2>1, ReadsCut
    <2> QED BY <2>1, <2>2
  <1>3. CASE mode # "hex"
    <2> DEFINE digits == job.stdin /\ mode = "int"
    <2>1. rest \in Seq(Nat)
      BY <1>3, RestType
    <2>2. Shorter(digits, data, rest)
      <3>1. CASE data \in Before(mode, size, rest)
        <4>1. PICK m \in 0..Len(rest) : data = SubSeq(rest, 1, m)
          BY <3>1 DEF Before
        <4> HIDE DEF rest, digits
        <4> QED BY <2>1, <4>1, FirstIsShorter
      <3>2. CASE data \notin Before(mode, size, rest)
        <4>1. PICK m \in 1..Len(rest) : \E part \in Parts(mode, rest[m]) : data = Append(SubSeq(rest, 1, m - 1), part)
          BY <3>2 DEF Broken
        <4>2. PICK part \in Parts(mode, rest[m]) : data = Append(SubSeq(rest, 1, m - 1), part)
          BY <4>1
        <4>3. mode = "int" /\ part \in 0..rest[m]
          BY <1>1, <1>3, <4>2 DEF Parts
        <4>4. digits = TRUE
          BY <1>1, <3>2, <4>3
        <4>5. Shorter(TRUE, data, rest)
          <5> HIDE DEF rest
          <5> QED BY <2>1, <4>2, <4>3, BrokenIsShorter
        <4> QED BY <4>4, <4>5
      <3> QED BY <3>1, <3>2
    <2>3. data \in Seq(Nat) /\ mode \in {"int", "bin"}
      BY <1>1, <1>3, <2>2 DEF Shorter
    <2>4. /\ packet = SubSeq(data, 1, AtMost(size, Len(data)))
          /\ Cut(job, n + 1) = SubSeq(rest, 1, AtMost(size, Len(rest)))
      <3> HIDE DEF rest
      <3> QED BY <1>1, <1>2, <2>1, <2>3, PacketIs
    <2>5. Shorter(digits, packet, Cut(job, n + 1))
      <3> HIDE DEF rest, digits, packet
      <3> QED BY <1>1, <2>1, <2>2, <2>4, CutIsShorter
    <2> QED BY <2>5 DEF Shorter, Beginning
  <1>4. CASE mode = "hex"
    <2>1. rest \in Seq(Seq(Nat)) /\ Len(rest) \in Nat
      BY <1>4, RestType
    <2>2. CASE data \in Before(mode, size, rest)
      <3>1. PICK m \in 0..Len(rest) : data = SubSeq(rest, 1, m) /\ ~Enough(mode, size, m)
        BY <2>2 DEF Before
      <3>2. m = 0
        BY <1>4, <2>1, <3>1 DEF Enough
      <3>3. data = <<>>
        BY <2>1, <3>1, <3>2
      <3>4. packet = <<>>
        <4>1. readData("whole", mode, size, <<>>) = [r |-> 0, packet |-> <<>>, rest |-> <<>>]
          BY <1>4 DEF readData, readLine
        <4> QED BY <3>3, <4>1
      <3>5. packet \in Seq(Nat) /\ Len(packet) = 0
        <4> HIDE DEF packet
        <4> QED BY <3>4
      <3>6. Len(Cut(job, n + 1)) \in Nat
        <4>1. Cut(job, n + 1) \in Seq(Nat)
          BY CutType
        <4> QED BY <4>1
      <3>7. Beginning(job, packet, Cut(job, n + 1))
        <4> HIDE DEF packet
        <4>1. 1..Len(packet) = {}
          BY <3>5
        <4> QED BY <3>5, <3>6, <4>1 DEF Beginning
      <3> QED BY <3>5, <3>7
    <2>3. CASE data \notin Before(mode, size, rest)
      <3>1. PICK m \in 1..Len(rest) : /\ ~Enough(mode, size, m - 1)
                                      /\ \E part \in Parts(mode, rest[m]) : data = Append(SubSeq(rest, 1, m - 1), part)
        BY <2>3 DEF Broken
      <3>2. PICK part \in Parts(mode, rest[m]) : data = Append(SubSeq(rest, 1, m - 1), part)
        BY <3>1
      <3>3. m = 1
        BY <1>4, <2>1, <3>1 DEF Enough
      <3>4. PICK line : line = rest[1]
        OBVIOUS
      <3>5. line \in Seq(Nat) /\ Len(line) \in Nat /\ rest # <<>> /\ Head(rest) = line
        BY <2>1, <3>1, <3>3, <3>4
      <3>6. PICK k \in 0..Len(line) : part = SubSeq(line, 1, k)
        BY <1>4, <3>2, <3>3, <3>4 DEF Parts
      <3>7. data # <<>> /\ Head(data) = part
        <4>1. SubSeq(rest, 1, 0) = <<>> /\ m - 1 = 0
          BY <2>1, <3>3
        <4>2. data = Append(<<>>, part)
          BY <3>2, <4>1
        <4>3. Append(<<>>, part) = <<part>>
          OBVIOUS
        <4> QED BY <4>2, <4>3
      <3>8. Shorter(FALSE, part, line)
        BY <3>5, <3>6, FirstIsShorter
      <3>9. packet = SubSeq(part, 1, AtMost(size, Len(part)))
        BY <1>4, <3>7 DEF readData, readLine
      <3>10. Cut(job, n + 1) = SubSeq(line, 1, AtMost(size, Len(line)))
        BY <1>2, <1>4, <3>5 DEF readData, readLine
      <3>11. Shorter(FALSE, packet, Cut(job, n + 1))
        <4> HIDE DEF packet
        <4> QED BY <1>1, <3>5, <3>8, <3>9, <3>10, CutIsShorter
      <3> QED BY <3>11 DEF Shorter, Beginning
    <2> QED BY <2>2, <2>3
  <1> QED BY <1>3, <1>4

\* What fileReceieve() has sent and what it has not read make up the file, as long as the
\* input is whole; otherwise nothing is left and nothing more is sent.
SentPackets == Seq([packet : Seq(Nat), ok : BOOLEAN])

Exact(job, out) == \A j \in 1..Len(out) : out[j].packet = Cut(job, j)

AllPackets == \A j \in 1..Len(fout) : RightPacket(fout[j].packet, j, j = Len(fout))

Left ==
    IF finput = "whole"
    THEN /\ (fpc = "loop" \/ (fpc = "start" /\ fjob.stdin)) => frest = Rest(fjob, Len(fout))
         /\ fpc = "send" => frest = Rest(fjob, Len(fout) + 1)
    ELSE frest = <<>>

Sending ==
    /\ fpc # "print" /\ fpacket \in Seq(Nat) /\ fout \in SentPackets
    /\ AllPackets
    /\ fpc = "send" => Exact(fjob, fout) /\ RightPacket(fpacket, Len(fout) + 1, TRUE)
    /\ (fpc = "ended" /\ fstop = 0 /\ finput = "whole") => Cut(fjob, Len(fout) + 1) = <<>>
    /\ Left

FileInv == fjob \in Jobs /\ (~fjob.print => Sending)

LEMMA FileInitHolds ==
    ASSUME NEW job \in Jobs, FileInit(job)
    PROVE  FileInv
  <1>1. fjob = job /\ fpc = "start" /\ fout = <<>> /\ fpacket = <<>> /\ finput = "whole" /\ Len(fout) = 0
        /\ (fjob.stdin => frest = fjob.file)
    BY DEF FileInit
  <1>2. fout \in SentPackets /\ fpacket \in Seq(Nat)
    BY <1>1 DEF SentPackets
  <1>3. AllPackets
    BY <1>1 DEF AllPackets
  <1>4. fjob.stdin => frest = Rest(fjob, Len(fout))
    BY <1>1, AllIsLeft
  <1>5. Left
    BY <1>1, <1>4 DEF Left
  <1> QED BY <1>1, <1>2, <1>3, <1>5 DEF FileInv, Sending

\* The packets stay as they should be when none is sent, whether or not the input is cut
\* short by the step.
LEMMA PacketsKept ==
    ASSUME Sending, fjob' = fjob, fout' = fout, finput' = finput \/ finput = "whole"
    PROVE  AllPackets' /\ (finput = "whole" => Exact(fjob', fout'))
  <1>1. \A j \in 1..Len(fout) :
            \/ fout[j].packet = Cut(fjob, j)
            \/ finput # "whole" /\ j = Len(fout) /\ Beginning(fjob, fout[j].packet, Cut(fjob, j))
    BY DEF Sending, AllPackets, RightPacket
  <1>2. \A j \in 1..Len(fout') : RightPacket(fout[j].packet, j, j = Len(fout))'
    BY <1>1 DEF RightPacket
  <1>3. AllPackets'
    BY <1>2 DEF AllPackets
  <1>4. finput = "whole" => Exact(fjob', fout')
    BY <1>1 DEF Exact
  <1> QED BY <1>3, <1>4

\* Opening the input, and the steps that only look at the request or write it.
LEMMA StepOpen ==
    ASSUME FileInv, ~fjob.print, FileStart
    PROVE  Sending'
  <1>1. Sending /\ fjob \in Jobs
    BY DEF FileInv
  <1>2. fpc = "start" /\ fpc' = "loop" /\ fpacket' = <<>> /\ fjob' = fjob
    BY DEF FileStart
  <1>3. fpacket' \in Seq(Nat)
    BY <1>2
  <1>4. CASE fjob.stdin
    <2>1. frest' = frest /\ finput' = finput /\ fout' = fout
      BY <1>4 DEF FileStart
    <2>2. AllPackets'
      BY <1>1, <1>2, <2>1, PacketsKept
    <2>3. Left'
      BY <1>1, <1>2, <1>4, <2>1 DEF Sending, Left
    <2> QED BY <1>1, <1>2, <1>3, <2>1, <2>2, <2>3 DEF Sending
  <1>5. CASE ~fjob.stdin
    <2>1. fout' = <<>> /\ ((frest' = fjob.file /\ finput' = "whole") \/ (frest' = <<>> /\ finput' = "cut"))
      BY <1>5 DEF FileStart
    <2>2. fout' = <<>> /\ Len(<<>>) = 0 /\ fout' \in SentPackets
      BY <2>1 DEF SentPackets
    <2>3. AllPackets'
      BY <2>2 DEF AllPackets
    <2>4. Rest(fjob, 0) = fjob.file
      BY <1>1, AllIsLeft
    <2>5. Left'
      BY <1>2, <2>1, <2>2, <2>4 DEF Left
    <2> QED BY <1>2, <1>3, <2>2, <2>3, <2>5 DEF Sending
  <1> QED BY <1>4, <1>5

LEMMA StepAside ==
    ASSUME FileInv, ~fjob.print, FileNotOpened \/ FileLeave \/ FileSignal \/ UNCHANGED fileVars
    PROVE  Sending'
  <1>1. Sending /\ fjob \in Jobs
    BY DEF FileInv
  <1>2. fout' = fout /\ frest' = frest /\ fpacket' = fpacket /\ finput' = finput /\ fjob' = fjob
    BY DEF FileNotOpened, FileLeave, FileSignal, fileVars
  <1>3. \/ fpc' \in {"failed", "aborted"}
        \/ fpc = "loop" /\ fpc' \in {"start", "ended"} /\ fstop' # 0
        \/ fpc' = fpc /\ fpc # "ended"
        \/ fpc' = fpc /\ fstop' = fstop
    BY DEF FileNotOpened, FileLeave, Leave, FileSignal, fileVars
  <1>4. AllPackets'
    BY <1>1, <1>2, PacketsKept
  <1>5. Left'
    BY <1>1, <1>2, <1>3 DEF Sending, Left
  <1>6. fpc' = "send" => Exact(fjob', fout') /\ RightPacket(fpacket, Len(fout) + 1, TRUE)'
    BY <1>1, <1>2, <1>3 DEF Sending, RightPacket
  <1>7. (fpc' = "ended" /\ fstop' = 0 /\ finput' = "whole") => Cut(fjob', Len(fout') + 1) = <<>>
    BY <1>1, <1>2, <1>3 DEF Sending
  <1> QED BY <1>1, <1>2, <1>3, <1>4, <1>5, <1>6, <1>7 DEF Sending

\* A call of readData() that finds what it looks for.
LEMMA StepRead ==
    ASSUME FileInv, ~fjob.print, FileRead
    PROVE  Sending'
  <1>1. Sending /\ fjob \in Jobs
    BY DEF FileInv
  <1>2. PICK got : got = readData(finput, fjob.file_mode, fjob.packet_size, frest)
    OBVIOUS
  <1>3. /\ fpc = "loop" /\ fstop = 0 /\ frest' = got.rest
        /\ fjob' = fjob /\ finput' = finput /\ fout' = fout /\ fstop' = fstop
    BY <1>2 DEF FileRead, Reading
  <1>4. Receives(got, 0)
    BY <1>2 DEF FileRead, Takes
  <1>5. AllPackets' /\ (finput = "whole" => Exact(fjob', fout'))
    BY <1>1, <1>3, PacketsKept
  <1>6. PICK n : n = Len(fout)
    OBVIOUS
  <1>7. n \in Nat /\ fout' \in SentPackets
    BY <1>1, <1>3, <1>6 DEF Sending, SentPackets
  <1>8. got.r = 0 => fpc' = "ended" /\ fpacket' = fpacket
    BY <1>4 DEF Receives, Leave
  <1>9. CASE finput = "whole"
    <2>1. frest = Rest(fjob, n)
      BY <1>1, <1>3, <1>6, <1>9 DEF Sending, Left
    <2>2. got = readData("whole", fjob.file_mode, fjob.packet_size, Rest(fjob, n))
      BY <1>2, <1>9, <2>1
    <2>3. /\ got.packet = Cut(fjob, n + 1)
          /\ got.r = 0 <=> got.packet = <<>>
          /\ got.r # 0 => got.rest = Rest(fjob, n + 1)
      BY <1>1, <1>7, <2>2, ReadsCut
    <2>4. CASE got.r = 0
      <3>1. Left'
        BY <1>3, <1>8, <1>9, <2>4 DEF Left
      <3>2. Cut(fjob', Len(fout') + 1) = <<>>
        BY <1>3, <1>6, <2>3, <2>4
      <3> QED BY <1>1, <1>3, <1>5, <1>7, <1>8, <2>4, <3>1, <3>2 DEF Sending
    <2>5. CASE got.r # 0
      <3>1. fpacket' = got.packet /\ fpc' \in {"send", "aborted"}
        <4>1. got.packet # <<>>
          BY <2>3, <2>5
        <4>2. Len(got.packet) \in Nat /\ FileBuffer \in Nat
          BY <1>1, <1>7, <2>3, CutType, FileBounds
        <4>3. Len(got.packet) > FileBuffer \/ Len(got.packet) <= FileBuffer
          BY <4>2
        <4> QED BY <1>4, <2>5, <4>1, <4>3 DEF Receives
      <3>2. fpacket' \in Seq(Nat)
        BY <1>1, <1>7, <2>3, <3>1, CutType
      <3>3. Left'
        BY <1>3, <1>6, <1>9, <2>3, <2>5, <3>1 DEF Left
      <3>4. RightPacket(fpacket, Len(fout) + 1, TRUE)'
        BY <1>3, <1>6, <2>3, <3>1 DEF RightPacket
      <3> QED BY <1>5, <1>7, <1>9, <3>1, <3>2, <3>3, <3>4 DEF Sending
    <2> QED BY <2>4, <2>5
  <1>10. CASE finput # "whole"
    <2>1. frest = <<>>
      BY <1>1, <1>10 DEF Sending, Left
    <2>2. CASE finput = "bad"
      <3>1. got.r = -1 /\ got.packet = <<>> /\ got.rest = frest
        <4>1. got = [r |-> -1, packet |-> <<>>, rest |-> frest]
          BY <1>2, <2>2 DEF readData
        <4> QED BY <4>1
      <3>2. fpacket' = <<>> /\ fpc' = "loop"
        BY <1>4, <3>1 DEF Receives
      <3>3. fpacket' \in Seq(Nat)
        BY <3>2
      <3>4. Left'
        BY <1>3, <1>10, <2>1, <3>1 DEF Left
      <3> QED BY <1>5, <1>7, <3>2, <3>3, <3>4 DEF Sending
    <2>3. CASE finput # "bad"
      <3>1. got.r = 0 /\ got.rest = <<>>
        <4>1. got = readData(finput, fjob.file_mode, fjob.packet_size, <<>>)
          BY <1>2, <2>1
        <4> QED BY <1>1, <2>3, <4>1, ReadsNothing
      <3>2. Left'
        BY <1>3, <1>10, <3>1 DEF Left
      <3> QED BY <1>1, <1>3, <1>5, <1>7, <1>8, <1>10, <3>1, <3>2 DEF Sending
    <2> QED BY <2>2, <2>3
  <1> QED BY <1>9, <1>10

\* A call of readData() whose input ends before its time.
LEMMA StepCutShort ==
    ASSUME FileInv, ~fjob.print, FileReadFails \/ FileInterrupted
    PROVE  Sending'
  <1>1. Sending /\ fjob \in Jobs
    BY DEF FileInv
  <1>2. /\ fpc = "loop" /\ finput = "whole" /\ frest' = <<>> /\ finput' \in {"bad", "cut"}
        /\ fjob' = fjob /\ fout' = fout
    BY DEF FileReadFails, FileInterrupted, Reading
  <1>3. PICK n : n = Len(fout)
    OBVIOUS
  <1>4. n \in Nat /\ fout' \in SentPackets /\ frest = Rest(fjob, n)
    BY <1>1, <1>2, <1>3 DEF Sending, SentPackets, Left
  <1>5. \E data, stop : /\ Takes(data, stop)
                        /\ data \in Broken(fjob.file_mode, fjob.packet_size, frest)
                        /\ ~fjob.stdin => data \in Before(fjob.file_mode, fjob.packet_size, frest)
    <2>1. CASE FileReadFails
      <3>1. PICK data \in Before(fjob.file_mode, fjob.packet_size, frest) : Takes(data, 0)
        BY <2>1 DEF FileReadFails
      <3>2. data \in Broken(fjob.file_mode, fjob.packet_size, frest)
        BY <3>1 DEF Broken
      <3> QED BY <3>1, <3>2
    <2>2. CASE FileInterrupted
      <3>1. PICK stop \in {1, 2} :
                \E data \in Broken(fjob.file_mode, fjob.packet_size, frest) : Takes(data, stop)
        BY <2>2 DEF FileInterrupted
      <3>2. fjob.stdin
        BY <2>2 DEF FileInterrupted
      <3> QED BY <3>1, <3>2
    <2> QED BY <2>1, <2>2
  <1>6. PICK data, stop : /\ Takes(data, stop)
                          /\ data \in Broken(fjob.file_mode, fjob.packet_size, frest)
                          /\ ~fjob.stdin => data \in Before(fjob.file_mode, fjob.packet_size, frest)
    BY <1>5
  <1>7. PICK got : got = readData("whole", fjob.file_mode, fjob.packet_size, data)
    OBVIOUS
  <1>8. Receives(got, stop)
    <2>1. readData(finput, fjob.file_mode, fjob.packet_size, data) = got
      BY <1>2, <1>7
    <2> QED BY <1>6, <2>1 DEF Takes
  <1>9. got.packet \in Seq(Nat) /\ Beginning(fjob, got.packet, Cut(fjob, n + 1))
    BY <1>1, <1>4, <1>6, <1>7, ReadsShort
  <1>10. AllPackets' /\ Exact(fjob', fout')
    BY <1>1, <1>2, PacketsKept
  <1>11. Left'
    BY <1>2 DEF Left
  <1>12. CASE got.r = 0
    <2>1. fpc' \in {"start", "ended"} /\ fpacket' = fpacket
      BY <1>8, <1>12 DEF Receives, Leave
    <2> QED BY <1>1, <1>2, <1>4, <1>10, <1>11, <2>1 DEF Sending
  <1>13. CASE got.r # 0
    <2>1. fpc' \in {"loop", "send", "aborted"} /\ fpacket' = got.packet
      <3>1. /\ fpacket' = got.packet
            /\ fpc' \in CASE got.packet = <<>> -> {"loop"}
                          [] got.packet # <<>> /\ Len(got.packet) > FileBuffer -> {"send", "aborted"}
                          [] got.packet # <<>> /\ Len(got.packet) <= FileBuffer -> {"send"}
        BY <1>8, <1>13 DEF Receives
      <3>2. Len(got.packet) \in Nat /\ FileBuffer \in Nat
        BY <1>9, FileBounds
      <3> QED BY <3>1, <3>2
    <2>2. RightPacket(fpacket, Len(fout) + 1, TRUE)'
      BY <1>2, <1>3, <1>9, <2>1 DEF RightPacket
    <2> QED BY <1>2, <1>4, <1>9, <1>10, <1>11, <2>1, <2>2 DEF Sending
  <1> QED BY <1>12, <1>13

\* nn_send().
LEMMA StepSend ==
    ASSUME FileInv, ~fjob.print, FileSend
    PROVE  Sending'
  <1>1. Sending /\ fjob \in Jobs
    BY DEF FileInv
  <1>2. PICK ok \in BOOLEAN : fout' = Append(fout, [packet |-> fpacket, ok |-> ok])
    BY DEF FileSend
  <1>3. fpc = "send" /\ fpc' = "loop" /\ frest' = frest /\ fpacket' = fpacket /\ finput' = finput /\ fjob' = fjob
    BY DEF FileSend
  <1>4. PICK p : p = [packet |-> fpacket, ok |-> ok]
    OBVIOUS
  <1>5. fpacket \in Seq(Nat) /\ fout \in SentPackets /\ Len(fout) \in Nat
    BY <1>1 DEF Sending, SentPackets
  <1>6. p \in [packet : Seq(Nat), ok : BOOLEAN] /\ p.packet = fpacket
    BY <1>4, <1>5
  <1>7. /\ fout' \in SentPackets /\ Len(fout') = Len(fout) + 1 /\ fout'[Len(fout) + 1] = p
        /\ \A j \in 1..Len(fout) : fout'[j] = fout[j]
    BY <1>2, <1>4, <1>5, <1>6 DEF SentPackets
  <1>8. AllPackets'
    <2> SUFFICES ASSUME NEW j \in 1..Len(fout') PROVE RightPacket(fout[j].packet, j, j = Len(fout))'
      BY DEF AllPackets
    <2>1. j \in 1..Len(fout) \/ j = Len(fout) + 1
      BY <1>5, <1>7
    <2>2. CASE j \in 1..Len(fout)
      <3>1. fout[j].packet = Cut(fjob, j)
        BY <1>1, <1>3, <2>2 DEF Sending, Exact
      <3> QED BY <1>3, <1>7, <2>2, <3>1 DEF RightPacket
    <2>3. CASE j = Len(fout) + 1
      <3>1. RightPacket(fpacket, Len(fout) + 1, TRUE)
        BY <1>1, <1>3 DEF Sending
      <3>2. fout'[j].packet = fpacket /\ j = Len(fout')
        BY <1>6, <1>7, <2>3
      <3> QED BY <1>3, <2>3, <3>1, <3>2 DEF RightPacket
    <2> QED BY <2>1, <2>2, <2>3
  <1>9. Left'
    BY <1>1, <1>3, <1>7 DEF Sending, Left
  <1> QED BY <1>3, <1>5, <1>7, <1>8, <1>9 DEF Sending

\* So every step of freceiver keeps file and packets together.
LEMMA StepFile ==
    ASSUME FileInv, [FileNext]_fileVars
    PROVE  FileInv'
  <1>1. fjob' = fjob
    BY DEF FileNext, FileStep, FileReads, FileStart, FileNotOpened, FileLeave, FileRead, FileReadFails,
           FileInterrupted, FileSend, FilePrinted, FileSignal, fileVars
  <1>2. CASE fjob.print
    BY <1>1, <1>2 DEF FileInv
  <1>3. CASE ~fjob.print
    <2>1. fpc # "print"
      BY <1>3 DEF FileInv, Sending
    <2>2. ~FilePrinted
      BY <2>1 DEF FilePrinted
    <2>3. Sending'
      BY <1>3, <2>2, StepOpen, StepAside, StepRead, StepCutShort, StepSend DEF FileNext, FileStep, FileReads
    <2> QED BY <1>1, <2>3 DEF FileInv
  <1> QED BY <1>2, <1>3

LEMMA FileInvariance == Spec => []FileInv
  <1>1. Init => FileInv
    BY FileInitHolds DEF Init
  <1>2. FileInv /\ [Next]_stationVars => FileInv'
    <2> SUFFICES ASSUME FileInv, [Next]_stationVars PROVE FileInv'
      OBVIOUS
    <2>1. [FileNext]_fileVars
      BY DEF Next, Tcp, Mqtt, File, stationVars, fileVars
    <2> QED BY <2>1, StepFile
  <1> QED BY <1>1, <1>2, PTL DEF Spec

\* fileReceieve() sends the file cut into packets, in its order, each packet once, and all
\* of it when it comes to the end, for every size of packet and every length of file;
\* reload() in the middle begins a file again as a whole and goes on with std::cin where
\* it was.  A failed read(2) or a signal that interrupts the wait for std::cin cuts the
\* last packet short and no more.
THEOREM SendsTheFile == Spec => []FileIsSent
  <1>1. FileInv => FileIsSent
    BY DEF FileInv, Sending, AllPackets, FileIsSent
  <1> QED BY FileInvariance, <1>1, PTL

-----------------------------------------------------------------------------
(* tcpreceiver                                                              *)

\* A buffer of n bytes, whatever is in it.
IsBuffer(f, n) == f = [j \in 1..n |-> f[j]]

LEMMA BufferIsSeq ==
    ASSUME NEW n \in Nat, NEW f, IsBuffer(f, n)
    PROVE  f \in Seq({f[j] : j \in 1..n}) /\ Len(f) = n /\ DOMAIN f = 1..n
  <1> DEFINE S == {f[j] : j \in 1..n}
  <1>1. f \in [1..n -> S]
    BY DEF IsBuffer
  <1>2. f \in Seq(S) /\ DOMAIN f = 1..n
    <2> HIDE DEF S
    <2> QED BY <1>1
  <1>3. Len(f) = n
    <2> HIDE DEF S
    <2> QED BY <1>2
  <1> QED BY <1>2, <1>3

\* The first m of two buffers are the same.
Agree(f, g, m) == \A j \in 1..m : f[j] = g[j]

\* Where two buffers agree, so do their pieces.
SamePart(f, g, a, b) == SubSeq(f, a, b) = SubSeq(g, a, b)

LEMMA SamePiece ==
    ASSUME NEW f, NEW g, NEW m \in Int, Agree(f, g, m),
           NEW a \in Nat \ {0}, NEW b \in Int, b <= m
    PROVE  SamePart(f, g, a, b)
  <1> DEFINE S == {f[j] : j \in 1..m} \cup {g[j] : j \in 1..m}
             p == SubSeq(f, a, b)
             q == SubSeq(g, a, b)
             l == IF a <= b THEN b - a + 1 ELSE 0
  <1>1. \A i \in a..b : f[i] \in S /\ g[i] \in S
    OBVIOUS
  <1>2. a \in Int
    OBVIOUS
  <1>3. p \in Seq(S) /\ Len(p) = l /\ \A i \in 1..(b - a + 1) : p[i] = f[a + i - 1]
    <2> HIDE DEF S
    <2> QED BY <1>1, <1>2, SubSeqProperties
  <1>4. q \in Seq(S) /\ Len(q) = l /\ \A i \in 1..(b - a + 1) : q[i] = g[a + i - 1]
    <2> HIDE DEF S
    <2> QED BY <1>1, <1>2, SubSeqProperties
  <1>5. \A i \in 1..l : f[a + i - 1] = g[a + i - 1] /\ i \in 1..(b - a + 1)
    BY DEF Agree
  <1> HIDE DEF S, p, q, l
  <1>6. \A i \in 1..l : p[i] = q[i]
    BY <1>3, <1>4, <1>5
  <1>7. p = q
    BY <1>3, <1>4, <1>6, SeqEqual
  <1> QED BY <1>7 DEF SamePart, p, q

\* A set of the numbers 1..7 has a least one.
LEMMA LeastOfSeven ==
    ASSUME NEW T, T \subseteq 1..7, T # {}
    PROVE  \E x \in T : \A y \in T : x <= y
  <1>1. \A y \in T : y \in Nat /\ (y = 1 \/ y = 2 \/ y = 3 \/ y = 4 \/ y = 5 \/ y = 6 \/ y = 7)
    OBVIOUS
  <1>2. CASE 1 \in T
    BY <1>1, <1>2
  <1>3. CASE 1 \notin T /\ 2 \in T
    BY <1>1, <1>3
  <1>4. CASE 1 \notin T /\ 2 \notin T /\ 3 \in T
    BY <1>1, <1>4
  <1>5. CASE 1 \notin T /\ 2 \notin T /\ 3 \notin T /\ 4 \in T
    BY <1>1, <1>5
  <1>6. CASE 1 \notin T /\ 2 \notin T /\ 3 \notin T /\ 4 \notin T /\ 5 \in T
    BY <1>1, <1>6
  <1>7. CASE 1 \notin T /\ 2 \notin T /\ 3 \notin T /\ 4 \notin T /\ 5 \notin T /\ 6 \in T
    BY <1>1, <1>7
  <1>8. CASE T = {7}
    BY <1>8
  <1> QED BY <1>1, <1>2, <1>3, <1>4, <1>5, <1>6, <1>7, <1>8

\* get_varint() finds the same in two buffers that agree as far as the length goes.
LEMMA SameDescriptor ==
    ASSUME NEW n \in Nat, NEW f, IsBuffer(f, n), NEW g, IsBuffer(g, n),
           NEW m \in Int, m <= n, Agree(f, g, m),
           \E j \in 1..m : j < 8 /\ f[j] < More
    PROVE  get_varint(f) = get_varint(g) /\ get_varint(f).len \in 1..m
  <1> DEFINE Lasts(h) == {j \in 1..n : j < 8 /\ h[j] < More}
             Earliest(h, j) == j \in Lasts(h) /\ \A k \in Lasts(h) : j <= k
  <1>1. Len(f) = n /\ Len(g) = n
    BY BufferIsSeq
  <1>2. Lasts(f) # {} /\ Lasts(g) # {}
    BY DEF Agree
  <1>3. \A x : Earliest(f, x) <=> Earliest(g, x)
    BY DEF Agree
  <1>4. \E x \in Lasts(f) : \A y \in Lasts(f) : x <= y
    <2>1. Lasts(f) \subseteq 1..7
      OBVIOUS
    <2> HIDE DEF Lasts
    <2> QED BY <1>2, <2>1, LeastOfSeven
  <1> DEFINE a == CHOOSE j \in Lasts(f) : \A k \in Lasts(f) : j <= k
             b == CHOOSE j \in Lasts(g) : \A k \in Lasts(g) : j <= k
  <1>5. Earliest(f, a) /\ Earliest(g, b)
    <2> HIDE DEF Lasts
    <2>1. Earliest(f, a)
      BY <1>4
    <2>2. \E x \in Lasts(g) : \A y \in Lasts(g) : x <= y
      BY <1>3, <2>1
    <2>3. Earliest(g, b)
      BY <2>2
    <2> QED BY <2>1, <2>3
  <1> HIDE DEF a, b
  <1>6. a = b
    <2>1. Earliest(f, b) /\ a \in Nat /\ b \in Nat
      BY <1>3, <1>5
    <2> QED BY <1>5, <2>1
  <1>7. a \in 1..m
    BY <1>5
  <1>8. SubSeq(f, 1, a) = SubSeq(g, 1, a)
    <2>1. a \in Int /\ a <= m /\ 1 \in Nat \ {0}
      BY <1>7
    <2>2. SamePart(f, g, 1, a)
      BY <2>1, SamePiece
    <2> QED BY <2>2 DEF SamePart
  <1>9. /\ get_varint(f) = [len |-> a, value |-> varint[SubSeq(f, 1, a)]]
        /\ get_varint(g) = [len |-> b, value |-> varint[SubSeq(g, 1, b)]]
    <2>1. Lasts(f) = {j \in 1..Len(f) : j < 8 /\ f[j] < More} /\ Lasts(g) = {j \in 1..Len(g) : j < 8 /\ g[j] < More}
      BY <1>1
    <2> HIDE DEF Lasts
    <2> QED BY <1>2, <2>1 DEF get_varint, a, b
  <1>10. get_varint(f) = get_varint(g)
    BY <1>6, <1>8, <1>9, Zenon
  <1> QED BY <1>7, <1>9, <1>10

\* decompress() makes the same of two buffers that agree in the m bytes it is given, and
\* does not return when the offset is beyond them.
LEMMA SameText ==
    ASSUME NEW d, d.offset \in Nat, NEW n \in Nat, NEW f, IsBuffer(f, n), NEW g, IsBuffer(g, n),
           NEW m \in Int, m <= n, Agree(f, g, m),
           (d.force = 0 /\ d.eof = NoCode) => \E j \in 1..m : j < 8 /\ f[j] < More
    PROVE  /\ decompress(d, f, m) = decompress(d, g, m)
           /\ decompress(d, f, m).how = "returns" => d.offset <= m
  <1> DEFINE Head1(b) == IF d.force = 0 /\ d.eof = NoCode THEN get_varint(b) ELSE [len |-> 0, value |-> d.force]
             Aborts == [how |-> "aborts", sz |-> 0, out |-> <<>>]
             Returns(b, h) ==
                LET done == decompress_stream(d, SubSeq(b, h.len + d.offset + 1, m), h.value)
                IN [how |-> done.how, sz |-> d.offset + done.r,
                    out |-> SubSeq(b, h.len + 1, h.len + d.offset) \o done.out]
  <1>1. PICK h : h = Head1(f)
    OBVIOUS
  <1>2. h = Head1(g) /\ h.len \in Nat
    <2>1. CASE d.force = 0 /\ d.eof = NoCode
      <3>1. get_varint(f) = get_varint(g) /\ get_varint(f).len \in 1..m
        BY <2>1, SameDescriptor
      <3> QED BY <1>1, <2>1, <3>1
    <2>2. CASE ~(d.force = 0 /\ d.eof = NoCode)
      BY <1>1, <2>2
    <2> QED BY <2>1, <2>2
  <1>3. decompress(d, f, m) = IF m < h.len + d.offset \/ d.eof = Wild THEN Aborts ELSE Returns(f, h)
    BY <1>1 DEF decompress
  <1>4. decompress(d, g, m) = IF m < h.len + d.offset \/ d.eof = Wild THEN Aborts ELSE Returns(g, h)
    BY <1>2 DEF decompress
  <1>5. CASE m < h.len + d.offset \/ d.eof = Wild
    <2>1. decompress(d, f, m) = Aborts /\ decompress(d, g, m) = Aborts /\ Aborts.how = "aborts"
      BY <1>3, <1>4, <1>5
    <2> QED BY <2>1
  <1>6. CASE ~(m < h.len + d.offset \/ d.eof = Wild)
    <2>1. h.len + 1 \in Nat \ {0} /\ h.len + d.offset + 1 \in Nat \ {0} /\ h.len + d.offset \in Int /\ h.len + d.offset <= m
      BY <1>2, <1>6
    <2>2. SamePart(f, g, h.len + d.offset + 1, m)
      BY <2>1, SamePiece
    <2>3. SamePart(f, g, h.len + 1, h.len + d.offset)
      BY <2>1, SamePiece
    <2>4. Returns(f, h) = Returns(g, h)
      BY <2>2, <2>3, Zenon DEF SamePart
    <2>5. d.offset <= m
      BY <1>2, <2>1
    <2> HIDE DEF Returns, Aborts
    <2> QED BY <1>3, <1>4, <1>6, <2>4, <2>5
  <1> QED BY <1>5, <1>6

\* The bytes after the offset, as a buffer of their own.
LEMMA TailIsBuffer ==
    ASSUME NEW n \in Nat, NEW f, IsBuffer(f, n), NEW a \in Nat
    PROVE  LET k == IF a <= n THEN n - a ELSE 0
           IN IsBuffer(SubSeq(f, a + 1, n), k) /\ \A j \in 1..k : SubSeq(f, a + 1, n)[j] = f[a + j]
  <1> DEFINE S == {f[j] : j \in 1..n}
             p == SubSeq(f, a + 1, n)
             k == IF a <= n THEN n - a ELSE 0
  <1>1. \A i \in (a + 1)..n : f[i] \in S
    OBVIOUS
  <1>2. a + 1 \in Int /\ n \in Int
    OBVIOUS
  <1>3. /\ p \in Seq(S) /\ Len(p) = (IF a + 1 <= n THEN n - (a + 1) + 1 ELSE 0)
        /\ \A i \in 1..(n - (a + 1) + 1) : p[i] = f[a + 1 + i - 1]
    <2> HIDE DEF S
    <2> QED BY <1>1, <1>2, SubSeqProperties
  <1>4. Len(p) = k /\ \A i \in 1..k : p[i] = f[a + i]
    <2>1. \A i \in 1..k : i \in 1..(n - (a + 1) + 1) /\ a + 1 + i - 1 = a + i
      OBVIOUS
    <2> HIDE DEF p, S
    <2> QED BY <1>3, <2>1
  <1> HIDE DEF p, S, k
  <1>5. IsBuffer(p, k)
    BY <1>3, <1>4 DEF IsBuffer
  <1> QED BY <1>4, <1>5 DEF p, k

\* decode_buffer2buffer() does the same to two buffers that agree in the bytes read, as far
\* as the length it returns goes.
LEMMA SameDecoded ==
    ASSUME NEW d, d.offset \in Nat, NEW n \in Nat, NEW f, IsBuffer(f, n), NEW g, IsBuffer(g, n),
           NEW size \in Int, size <= n, Agree(f, g, size),
           (d.mode # 0 /\ d.force = 0 /\ d.eof = NoCode)
               => \E j \in 1..(size - d.offset) : j < 8 /\ f[d.offset + j] < More,
           NEW r, r = decode_buffer2buffer(d, f, size),
           NEW q, q = decode_buffer2buffer(d, g, size)
    PROVE  /\ r.how = q.how /\ r.length = q.length
           /\ (r.how = "returns" /\ r.length \in Nat) => Agree(r.buffer, q.buffer, r.length) \/ r.length > n
           /\ (r.how = "returns" /\ d.mode # 0) => size >= 0
  <1>1. CASE d.mode = 0
    <2>1. r = [how |-> "returns", length |-> size, buffer |-> f] /\ q = [how |-> "returns", length |-> size, buffer |-> g]
      BY <1>1 DEF decode_buffer2buffer
    <2>2. r.how = "returns" /\ q.how = "returns" /\ r.length = size /\ q.length = size /\ r.buffer = f /\ q.buffer = g
      BY <2>1
    <2> QED BY <1>1, <2>2
  <1>2. CASE d.mode # 0
    <2> DEFINE k == IF d.offset <= n THEN n - d.offset ELSE 0
               F == SubSeq(f, d.offset + 1, n)
               G == SubSeq(g, d.offset + 1, n)
               m == size - d.offset
               sz(done) == IF done.sz > n THEN n ELSE done.sz
               Decoded(done, b) ==
                 CASE done.how # "returns" -> [how |-> done.how, length |-> 0, buffer |-> b]
                   [] done.how = "returns" /\ d.offset + sz(done) \in d.valid_sizes ->
                        [how |-> "returns", length |-> size, buffer |-> b]
                   [] OTHER -> [how |-> "returns", length |-> d.offset + sz(done),
                                buffer |-> Written(b, d.offset, done.out, sz(done))]
    <2>1. Len(f) = n /\ Len(g) = n
      BY BufferIsSeq
    <2>2. /\ IsBuffer(F, k) /\ \A j \in 1..k : F[j] = f[d.offset + j]
          /\ IsBuffer(G, k) /\ \A j \in 1..k : G[j] = g[d.offset + j]
      BY TailIsBuffer
    <2>3. k \in Nat /\ m \in Int /\ m <= k
      OBVIOUS
    <2> HIDE DEF F, G
    <2>4. Agree(F, G, m)
      <3>1. \A j \in 1..m : j \in 1..k /\ d.offset + j \in 1..size
        OBVIOUS
      <3> HIDE DEF k, m
      <3> QED BY <2>2, <3>1 DEF Agree
    <2>5. (d.force = 0 /\ d.eof = NoCode) => \E j \in 1..m : j < 8 /\ F[j] < More
      <3>1. \A j \in 1..m : j \in 1..k
        OBVIOUS
      <3> QED BY <1>2, <2>2, <3>1
    <2>6. PICK done : done = decompress(d, F, m)
      OBVIOUS
    <2>7. done = decompress(d, G, m) /\ (done.how = "returns" => d.offset <= m)
      <3> HIDE DEF k, m
      <3> QED BY <2>2, <2>3, <2>4, <2>5, <2>6, SameText
    <2>8. r = Decoded(done, f) /\ q = Decoded(done, g)
      <3>1. r = Decoded(done, f)
        BY <1>2, <2>1, <2>6 DEF decode_buffer2buffer, F
      <3>2. q = Decoded(done, g)
        BY <1>2, <2>1, <2>7 DEF decode_buffer2buffer, G
      <3> QED BY <3>1, <3>2
    <2>9. CASE done.how # "returns"
      <3>1. r.how = done.how /\ q.how = done.how /\ r.length = 0 /\ q.length = 0
        BY <2>8, <2>9
      <3> QED BY <2>9, <3>1
    <2>10. CASE done.how = "returns" /\ d.offset + sz(done) \in d.valid_sizes
      <3>1. r = [how |-> "returns", length |-> size, buffer |-> f] /\ q = [how |-> "returns", length |-> size, buffer |-> g]
        BY <2>8, <2>10
      <3>2. size >= 0
        BY <2>7, <2>10
      <3> QED BY <3>1, <3>2
    <2>11. CASE done.how = "returns" /\ d.offset + sz(done) \notin d.valid_sizes
      <3>1. PICK z : z = sz(done)
        OBVIOUS
      <3>2. /\ r = [how |-> "returns", length |-> d.offset + z, buffer |-> Written(f, d.offset, done.out, z)]
            /\ q = [how |-> "returns", length |-> d.offset + z, buffer |-> Written(g, d.offset, done.out, z)]
        BY <2>8, <2>11, <3>1
      <3>3. ASSUME d.offset + z \in Nat, d.offset + z <= n
            PROVE  Agree(Written(f, d.offset, done.out, z), Written(g, d.offset, done.out, z), d.offset + z)
        <4> SUFFICES ASSUME NEW j \in 1..(d.offset + z)
                     PROVE  Written(f, d.offset, done.out, z)[j] = Written(g, d.offset, done.out, z)[j]
          BY DEF Agree
        <4>1. PICK e : e = d.offset + z
          OBVIOUS
        <4>2. j \in 1..n /\ e \in Nat /\ j \in 1..e
          BY <3>3, <4>1
        <4>3. CASE j \in (d.offset + 1)..e
          BY <2>1, <4>1, <4>2, <4>3 DEF Written
        <4>4. CASE j \notin (d.offset + 1)..e
          <5>1. j \in 1..size
            BY <2>7, <2>11, <4>2, <4>4
          <5>2. f[j] = g[j]
            BY <5>1 DEF Agree
          <5> QED BY <2>1, <4>1, <4>2, <4>4, <5>2 DEF Written
        <4> QED BY <4>3, <4>4
      <3>4. size >= 0
        BY <2>7, <2>11
      <3> QED BY <3>2, <3>3, <3>4
    <2> QED BY <2>9, <2>10, <2>11
  <1> QED BY <1>1, <1>2

\* decode_buffer2buffer() leaves a buffer of the same size.
LEMMA StaysBuffer ==
    ASSUME NEW d, NEW n \in Nat, NEW f, IsBuffer(f, n), NEW size
    PROVE  IsBuffer(decode_buffer2buffer(d, f, size).buffer, n)
  <1>1. Len(f) = n
    BY BufferIsSeq
  <1>2. PICK r : r = decode_buffer2buffer(d, f, size)
    OBVIOUS
  <1>3. r.buffer = f \/ \E out, z : r.buffer = Written(f, d.offset, out, z)
    BY <1>2 DEF decode_buffer2buffer
  <1>4. \A out, z : IsBuffer(Written(f, d.offset, out, z), n)
    BY <1>1 DEF IsBuffer, Written
  <1> QED BY <1>2, <1>3, <1>4

\* A receiver just started has the bytes, and zeros after them.
LEMMA OverIsBuffer ==
    ASSUME NEW f, IsBuffer(f, TcpBuffer), NEW bytes \in Seq(Byte), Len(bytes) <= TcpBuffer
    PROVE  IsBuffer(Over(f, bytes), TcpBuffer) /\ Agree(Over(f, bytes), bytes, Len(bytes))
  <1>1. TcpBuffer \in Nat
    BY DecodersAssumption
  <1>2. Len(f) = TcpBuffer
    BY <1>1, BufferIsSeq
  <1>3. Len(bytes) \in Nat
    OBVIOUS
  <1>4. Over(f, bytes) = [j \in 1..TcpBuffer |-> IF j <= Len(bytes) THEN bytes[j] ELSE f[j]]
    BY <1>2 DEF Over
  <1>5. IsBuffer(Over(f, bytes), TcpBuffer)
    BY <1>4 DEF IsBuffer
  <1>6. Agree(Over(f, bytes), bytes, Len(bytes))
    BY <1>1, <1>3, <1>4 DEF Agree
  <1> QED BY <1>5, <1>6

LEMMA ZerosIsBuffer == IsBuffer(Zeros, TcpBuffer)
  BY DEF Zeros, IsBuffer

\* What NoLeftovers says of one payload.
OfItsOwn(d, c, payload) ==
    LET alone == decode_buffer2buffer(d, Over(Zeros, c.bytes), Len(c.bytes))
    IN (LengthKnown(d, c.bytes) /\ Len(payload) <= TcpBuffer)
       => payload = SubSeq(alone.buffer, 1, alone.length)

\* The buffer starts with what was read, until it is decoded; then the payload is that of
\* the bytes read.
TcpInv ==
    /\ tdec \in Decoders
    /\ tstop \in {0, 1, 2}
    /\ IsBuffer(tdata, TcpBuffer)
    /\ tpc = "decode" =>
        /\ tconn.bytes \in Seq(Byte)
        /\ Len(tconn.bytes) <= TcpBuffer
        /\ Agree(tdata, tconn.bytes, Len(tconn.bytes))
        /\ tsize = Len(tconn.bytes) \/ (tsize = -1 /\ Len(tconn.bytes) = 0)
    /\ tpc = "send" => OfItsOwn(tdec, tconn, SubSeq(tdata, 1, tlength))

LEMMA TcpInitHolds ==
    ASSUME NEW d \in Decoders, TcpInit(d)
    PROVE  TcpInv /\ NoLeftovers
  BY ZerosIsBuffer DEF TcpInit, TcpInv, NoLeftovers

\* Decoding: the two buffers agree in what was read, and so in what is sent.
LEMMA DecodeIsOwn ==
    ASSUME TcpInv, TcpDecode
    PROVE  tpc' = "send" => OfItsOwn(tdec', tconn', SubSeq(tdata', 1, tlength'))
  <1> SUFFICES ASSUME tpc' = "send", LengthKnown(tdec, tconn.bytes), Len(SubSeq(tdata', 1, tlength')) <= TcpBuffer
               PROVE  LET alone == decode_buffer2buffer(tdec, Over(Zeros, tconn.bytes), Len(tconn.bytes))
                      IN SubSeq(tdata', 1, tlength') = SubSeq(alone.buffer, 1, alone.length)
    BY DEF OfItsOwn, TcpDecode
  <1>1. PICK done : done = decode_buffer2buffer(tdec, tdata, tsize)
    OBVIOUS
  <1>2. tdata' = done.buffer /\ tlength' = done.length
    BY <1>1 DEF TcpDecode
  <1>3. done.how = "returns" /\ done.length \in Nat \ {0}
    BY <1>1 DEF TcpDecode
  <1>4. PICK bytes : bytes = tconn.bytes
    OBVIOUS
  <1>5. /\ bytes \in Seq(Byte) /\ Len(bytes) \in Nat /\ Len(bytes) <= TcpBuffer /\ Agree(tdata, bytes, Len(bytes))
        /\ tsize = Len(bytes) \/ (tsize = -1 /\ Len(bytes) = 0)
        /\ IsBuffer(tdata, TcpBuffer) /\ TcpBuffer \in Nat /\ tdec.offset \in Nat
    BY <1>4, DecodersAssumption DEF TcpInv, TcpDecode
  <1>6. (tdec.mode # 0 /\ tdec.force = 0 /\ tdec.eof = NoCode)
            => \E j \in 1..(Len(bytes) - tdec.offset) : j < 8 /\ bytes[tdec.offset + j] < More
    BY <1>4 DEF LengthKnown
  <1>7. tsize = Len(bytes)
    <2> SUFFICES ASSUME tsize = -1, Len(bytes) = 0 PROVE FALSE
      BY <1>5
    <2>1. ~(tdec.mode # 0 /\ tdec.force = 0 /\ tdec.eof = NoCode)
      BY <1>5, <1>6
    <2>2. Agree(tdata, tdata, -1) /\ -1 \in Int /\ -1 <= TcpBuffer
      BY <1>5 DEF Agree
    <2>3. tdec.mode # 0 => tsize >= 0
      BY <1>1, <1>3, <1>5, <2>1, <2>2, SameDecoded
    <2>4. tdec.mode = 0 => done.length = tsize
      BY <1>1 DEF decode_buffer2buffer
    <2> QED BY <1>3, <2>3, <2>4
  <1>8. PICK g : g = Over(Zeros, bytes)
    OBVIOUS
  <1>9. IsBuffer(g, TcpBuffer) /\ Agree(g, bytes, Len(bytes))
    BY <1>5, <1>8, OverIsBuffer, ZerosIsBuffer
  <1>10. PICK alone : alone = decode_buffer2buffer(tdec, g, Len(bytes))
    OBVIOUS
  <1>11. Agree(tdata, g, Len(bytes))
    BY <1>5, <1>9 DEF Agree
  <1>12. (tdec.mode # 0 /\ tdec.force = 0 /\ tdec.eof = NoCode)
            => \E j \in 1..(Len(bytes) - tdec.offset) : j < 8 /\ tdata[tdec.offset + j] < More
    BY <1>5, <1>6 DEF Agree
  <1>13. done.length = alone.length /\ (Agree(done.buffer, alone.buffer, done.length) \/ done.length > TcpBuffer)
    <2>1. done = decode_buffer2buffer(tdec, tdata, Len(bytes)) /\ Len(bytes) \in Int
      BY <1>1, <1>5, <1>7
    <2> QED BY <1>3, <1>5, <1>9, <1>10, <1>11, <1>12, <2>1, SameDecoded
  <1>14. Len(SubSeq(done.buffer, 1, done.length)) = done.length
    <2> DEFINE S == {done.buffer[i] : i \in 1..done.length}
    <2>1. \A i \in 1..done.length : done.buffer[i] \in S
      OBVIOUS
    <2>2. 1 \in Int /\ done.length \in Int
      BY <1>3
    <2> HIDE DEF S
    <2>3. Len(SubSeq(done.buffer, 1, done.length)) = IF 1 <= done.length THEN done.length - 1 + 1 ELSE 0
      BY <2>1, <2>2, SubSeqProperties
    <2> QED BY <1>3, <2>3
  <1>15. Agree(done.buffer, alone.buffer, done.length)
    BY <1>2, <1>3, <1>5, <1>13, <1>14
  <1>16. SamePart(done.buffer, alone.buffer, 1, done.length)
    <2>1. 1 \in Nat \ {0} /\ done.length \in Int /\ done.length <= done.length
      BY <1>3
    <2> QED BY <1>15, <2>1, SamePiece
  <1> QED BY <1>2, <1>4, <1>8, <1>10, <1>13, <1>16 DEF SamePart

LEMMA StepTcp ==
    ASSUME TcpInv, NoLeftovers, [TcpNext]_tcpVars
    PROVE  (TcpInv /\ NoLeftovers)'
  <1>1. tdec \in Decoders /\ IsBuffer(tdata, TcpBuffer) /\ TcpBuffer \in Nat /\ tstop \in {0, 1, 2}
    BY DecodersAssumption DEF TcpInv
  <1>2. CASE tcp_receiever_nano
    BY <1>2, ZerosIsBuffer DEF tcp_receiever_nano, TcpInv, NoLeftovers
  <1>3. CASE TcpLoop \/ TcpNotAccepted
    BY <1>3 DEF TcpLoop, TcpNotAccepted, TcpInv, NoLeftovers
  <1>4. CASE TcpRead
    <2>1. PICK bytes : bytes = tconn'.bytes
      OBVIOUS
    <2>2. /\ bytes \in Seq(Byte) /\ Len(bytes) <= TcpBuffer /\ tdata' = Over(tdata, bytes)
          /\ tsize' = Len(bytes) \/ (tsize' = -1 /\ Len(bytes) = 0)
      BY <1>4, <2>1 DEF TcpRead
    <2>3. IsBuffer(tdata', TcpBuffer) /\ Agree(tdata', bytes, Len(bytes))
      BY <1>1, <2>2, OverIsBuffer
    <2>4. tpc' = "decode" /\ tdec' = tdec /\ tsent' = tsent /\ tstop' = tstop
      BY <1>4 DEF TcpRead
    <2> QED BY <1>1, <2>1, <2>2, <2>3, <2>4 DEF TcpInv, NoLeftovers
  <1>5. CASE TcpDecode
    <2>1. IsBuffer(tdata', TcpBuffer)
      BY <1>1, <1>5, StaysBuffer DEF TcpDecode
    <2>2. tdec' = tdec /\ tsent' = tsent /\ tstop' = tstop /\ tpc' # "decode"
      BY <1>5 DEF TcpDecode
    <2>3. tpc' = "send" => OfItsOwn(tdec', tconn', SubSeq(tdata', 1, tlength'))
      BY <1>5, DecodeIsOwn
    <2> QED BY <1>1, <2>1, <2>2, <2>3 DEF TcpInv, NoLeftovers
  <1>6. CASE TcpSend
    <2>1. OfItsOwn(tdec, tconn, SubSeq(tdata, 1, tlength))
      BY <1>6 DEF TcpSend, TcpInv
    <2>2. TcpInv'
      BY <1>6 DEF TcpSend, TcpInv
    <2>3. CASE tsent' = tsent
      BY <2>2, <2>3 DEF NoLeftovers
    <2>4. CASE tsent' = <<[of |-> tconn, dec |-> tdec, payload |-> SubSeq(tdata, 1, tlength)]>>
      <3>1. PICK p : p = [of |-> tconn, dec |-> tdec, payload |-> SubSeq(tdata, 1, tlength)]
        OBVIOUS
      <3>2. OfItsOwn(p.dec, p.of, p.payload)
        BY <2>1, <3>1
      <3>3. tsent' = <<p>>
        BY <2>4, <3>1
      <3>4. \A j \in 1..Len(tsent') : tsent'[j] = p
        BY <3>3
      <3>5. NoLeftovers'
        BY <3>2, <3>4 DEF NoLeftovers, OfItsOwn
      <3> QED BY <2>2, <3>5
    <2> QED BY <1>6, <2>3, <2>4 DEF TcpSend
  <1>7. CASE TcpSignal \/ UNCHANGED tcpVars
    BY <1>7 DEF TcpSignal, tcpVars, TcpInv, NoLeftovers
  <1> QED BY <1>2, <1>3, <1>4, <1>5, <1>6, <1>7 DEF TcpNext, TcpStep

\* The buffer that tcp_receiever_nano() keeps from one connection to the next leaks into no
\* payload: whatever read() took of whatever was sent, before and now, the payload is
\* what a receiver just started would make of the bytes read.
THEOREM SendsNoLeftovers == Spec => []NoLeftovers
  <1>1. Init => TcpInv /\ NoLeftovers
    BY TcpInitHolds DEF Init
  <1>2. TcpInv /\ NoLeftovers /\ [Next]_stationVars => (TcpInv /\ NoLeftovers)'
    <2>1. [Next]_stationVars => [TcpNext]_tcpVars
      BY DEF Next, Tcp, Mqtt, File, stationVars, tcpVars
    <2> QED BY <2>1, StepTcp
  <1> QED BY <1>1, <1>2, PTL DEF Spec

-----------------------------------------------------------------------------
(* Induction over the naturals, and the powers of two. *)

\* A set of numbers has a least one: the intervals up to them are finite sets, and
\* the strict subsets of finite sets are well founded.
LEMMA Least ==
    ASSUME NEW K, K \subseteq Nat, K # {}
    PROVE  \E m \in K : \A k \in K : m <= k
  <1> DEFINE T == {1..k : k \in K}
             R == StrictSubsetOrdering(Nat)
  <1>1. T \subseteq FiniteSubsetsOf(Nat) /\ T # {}
    <2> SUFFICES ASSUME NEW k \in K PROVE 1..k \in FiniteSubsetsOf(Nat)
      OBVIOUS
    <2>1. IsFiniteSet(1..k)
      BY FS_Interval
    <2> QED BY <2>1 DEF FiniteSubsetsOf
  <1>2. IsWellFoundedOn(R, FiniteSubsetsOf(Nat))
    BY FS_StrictSubsetOrderingWellFounded
  <1>3. PICK x \in T : \A y \in T : ~(<<y, x>> \in R)
    <2> HIDE DEF T, R
    <2> QED BY <1>1, <1>2, WFMin
  <1>4. PICK m \in K : x = 1..m
    OBVIOUS
  <1>5. ASSUME NEW k \in K, k < m PROVE FALSE
    <2>1. 1..k \subseteq 1..m /\ 1..k # 1..m /\ 1..k \in SUBSET Nat /\ 1..m \in SUBSET Nat
      <3>1. m \in 1..m /\ m \notin 1..k
        BY <1>5
      <3> QED BY <1>5, <3>1
    <2>2. <<1..k, 1..m>> \in R
      BY <2>1 DEF StrictSubsetOrdering
    <2> QED BY <2>2, <1>3, <1>4
  <1> QED BY <1>5

\* Induction over numbers, for a set of them.
LEMMA Induction ==
    ASSUME NEW P, 0 \in P, \A n \in Nat : n \in P => n + 1 \in P
    PROVE  \A n \in Nat : n \in P
  <1> DEFINE K == {n \in Nat : n \notin P}
  <1>1. K = {}
    <2> SUFFICES ASSUME K # {} PROVE FALSE
      OBVIOUS
    <2>1. K \subseteq Nat
      OBVIOUS
    <2>2. PICK m \in K : \A k \in K : m <= k
      <3> HIDE DEF K
      <3> QED BY <2>1, Least
    <2>3. m # 0 /\ m - 1 \in Nat /\ m - 1 \notin K
      BY <2>2
    <2> QED BY <2>3
  <1> QED BY <1>1

\* Powers of two: the provers know none but constant ones, the library counts subsets.
LEMMA Powers ==
    ASSUME NEW n \in Nat
    PROVE  2^n \in Nat \ {0} /\ 2^(n + 1) = 2 * 2^n
  <1> DEFINE A == 1..n
             B == 1..(n + 1)
             C == {S \cup {n + 1} : S \in SUBSET A}
             f == [S \in SUBSET A |-> S \cup {n + 1}]
  <1>1. IsFiniteSet(A) /\ Cardinality(A) = n /\ IsFiniteSet(B) /\ Cardinality(B) = n + 1
    BY FS_Interval
  <1>2. /\ IsFiniteSet(SUBSET A) /\ Cardinality(SUBSET A) = 2^n
        /\ IsFiniteSet(SUBSET B) /\ Cardinality(SUBSET B) = 2^(n + 1)
    BY <1>1, FS_SUBSET
  <1>3. 2^n \in Nat \ {0}
    <2>1. SUBSET A # {}
      OBVIOUS
    <2> QED BY <1>2, <2>1, FS_CardinalityType, FS_EmptySet
  <1>4. f \in Bijection(SUBSET A, C)
    <2>1. f \in [SUBSET A -> C] /\ \A t \in C : \E s \in SUBSET A : f[s] = t
      OBVIOUS
    <2>2. ASSUME NEW s \in SUBSET A, NEW t \in SUBSET A, f[s] = f[t] PROVE s = t
      <3>1. s \cup {n + 1} = t \cup {n + 1} /\ n + 1 \notin s /\ n + 1 \notin t
        BY <2>2
      <3> QED BY <3>1
    <2> HIDE DEF f, C
    <2> QED BY <2>1, <2>2 DEF Bijection, Injection, Surjection, IsInjective
  <1>5. IsFiniteSet(C) /\ Cardinality(C) = 2^n
    <2>1. ExistsBijection(SUBSET A, C)
      BY <1>4 DEF ExistsBijection
    <2> HIDE DEF C, A
    <2> QED BY <1>2, <2>1, FS_Bijection
  <1>6. SUBSET B = (SUBSET A) \cup C
    <2>1. ASSUME NEW S \in SUBSET B PROVE S \in (SUBSET A) \cup C
      <3>1. CASE n + 1 \in S
        <4>1. S \ {n + 1} \in SUBSET A /\ S = (S \ {n + 1}) \cup {n + 1}
          BY <2>1, <3>1
        <4> QED BY <4>1
      <3>2. CASE n + 1 \notin S
        <4>1. S \in SUBSET A
          BY <2>1, <3>2
        <4> QED BY <4>1
      <3> QED BY <3>1, <3>2
    <2>2. A \subseteq B /\ n + 1 \in B
      OBVIOUS
    <2>3. (SUBSET A) \cup C \subseteq SUBSET B
      <3> HIDE DEF A, B
      <3> QED BY <2>2
    <2> QED BY <2>1, <2>3
  <1>7. (SUBSET A) \cap C = {}
    <2>1. n + 1 \notin A
      OBVIOUS
    <2> HIDE DEF A
    <2> QED BY <2>1
  <1>8. Cardinality((SUBSET A) \cup C) = 2^n + 2^n - 0
    <2>1. PICK U : U = SUBSET A
      OBVIOUS
    <2> HIDE DEF A, C
    <2>2. Cardinality(U \cup C) = Cardinality(U) + Cardinality(C) - Cardinality(U \cap C)
      BY <1>2, <1>5, <2>1, FS_Union
    <2>3. Cardinality(U \cap C) = 0
      BY <1>7, <2>1, FS_EmptySet
    <2> QED BY <1>2, <1>5, <2>1, <2>2, <2>3
  <1>9. 2^n + 2^n - 0 = 2 * 2^n
    BY <1>3
  <1> HIDE DEF A, B, C
  <1> QED BY <1>2, <1>3, <1>6, <1>8, <1>9

LEMMA Halved ==
    ASSUME NEW b \in Nat, NEW k \in Nat \ {0}
    PROVE  Bit(b, k + 1) = Bit(b \div 2, k) /\ Bit(b, 1) = b % 2 /\ Bit(b, k) \in {0, 1}
  <1>1. PICK m \in Nat \ {0} : m = 2^(k - 1) /\ 2 * m = 2^k
    <2>1. k - 1 \in Nat /\ (k - 1) + 1 = k
      OBVIOUS
    <2> QED BY <2>1, Powers
  <1>2. b \div (2 * m) = (b \div 2) \div m
    OBVIOUS
  <1>3. Bit(b, k + 1) = Bit(b \div 2, k)
    <2>1. (k + 1) - 1 = k
      OBVIOUS
    <2> QED BY <1>1, <1>2, <2>1 DEF Bit
  <1>4. Bit(b, 1) = b % 2
    <2>1. 2^(1 - 1) = 1 /\ b \div 1 = b
      OBVIOUS
    <2> QED BY <2>1 DEF Bit
  <1>5. Bit(b, k) \in {0, 1}
    <2>1. b \div m \in Nat
      OBVIOUS
    <2>2. (b \div m) % 2 \in {0, 1}
      BY <2>1
    <2> QED BY <1>1, <2>2 DEF Bit
  <1> QED BY <1>3, <1>4, <1>5

\* The bits of a byte tell it.
LEMMA BitsTell ==
    ASSUME NEW b \in Byte, NEW c \in Byte, \A k \in 1..Bits : Bit(b, k) = Bit(c, k)
    PROVE  b = c
  <1> DEFINE Same(x, y, n) == \A k \in 1..n : Bit(x, k) = Bit(y, k)
             P == {n \in Nat : \A x, y \in 0..(2^n - 1) : Same(x, y, n) => x = y}
  <1>1. 0 \in P
    <2>1. 2^0 = 1
      OBVIOUS
    <2> QED BY <2>1
  <1>2. ASSUME NEW n \in Nat, n \in P PROVE n + 1 \in P
    <2> SUFFICES ASSUME NEW x \in 0..(2^(n + 1) - 1), NEW y \in 0..(2^(n + 1) - 1), Same(x, y, n + 1)
                 PROVE  x = y
      OBVIOUS
    <2>1. PICK t \in Nat \ {0} : t = 2^n /\ 2 * t = 2^(n + 1)
      BY Powers
    <2>2. x \in Nat /\ y \in Nat /\ x \div 2 \in 0..(t - 1) /\ y \div 2 \in 0..(t - 1)
      BY <2>1
    <2>3. x % 2 = y % 2
      <3>1. 1 \in 1..(n + 1) /\ 1 \in Nat \ {0}
        OBVIOUS
      <3> QED BY <2>2, <3>1, Halved
    <2>4. Same(x \div 2, y \div 2, n)
      <3> SUFFICES ASSUME NEW k \in 1..n PROVE Bit(x \div 2, k) = Bit(y \div 2, k)
        OBVIOUS
      <3>1. k + 1 \in 1..(n + 1) /\ k \in Nat \ {0}
        OBVIOUS
      <3> QED BY <2>2, <3>1, Halved
    <2>5. x \div 2 = y \div 2
      BY <1>2, <2>1, <2>2, <2>4
    <2> QED BY <2>2, <2>3, <2>5
  <1>3. \A n \in Nat : n \in P
    <2> HIDE DEF P
    <2> QED BY <1>1, <1>2, Induction
  <1>4. Bits \in Nat /\ Bits \in P
    BY <1>3, BitsAssumption
  <1> QED BY <1>4 DEF Byte

\* Every choice of bits is that of a byte.
LEMMA ByteExists ==
    ASSUME NEW p, \A k \in 1..Bits : p[k] \in {0, 1}
    PROVE  \E b \in Byte : \A k \in 1..Bits : Bit(b, k) = p[k]
  <1> DEFINE IsOf(b, n) == \A k \in 1..n : Bit(b, k) = p[Bits - n + k]
             P == {n \in Nat : n <= Bits => \E b \in 0..(2^n - 1) : IsOf(b, n)}
  <1>0. Bits \in Nat
    BY BitsAssumption
  <1>1. 0 \in P
    <2>1. 2^0 = 1
      OBVIOUS
    <2> QED BY <2>1
  <1>2. ASSUME NEW n \in Nat, n \in P PROVE n + 1 \in P
    <2> SUFFICES ASSUME n + 1 <= Bits PROVE \E b \in 0..(2^(n + 1) - 1) : IsOf(b, n + 1)
      OBVIOUS
    <2>1. PICK t \in Nat \ {0} : t = 2^n /\ 2 * t = 2^(n + 1)
      BY Powers
    <2>2. PICK b \in 0..(t - 1) : IsOf(b, n)
      BY <1>0, <1>2, <2>1
    <2>3. PICK q \in {0, 1} : q = p[Bits - n]
      <3>1. Bits - n \in 1..Bits
        BY <1>0
      <3> QED BY <3>1
    <2>4. PICK c \in Nat : c = 2 * b + q
      BY <2>2, <2>3
    <2>5. c \in 0..(2 * t - 1) /\ c \div 2 = b /\ c % 2 = q
      BY <2>2, <2>3, <2>4
    <2>6. ASSUME NEW k \in 1..(n + 1) PROVE Bit(c, k) = p[Bits - (n + 1) + k]
      <3>1. CASE k = 1
        <4>1. Bits - (n + 1) + 1 = Bits - n /\ 1 \in Nat \ {0}
          BY <1>0
        <4> QED BY <2>3, <2>4, <2>5, <3>1, <4>1, Halved
      <3>2. CASE k # 1
        <4>1. PICK j \in Nat \ {0} : k = j + 1 /\ j \in 1..n
          <5>1. k - 1 \in Nat \ {0} /\ k = (k - 1) + 1 /\ k - 1 \in 1..n
            BY <3>2
          <5> QED BY <5>1
        <4>2. Bit(c, j + 1) = Bit(b, j)
          BY <2>4, <2>5, Halved
        <4>3. Bit(b, j) = p[Bits - n + j] /\ Bits - (n + 1) + k = Bits - n + j
          BY <1>0, <2>2, <4>1
        <4> QED BY <4>1, <4>2, <4>3
      <3> QED BY <3>1, <3>2
    <2> QED BY <2>1, <2>5, <2>6
  <1>3. \A n \in Nat : n \in P
    <2> HIDE DEF P
    <2> QED BY <1>1, <1>2, Induction
  <1>4. \E b \in 0..(2^Bits - 1) : IsOf(b, Bits)
    BY <1>0, <1>3
  <1>5. \A k \in 1..Bits : Bits - Bits + k = k
    BY <1>0
  <1> QED BY <1>4, <1>5 DEF Byte

-----------------------------------------------------------------------------
(* Sequences of sequences, joined. *)

\* f[i] are the first i of some sequences, joined.
Joints(f, s, S) ==
    /\ f \in [0..Len(s) -> Seq(S)] /\ f[0] = <<>>
    /\ \A i \in 1..Len(s) : f[i] = f[i - 1] \o s[i]

\* FlattenSeq() is the last of them.
LEMMA Flattened ==
    ASSUME NEW S, NEW s \in Seq(Seq(S))
    PROVE  \E f : Joints(f, s, S) /\ FlattenSeq(s) = f[Len(s)]
  <1>1. PICK n \in Nat : n = Len(s)
    OBVIOUS
  <1>0. \A i \in 1..n : s[i] \in Seq(S)
    BY <1>1
  <1>2. CASE n = 0
    <2>1. s = <<>>
      BY <1>1, <1>2, EmptySeq
    <2>2. FlattenSeq(s) = s
      BY <1>1, <1>2 DEF FlattenSeq
    <2> DEFINE f == [i \in 0..0 |-> <<>>]
    <2>3. f \in [0..0 -> Seq(S)] /\ f[0] = <<>>
      OBVIOUS
    <2>4. Joints(f, s, S)
      BY <1>1, <1>2, <2>3 DEF Joints
    <2>5. FlattenSeq(s) = f[0]
      BY <2>1, <2>2, <2>3
    <2> HIDE DEF f
    <2> QED BY <1>1, <1>2, <2>4, <2>5
  <1>3. CASE n # 0
    <2> DEFINE Turn(h, i) == IF i = 1 THEN s[i] ELSE h[i - 1] \o s[i]
               Is(h, m) == h = [i \in 1..m |-> Turn(h, i)]
               P == {m \in Nat : \E h : Is(h, m)}
    <2>1. 0 \in P
      <3>1. Is([i \in 1..0 |-> 0], 0)
        OBVIOUS
      <3> QED BY <3>1
    <2>2. ASSUME NEW m \in Nat, m \in P PROVE m + 1 \in P
      <3>1. PICK h : Is(h, m)
        BY <2>2
      <3> DEFINE g == [i \in 1..(m + 1) |-> Turn(h, i)]
      <3>2. ASSUME NEW i \in 1..(m + 1) PROVE Turn(g, i) = Turn(h, i)
        <4>1. CASE i = 1
          BY <4>1
        <4>2. CASE i # 1
          <5>1. i - 1 \in 1..m /\ i - 1 \in 1..(m + 1)
            BY <4>2
          <5>2. h[i - 1] = Turn(h, i - 1) /\ g[i - 1] = Turn(h, i - 1)
            BY <3>1, <5>1
          <5>3. g[i - 1] = h[i - 1]
            BY <5>2
          <5> HIDE DEF g
          <5> QED BY <4>2, <5>3, Zenon
        <4> QED BY <4>1, <4>2
      <3>3. Is(g, m + 1)
        BY <3>2
      <3> HIDE DEF g, Is
      <3> QED BY <3>3
    <2>3. PICK h : Is(h, n)
      <3>1. \A m \in Nat : m \in P
        <4> HIDE DEF P
        <4> QED BY <2>1, <2>2, Induction
      <3> QED BY <3>1
    <2> DEFINE g == CHOOSE h_ : h_ = [i \in 1..n |-> IF i = 1 THEN s[i] ELSE h_[i - 1] \o s[i]]
    <2>4. FlattenSeq(s) = g[n]
      BY <1>1, <1>3 DEF FlattenSeq
    <2>5. Is(g, n)
      BY <2>3
    <2> HIDE DEF g
    <2>6. g[1] = s[1] /\ \A i \in 2..n : g[i] = g[i - 1] \o s[i]
      <3>1. \A i \in 1..n : g[i] = Turn(g, i)
        BY <2>5
      <3>2. 1 \in 1..n /\ Turn(g, 1) = s[1]
        BY <1>3
      <3>3. \A i \in 2..n : i \in 1..n /\ i # 1
        OBVIOUS
      <3>4. \A i \in 2..n : Turn(g, i) = g[i - 1] \o s[i]
        BY <3>3, Zenon
      <3> HIDE DEF Turn
      <3> QED BY <3>1, <3>2, <3>3, <3>4, Zenon
    <2>7. PICK f : f = [i \in 0..n |-> IF i = 0 THEN <<>> ELSE g[i]]
      OBVIOUS
    <2>8. DOMAIN f = 0..n /\ f[0] = <<>> /\ (\A i \in 1..n : f[i] = g[i]) /\ f = [i \in 0..n |-> f[i]]
      BY <2>7
    <2>9. ASSUME NEW i \in 1..n PROVE f[i] = f[i - 1] \o s[i]
      <3>1. CASE i = 1
        <4>1. i - 1 = 0 /\ s[i] \in Seq(S)
          BY <1>0, <3>1
        <4>2. <<>> \o s[i] = s[i]
          BY <4>1, ConcatEmptySeq
        <4> QED BY <2>6, <2>8, <3>1, <4>1, <4>2, Zenon
      <3>2. CASE i # 1
        <4>1. i \in 2..n /\ i - 1 \in 1..n
          BY <3>2
        <4> QED BY <2>6, <2>8, <4>1, Zenon
      <3> QED BY <3>1, <3>2
    <2> DEFINE Q == {m \in Nat : m <= n => f[m] \in Seq(S)}
    <2>10. 0 \in Q
      BY <2>8, EmptySeq
    <2>11. ASSUME NEW m \in Nat, m \in Q PROVE m + 1 \in Q
      <3> SUFFICES ASSUME m + 1 <= n PROVE f[m + 1] \in Seq(S)
        OBVIOUS
      <3>1. m + 1 \in 1..n /\ (m + 1) - 1 = m /\ f[m] \in Seq(S)
        BY <2>11
      <3>2. s[m + 1] \in Seq(S)
        BY <1>0, <3>1
      <3>3. f[m] \o s[m + 1] \in Seq(S)
        BY <3>1, <3>2, ConcatProperties
      <3>4. f[m + 1] = f[m] \o s[m + 1]
        BY <2>9, <3>1
      <3> QED BY <3>3, <3>4
    <2>12. \A m \in Nat : m \in Q
      <3> HIDE DEF Q
      <3> QED BY <2>10, <2>11, Induction
    <2>13. f \in [0..n -> Seq(S)]
      <3>1. \A i \in 0..n : f[i] \in Seq(S)
        BY <2>12
      <3> QED BY <2>8, <3>1
    <2>14. Joints(f, s, S)
      BY <1>1, <2>8, <2>9, <2>13, Zenon DEF Joints
    <2>15. FlattenSeq(s) = f[n]
      <3>1. n \in 1..n
        BY <1>3
      <3> QED BY <2>4, <2>8, <3>1, Zenon
    <2> QED BY <1>1, <2>14, <2>15, Zenon
  <1> QED BY <1>2, <1>3

\* Each of the sequences has its place in what they are joined to.
Placed(f, s) ==
    \A i \in 0..Len(s) : \A j \in 1..i :
        /\ Len(f[j]) = Len(f[j - 1]) + Len(s[j]) /\ Len(f[j]) <= Len(f[i])
        /\ \A k \in 1..Len(s[j]) : f[i][Len(f[j - 1]) + k] = s[j][k]

LEMMA Places ==
    ASSUME NEW S, NEW s \in Seq(Seq(S)), NEW f, Joints(f, s, S)
    PROVE  Placed(f, s)
  <1>1. PICK n \in Nat : n = Len(s)
    OBVIOUS
  <1>2. \A i \in 0..n : f[i] \in Seq(S) /\ Len(f[i]) \in Nat
    <2>1. \A i \in 0..n : f[i] \in Seq(S)
      BY <1>1 DEF Joints
    <2> QED BY <2>1
  <1>3. \A j \in 1..n : s[j] \in Seq(S) /\ Len(s[j]) \in Nat
    BY <1>1
  <1>4. ASSUME NEW j \in 1..n
        PROVE  /\ Len(f[j]) = Len(f[j - 1]) + Len(s[j])
               /\ \A k \in 1..Len(f[j - 1]) : f[j][k] = f[j - 1][k]
               /\ \A k \in 1..Len(s[j]) : f[j][Len(f[j - 1]) + k] = s[j][k]
    <2>1. PICK a \in Seq(S) : a = f[j - 1]
      BY <1>2
    <2>2. PICK b \in Seq(S) : b = s[j]
      BY <1>3
    <2>3. f[j] = a \o b
      BY <1>1, <2>1, <2>2 DEF Joints
    <2>4. /\ Len(a \o b) = Len(a) + Len(b) /\ Len(a) \in Nat /\ Len(b) \in Nat
          /\ \A k \in 1..(Len(a) + Len(b)) : (a \o b)[k] = IF k <= Len(a) THEN a[k] ELSE b[k - Len(a)]
      BY ConcatProperties
    <2>5. PICK c : c = a \o b
      OBVIOUS
    <2>6. PICK l \in Nat : l = Len(a)
      BY <2>4
    <2>7. \A k \in 1..l : c[k] = a[k]
      BY <2>4, <2>5, <2>6
    <2>8. ASSUME NEW k \in 1..Len(b) PROVE c[l + k] = b[k]
      <3>1. l + k \in 1..(l + Len(b)) /\ ~(l + k <= l) /\ (l + k) - l = k
        BY <2>4
      <3> QED BY <2>4, <2>5, <2>6, <3>1
    <2> QED BY <2>1, <2>2, <2>3, <2>4, <2>5, <2>6, <2>7, <2>8
  <1>5. PICK L : L = [i \in 0..n |-> Len(f[i])]
    OBVIOUS
  <1>6. PICK M : M = [j \in 1..n |-> Len(s[j])]
    OBVIOUS
  <1>7. /\ \A i \in 0..n : L[i] \in Nat /\ L[i] = Len(f[i])
        /\ \A j \in 1..n : M[j] \in Nat /\ M[j] = Len(s[j])
    BY <1>2, <1>3, <1>5, <1>6
  <1>8. \A j \in 1..n : /\ L[j] = L[j - 1] + M[j]
                        /\ \A k \in 1..L[j - 1] : f[j][k] = f[j - 1][k]
                        /\ \A k \in 1..M[j] : f[j][L[j - 1] + k] = s[j][k]
    <2> SUFFICES ASSUME NEW j \in 1..n
                 PROVE  /\ L[j] = L[j - 1] + M[j]
                        /\ \A k \in 1..L[j - 1] : f[j][k] = f[j - 1][k]
                        /\ \A k \in 1..M[j] : f[j][L[j - 1] + k] = s[j][k]
      OBVIOUS
    <2>1. j \in 0..n /\ j - 1 \in 0..n
      OBVIOUS
    <2>2. L[j] = Len(f[j]) /\ L[j - 1] = Len(f[j - 1]) /\ M[j] = Len(s[j])
      BY <1>7, <2>1
    <2> QED BY <1>4, <2>2, Zenon
  <1> DEFINE Right(i, j) == L[j] <= L[i] /\ \A k \in 1..M[j] : f[i][L[j - 1] + k] = s[j][k]
             P == {i \in Nat : i <= n => \A j \in 1..i : Right(i, j)}
  <1>9. 0 \in P
    OBVIOUS
  <1>10. ASSUME NEW i \in Nat, i \in P PROVE i + 1 \in P
    <2> SUFFICES ASSUME i + 1 <= n, NEW j \in 1..(i + 1) PROVE Right(i + 1, j)
      OBVIOUS
    <2>1. /\ i + 1 \in 1..n /\ (i + 1) - 1 = i /\ i \in 0..n /\ i + 1 \in 0..n
          /\ j \in 0..n /\ j - 1 \in 0..n /\ j \in 1..n
      OBVIOUS
    <2>2. L[i + 1] = L[i] + M[i + 1] /\ \A k \in 1..L[i] : f[i + 1][k] = f[i][k]
      BY <1>8, <2>1
    <2>3. CASE j = i + 1
      <3>1. L[i + 1] <= L[i + 1]
        BY <1>7, <2>1
      <3> QED BY <1>8, <2>1, <2>3, <3>1
    <2>4. CASE j # i + 1
      <3>1. j \in 1..i /\ i <= n
        BY <2>4
      <3>2. Right(i, j)
        BY <1>10, <3>1
      <3>3. L[j] <= L[i + 1]
        BY <1>7, <2>1, <2>2, <3>2
      <3>4. ASSUME NEW k \in 1..M[j] PROVE f[i + 1][L[j - 1] + k] = s[j][k]
        <4>1. L[j] = L[j - 1] + M[j]
          BY <1>8, <2>1
        <4>2. L[j - 1] + k \in 1..L[i]
          BY <1>7, <2>1, <3>2, <4>1
        <4> QED BY <2>2, <3>2, <4>2
      <3> QED BY <3>3, <3>4
    <2> QED BY <2>3, <2>4
  <1>11. \A i \in Nat : i \in P
    <2> HIDE DEF P
    <2> QED BY <1>9, <1>10, Induction
  <1> SUFFICES ASSUME NEW i \in 0..n, NEW j \in 1..i
               PROVE  /\ Len(f[j]) = Len(f[j - 1]) + Len(s[j]) /\ Len(f[j]) <= Len(f[i])
                      /\ \A k \in 1..Len(s[j]) : f[i][Len(f[j - 1]) + k] = s[j][k]
    BY <1>1, Zenon DEF Placed
  <1>12. i \in Nat /\ i <= n /\ j \in 1..n /\ j \in 0..n /\ j - 1 \in 0..n
    OBVIOUS
  <1>13. Right(i, j)
    BY <1>11, <1>12
  <1>14. L[j] = L[j - 1] + M[j]
    BY <1>8, <1>12
  <1> QED BY <1>7, <1>12, <1>13, <1>14

-----------------------------------------------------------------------------
(* Bits, bytes and streams. *)

\* ByteAt() takes the bits from a place on.
LEMMA ByteAtIs ==
    ASSUME NEW bits, NEW first, \A k \in 1..Bits : At(bits, first + k - 1) \in {0, 1}
    PROVE  ByteAt(bits, first) \in Byte /\ \A k \in 1..Bits : Bit(ByteAt(bits, first), k) = At(bits, first + k - 1)
  <1>1. PICK p : p = [k \in 1..Bits |-> At(bits, first + k - 1)]
    OBVIOUS
  <1>2. \A k \in 1..Bits : p[k] \in {0, 1} /\ p[k] = At(bits, first + k - 1)
    BY <1>1
  <1>3. \E b \in Byte : \A k \in 1..Bits : Bit(b, k) = At(bits, first + k - 1)
    BY <1>2, ByteExists
  <1> QED BY <1>3 DEF ByteAt

\* What ToBits() wrote, ByteAt() reads.
LEMMA ByteRead ==
    ASSUME NEW v \in Byte, NEW bits, NEW first, \A k \in 1..Bits : At(bits, first + k - 1) = ToBits(v)[k]
    PROVE  ByteAt(bits, first) = v
  <1>1. \A k \in 1..Bits : At(bits, first + k - 1) = Bit(v, k) /\ Bit(v, k) \in {0, 1}
    <2>1. v \in Nat
      BY BitsAssumption, Powers DEF Byte
    <2>2. \A k \in 1..Bits : k \in Nat \ {0}
      OBVIOUS
    <2> QED BY <2>1, <2>2, Halved DEF ToBits
  <1>2. ByteAt(bits, first) \in Byte /\ \A k \in 1..Bits : Bit(ByteAt(bits, first), k) = Bit(v, k)
    BY <1>1, ByteAtIs
  <1> QED BY <1>2, BitsTell

LEMMA AtIsBit ==
    ASSUME NEW bits \in Seq({0, 1}), NEW i \in Nat \ {0}
    PROVE  At(bits, i) \in {0, 1}
  <1>1. CASE i <= Len(bits)
    <2>1. i \in 1..Len(bits)
      BY <1>1
    <2> QED BY <1>1, <2>1 DEF At
  <1>2. CASE ~(i <= Len(bits))
    BY <1>2 DEF At
  <1> QED BY <1>1, <1>2

\* obitstream writes so many bytes, each with its part of the bits.
LEMMA PackedIs ==
    ASSUME NEW bits \in Seq({0, 1})
    PROVE  /\ Packed(bits) \in Seq(Byte) /\ Len(Packed(bits)) = (Len(bits) + Bits - 1) \div Bits
           /\ \A j \in 1..Len(Packed(bits)) : \A k \in 1..Bits :
                 Bit(Packed(bits)[j], k) = At(bits, (j - 1) * Bits + k)
  <1>1. PICK B \in Nat \ {0} : B = Bits
    BY BitsAssumption
  <1>2. PICK l \in Nat : l = Len(bits)
    OBVIOUS
  <1>3. PICK n \in Nat : n = (l + B - 1) \div B
    OBVIOUS
  <1>4. PICK p : p = [j \in 1..n |-> ByteAt(bits, (j - 1) * B + 1)]
    OBVIOUS
  <1>5. Packed(bits) = p
    BY <1>1, <1>2, <1>3, <1>4 DEF Packed
  <1>6. ASSUME NEW j \in 1..n
        PROVE  p[j] \in Byte /\ \A k \in 1..B : Bit(p[j], k) = At(bits, (j - 1) * B + k)
    <2>1. PICK o \in Nat : o = (j - 1) * B
      OBVIOUS
    <2>2. p[j] = ByteAt(bits, o + 1)
      BY <1>4, <2>1
    <2>3. ASSUME NEW k \in 1..B PROVE At(bits, (o + 1) + k - 1) \in {0, 1} /\ (o + 1) + k - 1 = o + k
      <3>1. (o + 1) + k - 1 \in Nat \ {0} /\ (o + 1) + k - 1 = o + k
        OBVIOUS
      <3> QED BY <3>1, AtIsBit
    <2>4. ByteAt(bits, o + 1) \in Byte /\ \A k \in 1..B : Bit(ByteAt(bits, o + 1), k) = At(bits, (o + 1) + k - 1)
      <3>1. \A k \in 1..Bits : At(bits, (o + 1) + k - 1) \in {0, 1}
        BY <1>1, <2>3
      <3> HIDE <1>1
      <3>2. ByteAt(bits, o + 1) \in Byte /\ \A k \in 1..Bits : Bit(ByteAt(bits, o + 1), k) = At(bits, (o + 1) + k - 1)
        BY <3>1, ByteAtIs
      <3> QED BY <1>1, <3>2
    <2> QED BY <2>1, <2>2, <2>3, <2>4
  <1>7. p \in Seq(Byte) /\ Len(p) = n
    <2>1. p \in [1..n -> Byte]
      BY <1>4, <1>6
    <2> QED BY <2>1
  <1> QED BY <1>1, <1>2, <1>3, <1>5, <1>6, <1>7

\* ibitstream gives the bits of the bytes, one after the other.
LEMMA UnpackedIs ==
    ASSUME NEW T, NEW bytes \in Seq(T)
    PROVE  /\ Len(Unpacked(bytes)) = Len(bytes) * Bits
           /\ \A j \in 1..Len(bytes) : \A k \in 1..Bits : Unpacked(bytes)[(j - 1) * Bits + k] = Bit(bytes[j], k)
  <1>1. PICK B \in Nat \ {0} : B = Bits
    BY BitsAssumption
  <1>2. PICK n \in Nat : n = Len(bytes)
    OBVIOUS
  <1>3. PICK S : S = {Bit(p[1], p[2]) : p \in T \X (1..B)}
    OBVIOUS
  <1>4. PICK s : s = [j \in 1..n |-> ToBits(bytes[j])]
    OBVIOUS
  <1>5. ASSUME NEW j \in 1..n
        PROVE  s[j] \in Seq(S) /\ Len(s[j]) = B /\ \A k \in 1..B : s[j][k] = Bit(bytes[j], k)
    <2>1. bytes[j] \in T
      BY <1>2
    <2>2. PICK t : t = [k \in 1..B |-> Bit(bytes[j], k)]
      OBVIOUS
    <2>3. t \in [1..B -> S]
      <3>1. ASSUME NEW k \in 1..B PROVE t[k] \in S
        <4>1. <<bytes[j], k>> \in T \X (1..B) /\ t[k] = Bit(<<bytes[j], k>>[1], <<bytes[j], k>>[2])
          BY <2>1, <2>2
        <4> QED BY <1>3, <4>1
      <3> QED BY <2>2, <3>1
    <2>4. s[j] = t
      BY <1>1, <1>4, <2>2 DEF ToBits
    <2>5. t \in Seq(S) /\ Len(t) = B
      BY <2>3
    <2> QED BY <2>2, <2>4, <2>5
  <1>6. s \in Seq(Seq(S)) /\ Len(s) = n
    <2>1. s \in [1..n -> Seq(S)]
      BY <1>4, <1>5
    <2> QED BY <2>1
  <1>7. Unpacked(bytes) = FlattenSeq(s)
    BY <1>2, <1>4 DEF Unpacked
  <1>8. PICK f : Joints(f, s, S) /\ FlattenSeq(s) = f[Len(s)]
    BY <1>6, Flattened
  <1>9. \A i \in 0..n : \A j \in 1..i :
              /\ Len(f[j]) = Len(f[j - 1]) + Len(s[j])
              /\ \A k \in 1..Len(s[j]) : f[i][Len(f[j - 1]) + k] = s[j][k]
    <2>1. Placed(f, s)
      BY <1>6, <1>8, Places
    <2> QED BY <1>6, <2>1, Zenon DEF Placed
  <1>10. PICK L : L = [i \in 0..n |-> Len(f[i])]
    OBVIOUS
  <1>11. L[0] = 0 /\ \A j \in 1..n : L[j] = L[j - 1] + B
    <2>1. f[0] = <<>> /\ L[0] = Len(f[0])
      BY <1>8, <1>10 DEF Joints
    <2>2. ASSUME NEW j \in 1..n PROVE L[j] = L[j - 1] + B
      <3>1. n \in 0..n /\ j \in 0..n /\ j - 1 \in 0..n
        OBVIOUS
      <3>2. L[j] = Len(f[j]) /\ L[j - 1] = Len(f[j - 1])
        BY <1>10, <3>1
      <3>3. Len(f[j]) = Len(f[j - 1]) + Len(s[j])
        BY <1>9, <3>1
      <3> QED BY <1>5, <3>2, <3>3
    <2> QED BY <2>1, <2>2
  <1> DEFINE P == {i \in Nat : i <= n => L[i] = i * B}
  <1>12. 0 \in P
    BY <1>11
  <1>13. ASSUME NEW i \in Nat, i \in P PROVE i + 1 \in P
    <2> SUFFICES ASSUME i + 1 <= n PROVE L[i + 1] = (i + 1) * B
      OBVIOUS
    <2>1. i + 1 \in 1..n /\ (i + 1) - 1 = i /\ L[i] = i * B
      BY <1>13
    <2>2. L[i + 1] = i * B + B
      BY <1>11, <2>1
    <2> QED BY <2>2
  <1>14. \A i \in Nat : i \in P
    <2> HIDE DEF P
    <2> QED BY <1>12, <1>13, Induction
  <1>15. ASSUME NEW j \in 1..n, NEW k \in 1..B PROVE f[n][(j - 1) * B + k] = Bit(bytes[j], k)
    <2>1. n \in 0..n /\ j - 1 \in 0..n /\ j - 1 \in Nat /\ j - 1 <= n
      OBVIOUS
    <2>2. Len(f[j - 1]) = (j - 1) * B
      BY <1>10, <1>14, <2>1
    <2>3. f[n][Len(f[j - 1]) + k] = s[j][k]
      BY <1>5, <1>9, <2>1
    <2> QED BY <1>5, <2>2, <2>3
  <1>16. Len(f[n]) = n * B
    <2>1. n \in 0..n /\ n <= n
      OBVIOUS
    <2>2. L[n] = Len(f[n])
      BY <1>10, <2>1
    <2> QED BY <1>14, <2>1, <2>2
  <1> QED BY <1>1, <1>2, <1>6, <1>7, <1>8, <1>15, <1>16

\* The stream that is read begins with the bits that were written.
LEMMA StreamBegins ==
    ASSUME NEW bits \in Seq({0, 1}), NEW junk, NEW str, str = Stream(Packed(bits), junk, TRUE)
    PROVE  /\ Len(str) \in Nat \ {0} /\ Len(bits) <= Len(str)
           /\ \A i \in 1..Len(bits) : str[i] = bits[i]
  <1>1. PICK B \in Nat \ {0} : B = Bits
    BY BitsAssumption
  <1>2. PICK l \in Nat : l = Len(bits)
    OBVIOUS
  <1>3. PICK p : p = Packed(bits)
    OBVIOUS
  <1>4. PICK n \in Nat : n = (l + B - 1) \div B
    OBVIOUS
  <1>5. p \in Seq(Byte) /\ Len(p) = n /\ \A j \in 1..n : \A k \in 1..B : Bit(p[j], k) = At(bits, (j - 1) * B + k)
    BY <1>1, <1>2, <1>3, <1>4, PackedIs
  <1>6. PICK x : x = IF p = <<>> THEN junk ELSE p[Len(p)]
    OBVIOUS
  <1>7. PICK T : T = Byte \cup {x}
    OBVIOUS
  <1>8. p \in Seq(T) /\ <<x>> \in Seq(T) /\ Len(<<x>>) = 1
    BY <1>5, <1>7, SeqMonotonic
  <1>9. PICK q : q = p \o <<x>>
    OBVIOUS
  <1>10. q \in Seq(T) /\ Len(q) = n + 1 /\ \A j \in 1..n : q[j] = p[j]
    <2>1. /\ p \o <<x>> \in Seq(T) /\ Len(p \o <<x>>) = Len(p) + Len(<<x>>)
          /\ \A i \in 1 .. Len(p) + Len(<<x>>) : (p \o <<x>>)[i] = IF i <= Len(p) THEN p[i] ELSE <<x>>[i - Len(p)]
      BY <1>8, ConcatProperties
    <2> QED BY <1>5, <1>8, <1>9, <2>1
  <1>11. str = Unpacked(q)
    BY <1>3, <1>6, <1>9 DEF Stream
  <1>12. Len(str) = (n + 1) * B /\ \A j \in 1..(n + 1) : \A k \in 1..B : str[(j - 1) * B + k] = Bit(q[j], k)
    <2>1. /\ Len(Unpacked(q)) = Len(q) * Bits
          /\ \A j \in 1..Len(q) : \A k \in 1..Bits : Unpacked(q)[(j - 1) * Bits + k] = Bit(q[j], k)
      BY <1>10, UnpackedIs
    <2> QED BY <1>1, <1>10, <1>11, <2>1
  <1>13. l <= n * B
    BY <1>4
  <1>14. Len(str) \in Nat \ {0} /\ l <= Len(str)
    <2>1. (n + 1) * B = n * B + B /\ n * B \in Nat
      OBVIOUS
    <2>2. PICK c \in Nat : c = n * B
      BY <2>1
    <2>3. PICK e : e = Len(str)
      OBVIOUS
    <2>4. e = c + B /\ l <= c
      BY <1>12, <1>13, <2>1, <2>2, <2>3
    <2>5. e \in Nat \ {0} /\ l <= e
      BY <2>4
    <2> QED BY <2>3, <2>5, Zenon
  <1>15. ASSUME NEW i \in 1..l PROVE str[i] = bits[i]
    <2>1. PICK a \in Nat : a = (i - 1) \div B
      OBVIOUS
    <2>2. PICK b \in 0..(B - 1) : b = (i - 1) % B
      OBVIOUS
    <2>3. i - 1 = a * B + b
      BY <2>1, <2>2
    <2>4. a < n
      <3>1. SUFFICES ASSUME a >= n PROVE FALSE
        OBVIOUS
      <3>2. a * B >= n * B
        BY <3>1
      <3> QED BY <1>13, <2>3, <3>2
    <2>5. a + 1 \in 1..n /\ a + 1 \in 1..(n + 1) /\ b + 1 \in 1..B /\ (a + 1) - 1 = a
      BY <2>4
    <2>6. a * B + (b + 1) = i
      BY <2>3
    <2>7. str[a * B + (b + 1)] = Bit(q[a + 1], b + 1)
      BY <1>12, <2>5
    <2>8. Bit(q[a + 1], b + 1) = At(bits, a * B + (b + 1))
      BY <1>5, <1>10, <2>5
    <2>9. str[i] = At(bits, i) /\ i <= Len(bits)
      <3>1. str[i] = At(bits, i)
        BY <2>6, <2>7, <2>8, Zenon
      <3>2. i <= Len(bits)
        BY <1>2
      <3> QED BY <3>1, <3>2, Zenon
    <2> QED BY <2>9 DEF At
  <1> QED BY <1>2, <1>14, <1>15

-----------------------------------------------------------------------------
(* The loop of decompress_stream(). *)

\* The states of the loop of decompress_stream(): it goes on, or it has returned.
Node(k, n, r, out) == [how |-> "hangs", k |-> k, n |-> n, r |-> r, out |-> out]
Leaves(k, n, r, out) == [how |-> "returns", k |-> k, n |-> n, r |-> r, out |-> out]

\* f are the states after so many turns.
Walks(f, d, size, str) ==
    /\ f[0] = Node(1, <<>>, 0, <<>>)
    /\ \A j \in 1..Len(str) : f[j] = DecodeBit(d, size, str, f[j - 1])

LEMMA WalkExists ==
    ASSUME NEW d, NEW size, NEW str, Len(str) \in Nat
    PROVE  \E f : Walks(f, d, size, str) /\ DecodeLoop(d, size, str) = f[Len(str)]
  <1> DEFINE Turn(h, j) == IF j = 0 THEN [how |-> "hangs", k |-> 1, n |-> <<>>, r |-> 0, out |-> <<>>]
                           ELSE DecodeBit(d, size, str, h[j - 1])
             Is(h, m) == h = [j \in 0..m |-> Turn(h, j)]
             P == {m \in Nat : \E h : Is(h, m)}
  <1>1. 0 \in P
    <2>1. PICK h : h = [j \in 0..0 |-> Turn(<<>>, 0)]
      OBVIOUS
    <2>2. Turn(<<>>, 0) = Turn(h, 0) /\ \A j \in 0..0 : j = 0
      OBVIOUS
    <2> HIDE DEF Turn
    <2>3. h = [j \in 0..0 |-> Turn(h, j)]
      BY <2>1, <2>2
    <2> QED BY <2>3
  <1>2. ASSUME NEW m \in Nat, m \in P PROVE m + 1 \in P
    <2>1. PICK h : Is(h, m)
      BY <1>2
    <2>2. PICK g : g = [j \in 0..(m + 1) |-> Turn(h, j)]
      OBVIOUS
    <2>3. ASSUME NEW j \in 0..(m + 1) PROVE Turn(g, j) = Turn(h, j)
      <3>1. CASE j = 0
        BY <3>1
      <3>2. CASE j # 0
        <4>1. j - 1 \in 0..m /\ j - 1 \in 0..(m + 1)
          BY <3>2
        <4> HIDE DEF Turn
        <4>2. h[j - 1] = Turn(h, j - 1) /\ g[j - 1] = Turn(h, j - 1)
          BY <2>1, <2>2, <4>1
        <4>3. g[j - 1] = h[j - 1]
          BY <4>2
        <4> QED BY <4>3, Zenon DEF Turn
      <3> QED BY <3>1, <3>2
    <2> HIDE DEF Turn
    <2>4. Is(g, m + 1)
      BY <2>2, <2>3
    <2> HIDE DEF Is
    <2> QED BY <2>4
  <1>3. PICK h : Is(h, Len(str))
    <2>1. \A m \in Nat : m \in P
      <3> HIDE DEF P
      <3> QED BY <1>1, <1>2, Induction
    <2> QED BY <2>1
  <1> DEFINE g == CHOOSE g_ : g_ = [j \in 0..Len(str) |->
                      IF j = 0 THEN [how |-> "hangs", k |-> 1, n |-> <<>>, r |-> 0, out |-> <<>>]
                      ELSE DecodeBit(d, size, str, g_[j - 1])]
  <1>4. DecodeLoop(d, size, str) = g[Len(str)]
    BY DEF DecodeLoop
  <1>5. Is(g, Len(str))
    BY <1>3
  <1> HIDE DEF g
  <1>6. Walks(g, d, size, str)
    <2>1. \A j \in 0..Len(str) : g[j] = Turn(g, j)
      <3> HIDE DEF Turn
      <3> QED BY <1>5
    <2>2. 0 \in 0..Len(str) /\ \A j \in 1..Len(str) : j \in 0..Len(str) /\ j # 0
      OBVIOUS
    <2> QED BY <2>1, <2>2, Zenon DEF Walks, Node
  <1> QED BY <1>4, <1>6

\* What has returned stays as it is.
LEMMA WalkStays ==
    ASSUME NEW d, NEW size, NEW str, Len(str) \in Nat, NEW f, Walks(f, d, size, str),
           NEW j \in 0..Len(str), f[j].how = "returns"
    PROVE  f[Len(str)] = f[j]
  <1> DEFINE P == {i \in Nat : j + i <= Len(str) => f[j + i] = f[j]}
  <1>1. 0 \in P
    OBVIOUS
  <1>2. ASSUME NEW i \in Nat, i \in P PROVE i + 1 \in P
    <2> SUFFICES ASSUME j + (i + 1) <= Len(str) PROVE f[j + (i + 1)] = f[j]
      OBVIOUS
    <2>1. j + (i + 1) \in 1..Len(str) /\ (j + (i + 1)) - 1 = j + i /\ f[j + i] = f[j]
      BY <1>2
    <2>2. f[j + (i + 1)] = DecodeBit(d, size, str, f[j])
      BY <2>1 DEF Walks
    <2>3. DecodeBit(d, size, str, f[j]) = f[j]
      BY Zenon DEF DecodeBit
    <2> QED BY <2>2, <2>3
  <1>3. \A i \in Nat : i \in P
    <2> HIDE DEF P
    <2> QED BY <1>1, <1>2, Induction
  <1>4. Len(str) - j \in Nat /\ j + (Len(str) - j) = Len(str)
    OBVIOUS
  <1> QED BY <1>3, <1>4

\* The first t bits of a code.
First(c, t) == SubSeq(c, 1, t)

LEMMA Firsts ==
    ASSUME NEW S, NEW c \in Seq(S)
    PROVE  /\ First(c, 0) = <<>> /\ First(c, Len(c)) = c
           /\ \A t \in 1..Len(c) : Append(First(c, t - 1), c[t]) = First(c, t)
           /\ \A t \in 0..Len(c) : First(c, t) \in Seq(S) /\ Len(First(c, t)) = t
  <1>1. First(c, 0) = <<>>
    BY SubSeqEmpty DEF First
  <1>2. First(c, Len(c)) = c
    BY SubSeqFull DEF First
  <1>3. ASSUME NEW t \in 0..Len(c) PROVE First(c, t) \in Seq(S) /\ Len(First(c, t)) = t
    <2>1. \A i \in 1..t : c[i] \in S
      OBVIOUS
    <2>2. SubSeq(c, 1, t) \in Seq(S) /\ Len(SubSeq(c, 1, t)) = IF 1 <= t THEN t - 1 + 1 ELSE 0
      BY <2>1, SubSeqProperties
    <2> QED BY <2>2 DEF First
  <1>4. ASSUME NEW t \in 1..Len(c) PROVE Append(First(c, t - 1), c[t]) = First(c, t)
    <2>1. 1 \in 1..Len(c) /\ t \in 1..Len(c) /\ t - 1 \in 0..Len(c) /\ c[t] \in S
      OBVIOUS
    <2>2. SubSeq(c, 1, t) = SubSeq(c, 1, t - 1) \o <<c[t]>>
      BY <2>1, SubSeqRecursiveSecond
    <2>3. First(c, t - 1) \in Seq(S)
      BY <1>3, <2>1
    <2>4. Append(First(c, t - 1), c[t]) = First(c, t - 1) \o <<c[t]>>
      BY <2>1, <2>3, AppendIsConcat
    <2> QED BY <2>2, <2>4, Zenon DEF First
  <1> QED BY <1>1, <1>2, <1>3, <1>4

\* On the way to a leaf there is none.
LEMMA NoLeafBefore ==
    ASSUME NEW T, IsPrefixCode(T), NEW s \in DOMAIN T, NEW t \in Nat, t < Len(T[s])
    PROVE  {u \in DOMAIN T : T[u] = First(T[s], t)} = {}
  <1> SUFFICES ASSUME NEW u \in DOMAIN T, T[u] = First(T[s], t) PROVE FALSE
    OBVIOUS
  <1>1. T[s] \in Seq({0, 1}) /\ T[u] \in Seq({0, 1})
    BY DEF IsPrefixCode
  <1>2. t \in 0..Len(T[s]) /\ Len(T[u]) = t
    <2>1. t \in 0..Len(T[s])
      BY <1>1
    <2>2. Len(First(T[s], t)) = t
      BY <1>1, <2>1, Firsts
    <2> QED BY <2>1, <2>2
  <1>3. u # s
    BY <1>2
  <1>4. IsPrefix(T[u], T[s])
    <2>1. SubSeq(T[u], 1, Len(T[u])) = T[u]
      BY <1>1, SubSeqFull
    <2>2. T[u] = SubSeq(T[s], 1, Len(T[u]))
      BY <1>2 DEF First
    <2> QED BY <1>2, <2>1, <2>2 DEF IsPrefix
  <1> QED BY <1>3, <1>4 DEF IsPrefixCode

\* A leaf is that of one symbol.
LEMMA OneLeaf ==
    ASSUME NEW T, IsPrefixCode(T), NEW s \in DOMAIN T
    PROVE  {u \in DOMAIN T : T[u] = T[s]} = {s} /\ {u \in DOMAIN T : IsPrefix(T[u], T[s])} = {s}
  <1>1. T[s] \in Seq({0, 1})
    BY DEF IsPrefixCode
  <1>2. IsPrefix(T[s], T[s])
    <2>1. Len(T[s]) <= Len(T[s])
      BY <1>1
    <2> QED BY <2>1 DEF IsPrefix
  <1>3. ASSUME NEW u \in DOMAIN T, T[u] = T[s] \/ IsPrefix(T[u], T[s]) PROVE u = s
    BY <1>2, <1>3 DEF IsPrefixCode
  <1> QED BY <1>2, <1>3

\* What the turns change of a state: inside the tree, at the end, at another leaf.
Inner(w, nn) == [w EXCEPT !.k = @ + 1, !.n = nn]
Gone(w) == [w EXCEPT !.how = "returns", !.r = @ + 1]
Took(w, kk, nn, oo) == [w EXCEPT !.k = kk, !.n = nn, !.r = @ + 1, !.out = Append(@, oo)]

LEMMA Changes ==
    ASSUME NEW k, NEW n, NEW r, NEW out, NEW w, w = Node(k, n, r, out)
    PROVE  /\ \A nn : Inner(w, nn) = Node(k + 1, nn, r, out)
           /\ Gone(w) = Leaves(k, n, r + 1, out)
           /\ \A kk, nn, oo : Took(w, kk, nn, oo) = Node(kk, nn, r + 1, Append(out, oo))
  <1> SUFFICES ASSUME NEW kk, NEW nn, NEW oo
               PROVE  /\ Inner(w, nn) = Node(k + 1, nn, r, out)
                      /\ Gone(w) = Leaves(k, n, r + 1, out)
                      /\ Took(w, kk, nn, oo) = Node(kk, nn, r + 1, Append(out, oo))
    BY Zenon
  <1>1. w.how = "hangs" /\ w.k = k /\ w.n = n /\ w.r = r /\ w.out = out
    BY DEF Node
  <1>2. PICK k1, r1, o1 : k1 = k + 1 /\ r1 = r + 1 /\ o1 = Append(out, oo)
    OBVIOUS
  <1>3. w.k + 1 = k1 /\ w.r + 1 = r1 /\ Append(w.out, oo) = o1
    BY <1>1, <1>2, Zenon
  <1>4. [w EXCEPT !.k = k1, !.n = nn] = Node(k1, nn, r, out)
    <2>1. [w EXCEPT !.k = k1, !.n = nn] = [[w EXCEPT !.k = k1] EXCEPT !.n = nn]
      OBVIOUS
    <2>2. [w EXCEPT !.k = k1] = Node(k1, n, r, out)
      BY DEF Node, Leaves
    <2>3. [Node(k1, n, r, out) EXCEPT !.n = nn] = Node(k1, nn, r, out)
      BY DEF Node, Leaves
    <2> QED BY <2>1, <2>2, <2>3, Zenon
  <1>5. [w EXCEPT !.how = "returns", !.r = r1] = Leaves(k, n, r1, out)
    <2>1. [w EXCEPT !.how = "returns", !.r = r1] = [[w EXCEPT !.how = "returns"] EXCEPT !.r = r1]
      OBVIOUS
    <2>2. [w EXCEPT !.how = "returns"] = Leaves(k, n, r, out)
      BY DEF Node, Leaves
    <2>3. [Leaves(k, n, r, out) EXCEPT !.r = r1] = Leaves(k, n, r1, out)
      BY DEF Node, Leaves
    <2> QED BY <2>1, <2>2, <2>3, Zenon
  <1>6. [w EXCEPT !.k = kk, !.n = nn, !.r = r1, !.out = o1] = Node(kk, nn, r1, o1)
    <2>1. [w EXCEPT !.k = kk, !.n = nn, !.r = r1, !.out = o1] =
             [[[[w EXCEPT !.k = kk] EXCEPT !.n = nn] EXCEPT !.r = r1] EXCEPT !.out = o1]
      OBVIOUS
    <2>2. [w EXCEPT !.k = kk] = Node(kk, n, r, out)
      BY DEF Node, Leaves
    <2>3. [Node(kk, n, r, out) EXCEPT !.n = nn] = Node(kk, nn, r, out)
      BY DEF Node, Leaves
    <2>4. [Node(kk, nn, r, out) EXCEPT !.r = r1] = Node(kk, nn, r1, out)
      BY DEF Node, Leaves
    <2>5. [Node(kk, nn, r1, out) EXCEPT !.out = o1] = Node(kk, nn, r1, o1)
      BY DEF Node, Leaves
    <2> QED BY <2>1, <2>2, <2>3, <2>4, <2>5, Zenon
  <1>7. [w EXCEPT !.k = w.k + 1, !.n = nn] = Node(k + 1, nn, r, out)
    BY <1>2, <1>3, <1>4, Zenon
  <1>8. [w EXCEPT !.how = "returns", !.r = w.r + 1] = Leaves(k, n, r + 1, out)
    BY <1>2, <1>3, <1>5, Zenon
  <1>9. [w EXCEPT !.k = kk, !.n = nn, !.r = w.r + 1, !.out = Append(w.out, oo)] = Node(kk, nn, r + 1, Append(out, oo))
    BY <1>2, <1>3, <1>6, Zenon
  <1> QED BY <1>7, <1>8, <1>9, Zenon DEF Inner, Gone, Took

\* Bit k of the stream is the one after t bits of the code of s.
Reads(d, T, s, t, str, k) ==
    /\ T = d.tree.code /\ d.eof # NoCode /\ IsPrefixCode(T) /\ s \in DOMAIN T /\ t \in Nat /\ t < Len(T[s])
    /\ Len(str) \in Nat /\ k \in 1..Len(str) /\ str[k] = T[s][t + 1]
Inside(d, T, s, t, str, k) == Reads(d, T, s, t, str, k) /\ t + 1 < Len(T[s])
AtLeaf(d, T, s, t, str, k) == Reads(d, T, s, t, str, k) /\ t + 1 = Len(T[s])

\* A turn on the way to a leaf.
LEMMA TurnInside ==
    ASSUME NEW d, NEW T, NEW s, NEW t, NEW str, NEW k, Inside(d, T, s, t, str, k),
           NEW size, NEW r, NEW out
    PROVE  DecodeBit(d, size, str, Node(k, First(T[s], t), r, out)) = Node(k + 1, First(T[s], t + 1), r, out)
  <1>0. /\ T = d.tree.code /\ d.eof # NoCode
        /\ IsPrefixCode(T) /\ s \in DOMAIN T /\ t \in Nat /\ t < Len(T[s])
        /\ Len(str) \in Nat /\ k \in 1..Len(str) /\ str[k] = T[s][t + 1]
    BY DEF Reads, Inside, AtLeaf
  <1>1. PICK w : w = Node(k, First(T[s], t), r, out)
    OBVIOUS
  <1>2. w.how = "hangs" /\ w.k = k /\ w.n = First(T[s], t) /\ w.r = r /\ w.out = out
    BY <1>1 DEF Node
  <1>3. T[s] \in Seq({0, 1}) /\ Len(T[s]) \in Nat
    BY <1>0 DEF IsPrefixCode
  <1>4. ~\E u \in DOMAIN T : T[u] = w.n
    <2>1. {u \in DOMAIN T : T[u] = First(T[s], t)} = {}
      BY <1>0, NoLeafBefore
    <2> QED BY <1>2, <2>1
  <1>5. Append(w.n, str[w.k]) = First(T[s], t + 1)
    <2>1. t + 1 \in 1..Len(T[s]) /\ (t + 1) - 1 = t
      BY <1>0, <1>3
    <2>2. Append(First(T[s], (t + 1) - 1), T[s][t + 1]) = First(T[s], t + 1)
      BY <1>3, <2>1, Firsts
    <2> QED BY <1>0, <1>2, <2>1, <2>2
  <1>6. {u \in DOMAIN T : T[u] = First(T[s], t + 1)} = {}
    BY <1>0, NoLeafBefore DEF Inside
  <1>7. ~(w.how = "returns" \/ w.k > Len(str))
    BY <1>0, <1>2
  <1>8. DecodeBit(d, size, str, w) = Inner(w, First(T[s], t + 1))
    BY <1>0, <1>4, <1>5, <1>6, <1>7, Zenon DEF DecodeBit, Inner
  <1>9. Inner(w, First(T[s], t + 1)) = Node(k + 1, First(T[s], t + 1), r, out)
    BY <1>1, Changes
  <1> QED BY <1>1, <1>8, <1>9

\* v is what the leaf of s makes of the state; the next bit is bit k.
Arrives(d, s, k, r, out, str, v) ==
    /\ s \in Ends(d) => v.how = "returns" /\ v.r = r + 1 /\ v.out = out
    /\ s \notin Ends(d) /\ s \in Escapes(d) => v = Node(k + Bits, <<>>, r + 1, Append(out, ByteAt(str, k)))
    /\ s \notin Ends(d) /\ s \notin Escapes(d) => v = Node(k, <<>>, r + 1, Append(out, s))

\* The turn that comes to the leaf of s.
LEMMA TurnAtLeaf ==
    ASSUME NEW d, NEW T, NEW s, NEW t, NEW str, NEW k, AtLeaf(d, T, s, t, str, k), NEW size, NEW r, NEW out
    PROVE  Arrives(d, s, k + 1, r, out, str, DecodeBit(d, size, str, Node(k, First(T[s], t), r, out)))
  <1>1. PICK w : w = Node(k, First(T[s], t), r, out)
    OBVIOUS
  <1>0. /\ T = d.tree.code /\ d.eof # NoCode
        /\ IsPrefixCode(T) /\ s \in DOMAIN T /\ t \in Nat /\ t < Len(T[s])
        /\ Len(str) \in Nat /\ k \in 1..Len(str) /\ str[k] = T[s][t + 1]
    BY DEF Reads, Inside, AtLeaf
  <1>2. w.how = "hangs" /\ w.k = k /\ w.n = First(T[s], t) /\ w.r = r /\ w.out = out
    BY <1>1 DEF Node
  <1>3. T[s] \in Seq({0, 1}) /\ Len(T[s]) \in Nat
    BY <1>0 DEF IsPrefixCode
  <1>4. ~\E u \in DOMAIN T : T[u] = w.n
    <2>1. {u \in DOMAIN T : T[u] = First(T[s], t)} = {}
      BY <1>0, NoLeafBefore
    <2> QED BY <1>2, <2>1
  <1>5. Append(w.n, str[w.k]) = T[s]
    <2>1. t + 1 \in 1..Len(T[s]) /\ (t + 1) - 1 = t
      BY <1>0, <1>3
    <2>2. Append(First(T[s], (t + 1) - 1), T[s][t + 1]) = First(T[s], t + 1)
      BY <1>3, <2>1, Firsts
    <2>3. First(T[s], Len(T[s])) = T[s]
      BY <1>3, Firsts
    <2>4. t + 1 = Len(T[s])
      BY DEF AtLeaf
    <2> QED BY <1>0, <1>2, <2>1, <2>2, <2>3, <2>4
  <1>6. {u \in DOMAIN T : T[u] = T[s]} = {s}
    BY <1>0, OneLeaf
  <1>7. ~(w.how = "returns" \/ w.k > Len(str))
    BY <1>0, <1>2
  <1> DEFINE m == IF \E u \in DOMAIN T : T[u] = w.n THEN w.n ELSE Append(w.n, str[w.k])
             leaf == {u \in DOMAIN T : T[u] = m}
             full == d.eof = NoCode /\ w.r + 1 >= size
             I == Inner(w, m)
             L == Gone(w)
             G == Took(w, w.k + 1 + Bits, Root(str[w.k]), ByteAt(str, w.k + 1))
             H == Took(w, w.k + 1, Root(str[w.k]), CHOOSE u \in leaf : TRUE)
  <1>9. DecodeBit(d, size, str, w) =
            CASE leaf = {} -> I
              [] leaf # {} /\ (full \/ leaf \subseteq Ends(d)) -> L
              [] leaf # {} /\ ~full /\ ~(leaf \subseteq Ends(d)) /\ leaf \subseteq Escapes(d) -> G
              [] OTHER -> H
    BY <1>0, <1>7, Zenon DEF DecodeBit, Inner, Gone, Took
  <1>10. m = T[s]
    BY <1>4, <1>5, Zenon
  <1> HIDE DEF m
  <1>11. leaf = {s}
    BY <1>6, <1>10, Zenon
  <1>14. ~full
    BY <1>0
  <1> HIDE DEF leaf, full, I, L, G, H
  <1>12. (CHOOSE u \in {s} : TRUE) = s
    OBVIOUS
  <1>13. /\ L = Leaves(k, First(T[s], t), r + 1, out)
         /\ G = Node(k + 1 + Bits, <<>>, r + 1, Append(out, ByteAt(str, k + 1)))
         /\ H = Node(k + 1, <<>>, r + 1, Append(out, s))
    <2>1. L = Gone(w) /\ G = Took(w, k + 1 + Bits, <<>>, ByteAt(str, k + 1)) /\ H = Took(w, k + 1, <<>>, s)
      BY <1>2, <1>11, <1>12, Zenon DEF Root, L, G, H
    <2> QED BY <1>1, <2>1, Changes
  <1>15. CASE s \in Ends(d)
    <2>1. DecodeBit(d, size, str, w) = L
      BY <1>9, <1>11, <1>15
    <2>2. L.how = "returns" /\ L.r = r + 1 /\ L.out = out
      BY <1>13 DEF Leaves
    <2> QED BY <1>1, <1>15, <2>1, <2>2, Zenon DEF Arrives
  <1>16. CASE s \notin Ends(d) /\ s \in Escapes(d)
    <2>1. DecodeBit(d, size, str, w) = G
      BY <1>9, <1>11, <1>14, <1>16
    <2> QED BY <1>1, <1>13, <1>16, <2>1, Zenon DEF Arrives
  <1>17. CASE s \notin Ends(d) /\ s \notin Escapes(d)
    <2>1. DecodeBit(d, size, str, w) = H
      BY <1>9, <1>11, <1>14, <1>17
    <2> QED BY <1>1, <1>13, <1>17, <2>1, Zenon DEF Arrives
  <1> QED BY <1>15, <1>16, <1>17, Zenon

\* After j turns the decoder is at the root and the code of s begins at bit k.
Lies(f, d, T, s, size, str, j, k) ==
    /\ T = d.tree.code /\ d.eof # NoCode /\ IsPrefixCode(T) /\ s \in DOMAIN T /\ T[s] # <<>>
    /\ Len(str) \in Nat /\ Walks(f, d, size, str)
    /\ j \in Nat /\ k \in Nat \ {0} /\ j < k /\ k + Len(T[s]) - 1 <= Len(str)
    /\ \A i \in 1..Len(T[s]) : str[k + i - 1] = T[s][i]

\* The turns over one code.
LEMMA WalkCode ==
    ASSUME NEW f, NEW d, NEW T, NEW s, NEW size, NEW str, NEW j, NEW k, Lies(f, d, T, s, size, str, j, k),
           NEW r, NEW out, f[j] = Node(k, <<>>, r, out)
    PROVE  Arrives(d, s, k + Len(T[s]), r, out, str, f[j + Len(T[s])])
  <1>00. /\ T = d.tree.code /\ d.eof # NoCode /\ IsPrefixCode(T) /\ s \in DOMAIN T /\ T[s] # <<>>
         /\ Len(str) \in Nat /\ Walks(f, d, size, str)
         /\ j \in Nat /\ k \in Nat \ {0} /\ j < k /\ k + Len(T[s]) - 1 <= Len(str)
         /\ \A i \in 1..Len(T[s]) : str[k + i - 1] = T[s][i]
    BY Zenon DEF Lies
  <1> USE <1>00
  <1>1. T[s] \in Seq({0, 1})
    BY DEF IsPrefixCode
  <1>2. PICK l \in Nat : l = Len(T[s]) /\ l # 0
    BY <1>1, EmptySeq
  <1>3. PICK c \in Nat : c = Len(str)
    OBVIOUS
  <1>0. j < k /\ k + l - 1 <= c
    BY <1>2, <1>3
  <1> DEFINE P == {i \in Nat : i < l => f[j + i] = Node(k + i, First(T[s], i), r, out)}
  <1>4. 0 \in P
    <2>1. First(T[s], 0) = <<>> /\ j + 0 = j /\ k + 0 = k
      BY <1>1, Firsts
    <2> QED BY <2>1
  <1>5. ASSUME NEW i \in Nat, i \in P PROVE i + 1 \in P
    <2> SUFFICES ASSUME i + 1 < l PROVE f[j + (i + 1)] = Node(k + (i + 1), First(T[s], i + 1), r, out)
      OBVIOUS
    <2>1. f[j + i] = Node(k + i, First(T[s], i), r, out)
      BY <1>5
    <2>2. j + (i + 1) \in 1..c /\ (j + (i + 1)) - 1 = j + i /\ k + i \in 1..c
      BY <1>0
    <2>3. f[j + (i + 1)] = DecodeBit(d, size, str, f[j + i])
      BY <1>3, <2>2 DEF Walks
    <2>4. str[k + i] = T[s][i + 1]
      <3>1. i + 1 \in 1..l /\ k + (i + 1) - 1 = k + i
        OBVIOUS
      <3> QED BY <1>2, <3>1
    <2>5. DecodeBit(d, size, str, Node(k + i, First(T[s], i), r, out)) = Node((k + i) + 1, First(T[s], i + 1), r, out)
      <3>1. i + 1 < Len(T[s]) /\ k + i \in 1..Len(str)
        BY <1>2, <1>3, <2>2
      <3>2. Inside(d, T, s, i, str, k + i)
        BY <2>4, <3>1 DEF Reads, Inside
      <3> QED BY <3>1, <3>2, TurnInside
    <2>6. (k + i) + 1 = k + (i + 1)
      OBVIOUS
    <2> QED BY <2>1, <2>3, <2>5, <2>6
  <1>6. \A i \in Nat : i \in P
    <2> HIDE DEF P
    <2> QED BY <1>4, <1>5, Induction
  <1>7. PICK t \in Nat : t + 1 = l
    <2>1. l - 1 \in Nat /\ (l - 1) + 1 = l
      BY <1>2
    <2> QED BY <2>1
  <1>8. f[j + t] = Node(k + t, First(T[s], t), r, out)
    BY <1>6, <1>7
  <1>9. j + l \in 1..c /\ (j + l) - 1 = j + t /\ k + t \in 1..c /\ (k + t) + 1 = k + l
    BY <1>0, <1>7
  <1>10. f[j + l] = DecodeBit(d, size, str, f[j + t])
    BY <1>3, <1>9 DEF Walks
  <1>11. str[k + t] = T[s][t + 1]
    <2>1. t + 1 \in 1..l /\ k + (t + 1) - 1 = k + t
      BY <1>7
    <2> QED BY <1>2, <2>1
  <1>12. AtLeaf(d, T, s, t, str, k + t)
    <2>1. t + 1 = Len(T[s]) /\ k + t \in 1..Len(str)
      BY <1>2, <1>3, <1>7, <1>9
    <2> QED BY <1>11, <2>1 DEF Reads, AtLeaf
  <1>13. Arrives(d, s, (k + t) + 1, r, out, str, DecodeBit(d, size, str, Node(k + t, First(T[s], t), r, out)))
    BY <1>12, TurnAtLeaf
  <1> QED BY <1>2, <1>8, <1>9, <1>10, <1>13, Zenon

-----------------------------------------------------------------------------
(* What the encoder writes is what the decoder reads. *)

\* The codes of d, its end being that of e.
Coding(d, T, e) ==
    /\ T = d.tree.code /\ IsPrefixCode(T) /\ e \in DOMAIN T /\ d.eof = T[e]
    /\ d.esc = <<>> \/ d.esc \in Range(T)

\* What set_code_flag() marks: one leaf each, or none.
LEMMA Marks ==
    ASSUME NEW d, NEW T, NEW e, Coding(d, T, e)
    PROVE  /\ d.eof # NoCode /\ Ends(d) = {e}
           /\ d.esc = <<>> => Escapes(d) = {}
           /\ d.esc # <<>> => \E x \in DOMAIN T : d.esc = T[x] /\ Escapes(d) = {x}
           /\ T[e] # <<>> => \A s \in DOMAIN T : T[s] # <<>>
  <1>0. /\ T = d.tree.code /\ IsPrefixCode(T) /\ e \in DOMAIN T /\ d.eof = T[e]
        /\ d.esc = <<>> \/ d.esc \in Range(T)
    BY Zenon DEF Coding
  <1>1. d.eof # NoCode
    <2>1. T[e] \in Seq({0, 1})
      BY <1>0 DEF IsPrefixCode
    <2>2. NoCode[1] = -1 /\ Len(NoCode) = 1
      BY DEF NoCode
    <2>3. ASSUME T[e] = NoCode PROVE FALSE
      <3>1. Len(T[e]) = 1 /\ T[e][1] = -1
        BY <2>2, <2>3, Zenon
      <3>2. T[e][1] \in {0, 1}
        BY <2>1, <3>1
      <3> QED BY <3>1, <3>2
    <2> QED BY <1>0, <2>3
  <1>2. Ends(d) = {e}
    <2>1. {u \in DOMAIN T : IsPrefix(T[u], T[e])} = {e}
      BY <1>0, OneLeaf
    <2> QED BY <1>0, <1>1, <2>1, Zenon DEF Ends, find_code
  <1>3. d.esc = <<>> => Escapes(d) = {}
    BY Zenon DEF Escapes
  <1>4. ASSUME d.esc # <<>> PROVE \E x \in DOMAIN T : d.esc = T[x] /\ Escapes(d) = {x}
    <2>1. PICK x \in DOMAIN T : d.esc = T[x]
      BY <1>0, <1>4, Zenon DEF Range
    <2>2. {u \in DOMAIN T : IsPrefix(T[u], T[x])} = {x}
      BY <1>0, OneLeaf
    <2>3. Escapes(d) = {x}
      BY <1>0, <1>4, <2>1, <2>2, Zenon DEF Escapes, find_code
    <2> QED BY <2>1, <2>3
  <1>5. ASSUME T[e] # <<>>, NEW s \in DOMAIN T, T[s] = <<>> PROVE FALSE
    <2>1. s # e
      BY <1>5
    <2>2. T[e] \in Seq({0, 1})
      BY <1>0 DEF IsPrefixCode
    <2>3. First(T[e], 0) = <<>>
      BY <2>2, Firsts
    <2>4. Len(T[s]) = 0
      BY <1>5
    <2>5. SubSeq(T[s], 1, 0) = <<>>
      BY <1>5, SubSeqEmpty
    <2>6. 0 <= Len(T[e])
      BY <2>2
    <2>7. IsPrefix(T[s], T[e])
      BY <2>3, <2>4, <2>5, <2>6 DEF IsPrefix, First
    <2> QED BY <1>0, <2>1, <2>7 DEF IsPrefixCode
  <1> QED BY <1>1, <1>2, <1>3, <1>4, <1>5

\* p is the code of c alone, which stands for v; or that of c, an escape, and the bits of b.
Codeword(d, T, v, p, c, b) ==
    /\ c \in DOMAIN T
    /\ \/ p = T[c] /\ c = v /\ c \notin Escapes(d)
       \/ b \in Byte /\ p = T[c] \o ToBits(b) /\ c \in Escapes(d) /\ (v \in DOMAIN T => b = v /\ T[v] = T[c])

LEMMA Codewords ==
    ASSUME NEW d, NEW T, NEW e, Coding(d, T, e), T[e] # <<>>, NEW v \in Byte, v \in DOMAIN T \/ d.esc # <<>>
    PROVE  \E c, b : Codeword(d, T, v, CodeOf(T, d.esc, v), c, b)
  <1>1. 0 \in Byte
    <2>1. PICK n \in Nat \ {0} : n = 2^Bits
      BY BitsAssumption, Powers
    <2> QED BY <2>1 DEF Byte
  <1>2. CASE v \notin DOMAIN T
    <2>1. PICK x \in DOMAIN T : d.esc = T[x] /\ Escapes(d) = {x}
      BY <1>2, Marks
    <2>2. CodeOf(T, d.esc, v) = T[x] \o ToBits(0)
      BY <1>2, <2>1, Zenon DEF CodeOf
    <2>3. Codeword(d, T, v, CodeOf(T, d.esc, v), x, 0)
      BY <1>1, <1>2, <2>1, <2>2, Zenon DEF Codeword
    <2> QED BY <2>3
  <1>3. CASE v \in DOMAIN T /\ T[v] = d.esc
    <2>1. PICK x \in DOMAIN T : d.esc = T[x] /\ Escapes(d) = {x}
      BY <1>3, Marks
    <2>2. CodeOf(T, d.esc, v) = T[x] \o ToBits(v)
      BY <1>3, <2>1, Zenon DEF CodeOf
    <2>3. Codeword(d, T, v, CodeOf(T, d.esc, v), x, v)
      BY <1>3, <2>1, <2>2, Zenon DEF Codeword
    <2> QED BY <2>3
  <1>4. CASE v \in DOMAIN T /\ T[v] # d.esc
    <2>1. CodeOf(T, d.esc, v) = T[v]
      BY <1>4, Zenon DEF CodeOf
    <2>2. v \notin Escapes(d)
      BY <1>4, Marks
    <2>3. Codeword(d, T, v, CodeOf(T, d.esc, v), v, v)
      BY <1>4, <2>1, <2>2, Zenon DEF Codeword
    <2> QED BY <2>3
  <1> QED BY <1>2, <1>3, <1>4

\* p is in the stream, after bit a.
Fits(str, a, p) == a \in Nat /\ a + Len(p) <= Len(str) /\ \A q \in 1..Len(p) : str[a + q] = p[q]

\* A codeword as two sequences.
Shape(d, T, v, p, c, b) ==
    /\ T[c] \in Seq({0, 1}) /\ p \in Seq({0, 1}) /\ Len(T[c]) <= Len(p)
    /\ \A i \in 1..Len(T[c]) : p[i] = T[c][i]
    /\ c \notin Escapes(d) => c = v /\ Len(p) = Len(T[c])
    /\ c \in Escapes(d) => /\ b \in Byte /\ (v \in DOMAIN T => b = v /\ T[v] = T[c]) /\ Len(p) = Len(T[c]) + Bits
                           /\ \A k \in 1..Bits : p[Len(T[c]) + k] = ToBits(b)[k]

LEMMA CodewordIs ==
    ASSUME NEW d, NEW T, IsPrefixCode(T), NEW v, NEW p, NEW c, NEW b, Codeword(d, T, v, p, c, b)
    PROVE  Shape(d, T, v, p, c, b)
  <1>1. T[c] \in Seq({0, 1}) /\ Len(T[c]) \in Nat
    BY DEF Codeword, IsPrefixCode
  <1>2. CASE p = T[c] /\ c = v /\ c \notin Escapes(d)
    BY <1>1, <1>2 DEF Shape
  <1>3. CASE b \in Byte /\ p = T[c] \o ToBits(b) /\ c \in Escapes(d) /\ (v \in DOMAIN T => b = v /\ T[v] = T[c])
    <2>1. PICK B \in Nat : B = Bits
      BY BitsAssumption
    <2>2. ToBits(b) \in Seq({0, 1}) /\ Len(ToBits(b)) = B
      <3>1. b \in Nat
        <4>1. PICK n \in Nat \ {0} : n = 2^Bits
          BY BitsAssumption, Powers
        <4> QED BY <1>3, <4>1 DEF Byte
      <3>2. \A k \in 1..B : Bit(b, k) \in {0, 1}
        BY <3>1, Halved
      <3>3. ToBits(b) = [k \in 1..B |-> Bit(b, k)]
        BY <2>1 DEF ToBits
      <3> QED BY <3>2, <3>3
    <2>3. PICK u \in Seq({0, 1}) : u = ToBits(b) /\ Len(u) = B
      BY <2>2
    <2>4. PICK t \in Seq({0, 1}) : t = T[c]
      BY <1>1
    <2>5. p = t \o u
      BY <1>3, <2>3, <2>4, Zenon
    <2>6. /\ p \in Seq({0, 1}) /\ Len(p) = Len(t) + B /\ \A i \in 1..Len(t) : p[i] = t[i]
          /\ \A k \in 1..B : p[Len(t) + k] = u[k]
      <3>1. PICK lt \in Nat : lt = Len(t)
        OBVIOUS
      <3>2. /\ p \in Seq({0, 1}) /\ Len(p) = lt + B
            /\ \A i \in 1..(lt + B) : p[i] = IF i <= lt THEN t[i] ELSE u[i - lt]
        BY <2>3, <2>5, <3>1, ConcatProperties
      <3>3. \A i \in 1..lt : i \in 1..(lt + B) /\ i <= lt
        OBVIOUS
      <3>4. \A k \in 1..B : lt + k \in 1..(lt + B) /\ ~(lt + k <= lt) /\ (lt + k) - lt = k
        OBVIOUS
      <3>5. \A k \in 1..B : p[lt + k] = u[k]
        <4> TAKE k \in 1..B
        <4>1. p[lt + k] = IF lt + k <= lt THEN t[lt + k] ELSE u[(lt + k) - lt]
          BY <3>2, <3>4, Zenon
        <4> QED BY <3>4, <4>1
      <3>6. \A i \in 1..lt : p[i] = t[i]
        BY <3>2, <3>3
      <3> QED BY <3>1, <3>2, <3>5, <3>6
    <2>7. Len(t) <= Len(p)
      BY <2>6
    <2> QED BY <1>3, <2>1, <2>3, <2>4, <2>6, <2>7, Zenon DEF Shape
  <1> QED BY <1>2, <1>3 DEF Codeword

\* What the decoder makes of the codeword of v, w after it.
Read(d, T, v, w, k, r, out) ==
    \/ w.how = "returns" /\ (v \notin DOMAIN T \/ T[v] = d.eof)
    \/ \E x : w = Node(k, <<>>, r + 1, Append(out, x)) /\ (v \in DOMAIN T => x = v)

\* The turns over one codeword.
LEMMA WalkCodeword ==
    ASSUME NEW d, NEW T, NEW e, Coding(d, T, e), T[e] # <<>>, NEW v, NEW p, NEW c, NEW b, Codeword(d, T, v, p, c, b),
           NEW f, NEW size, NEW str, Len(str) \in Nat, Walks(f, d, size, str), NEW a, Fits(str, a, p),
           NEW j \in 0..a, NEW r, NEW out, f[j] = Node(a + 1, <<>>, r, out)
    PROVE  \E i \in 0..(a + Len(p)) : Read(d, T, v, f[i], a + Len(p) + 1, r, out)
  <1>0. /\ T = d.tree.code /\ IsPrefixCode(T) /\ e \in DOMAIN T /\ d.eof = T[e] /\ c \in DOMAIN T /\ a \in Nat
        /\ d.eof # NoCode /\ Ends(d) = {e} /\ T[c] # <<>>
    BY Marks, Zenon DEF Coding, Codeword, Fits
  <1>1. /\ T[c] \in Seq({0, 1}) /\ p \in Seq({0, 1}) /\ Len(T[c]) <= Len(p)
        /\ \A i \in 1..Len(T[c]) : p[i] = T[c][i]
        /\ c \notin Escapes(d) => c = v /\ Len(p) = Len(T[c])
        /\ c \in Escapes(d) => /\ b \in Byte /\ (v \in DOMAIN T => b = v /\ T[v] = T[c]) /\ Len(p) = Len(T[c]) + Bits
                               /\ \A k \in 1..Bits : p[Len(T[c]) + k] = ToBits(b)[k]
    <2>1. Shape(d, T, v, p, c, b)
      BY <1>0, CodewordIs
    <2> QED BY <2>1, Zenon DEF Shape
  <1>2. PICK l \in Nat, m \in Nat, n \in Nat : l = Len(T[c]) /\ m = Len(p) /\ n = Len(str) /\ l <= m
    BY <1>1
  <1>3. a + m <= n /\ \A q \in 1..m : str[a + q] = p[q]
    BY <1>2 DEF Fits
  <1>4. Lies(f, d, T, c, size, str, j, a + 1)
    <2>1. \A i \in 1..l : str[(a + 1) + i - 1] = T[c][i]
      <3> TAKE i \in 1..l
      <3>1. i \in 1..m /\ (a + 1) + i - 1 = a + i
        BY <1>0, <1>2
      <3> QED BY <1>1, <1>2, <1>3, <3>1
    <2>2. (a + 1) + l - 1 <= n /\ a + 1 \in Nat \ {0} /\ j \in Nat /\ j < a + 1
      <3>1. a \in Nat /\ l <= m /\ a + m <= n
        BY <1>0, <1>2, <1>3, Zenon
      <3>2. (a + 1) + l - 1 <= n
        BY <3>1
      <3> QED BY <3>1, <3>2
    <2> QED BY <1>0, <1>2, <2>1, <2>2, Zenon DEF Lies
  <1>5. PICK i \in 0..(a + m) : i = j + l
    BY <1>0, <1>2
  <1>6. PICK k \in Nat : k = (a + 1) + l
    BY <1>0
  <1>7. Arrives(d, c, k, r, out, str, f[i])
    BY <1>2, <1>4, <1>5, <1>6, WalkCode
  <1> SUFFICES Read(d, T, v, f[i], a + m + 1, r, out)
    BY <1>2
  <1>8. CASE c \in Ends(d)
    <2>1. f[i].how = "returns"
      BY <1>7, <1>8, Zenon DEF Arrives
    <2>2. c = e
      BY <1>0, <1>8
    <2>3. v \notin DOMAIN T \/ T[v] = d.eof
      BY <1>0, <1>1, <2>2, Zenon
    <2> QED BY <2>1, <2>3, Zenon DEF Read
  <1>9. CASE c \notin Ends(d) /\ c \in Escapes(d)
    <2>1. f[i] = Node(k + Bits, <<>>, r + 1, Append(out, ByteAt(str, k)))
      BY <1>7, <1>9, Zenon DEF Arrives
    <2>2. PICK B \in Nat : B = Bits
      BY BitsAssumption
    <2>3. m = l + B /\ k + B = a + m + 1 /\ b \in Byte
      <3>1. m = l + B /\ b \in Byte /\ a \in Nat
        BY <1>0, <1>1, <1>2, <1>9, <2>2, Zenon
      <3>2. k + B = a + m + 1
        BY <1>6, <3>1
      <3> QED BY <3>1, <3>2
    <2>4. ByteAt(str, k) = b
      <3>1. ASSUME NEW q \in 1..B PROVE At(str, k + q - 1) = ToBits(b)[q]
        <4>1. k + q - 1 = a + (l + q) /\ l + q \in 1..m /\ k + q - 1 <= n
          BY <1>0, <1>3, <1>6, <2>3
        <4>2. At(str, k + q - 1) = str[k + q - 1]
          BY <1>2, <4>1, Zenon DEF At
        <4>3. str[k + q - 1] = p[l + q]
          BY <1>3, <4>1
        <4>4. p[l + q] = ToBits(b)[q]
          BY <1>1, <1>2, <1>9, <2>2
        <4> QED BY <4>2, <4>3, <4>4
      <3> QED BY <2>2, <2>3, <3>1, ByteRead
    <2>5. v \in DOMAIN T => b = v
      BY <1>1, <1>9, Zenon
    <2> QED BY <2>1, <2>2, <2>3, <2>4, <2>5, Zenon DEF Read
  <1>10. CASE c \notin Ends(d) /\ c \notin Escapes(d)
    <2>1. f[i] = Node(k, <<>>, r + 1, Append(out, c))
      BY <1>7, <1>10, Zenon DEF Arrives
    <2>2. m = l /\ c = v
      BY <1>1, <1>2, <1>10, Zenon
    <2>3. k = a + m + 1
      BY <1>0, <1>6, <2>2
    <2> QED BY <2>1, <2>2, <2>3, Zenon DEF Read
  <1> QED BY <1>8, <1>9, <1>10

\* What the encoder writes is bits.
LEMMA CodeOfIs ==
    ASSUME NEW d, NEW T, NEW e, Coding(d, T, e), NEW v \in Byte
    PROVE  CodeOf(T, d.esc, v) \in Seq({0, 1})
  <1>0. IsPrefixCode(T) /\ (d.esc = <<>> \/ d.esc \in Range(T))
    BY Zenon DEF Coding
  <1>1. d.esc \in Seq({0, 1})
    <2>1. CASE d.esc = <<>>
      <3>1. <<>> \in Seq({0, 1})
        OBVIOUS
      <3> QED BY <2>1, <3>1, Zenon
    <2>2. CASE d.esc \in Range(T)
      <3>1. PICK x \in DOMAIN T : d.esc = T[x]
        BY <2>2, Zenon DEF Range
      <3> QED BY <1>0, <3>1, Zenon DEF IsPrefixCode
    <2> QED BY <1>0, <2>1, <2>2
  <1>2. v \in Nat /\ 0 \in Nat
    <2>1. PICK n \in Nat \ {0} : n = 2^Bits
      BY BitsAssumption, Powers
    <2> QED BY <2>1 DEF Byte
  <1>3. ASSUME NEW b \in Nat PROVE d.esc \o ToBits(b) \in Seq({0, 1})
    <2>1. PICK B \in Nat : B = Bits
      BY BitsAssumption
    <2>2. \A k \in 1..B : Bit(b, k) \in {0, 1}
      BY Halved
    <2>3. ToBits(b) = [k \in 1..B |-> Bit(b, k)]
      BY <2>1 DEF ToBits
    <2>4. ToBits(b) \in Seq({0, 1})
      BY <2>2, <2>3
    <2> QED BY <1>1, <2>4, ConcatProperties
  <1>4. v \in DOMAIN T => T[v] \in Seq({0, 1})
    BY <1>0, Zenon DEF IsPrefixCode
  <1>5. \/ v \notin DOMAIN T /\ CodeOf(T, d.esc, v) = d.esc \o ToBits(0)
        \/ v \in DOMAIN T /\ CodeOf(T, d.esc, v) = d.esc \o ToBits(v)
        \/ v \in DOMAIN T /\ CodeOf(T, d.esc, v) = T[v]
    <2>1. CASE v \notin DOMAIN T
      BY <2>1, Zenon DEF CodeOf
    <2>2. CASE v \in DOMAIN T /\ T[v] = d.esc
      BY <2>2, Zenon DEF CodeOf
    <2>3. CASE v \in DOMAIN T /\ T[v] # d.esc
      BY <2>3, Zenon DEF CodeOf
    <2> QED BY <2>1, <2>2, <2>3
  <1>6. d.esc \o ToBits(0) \in Seq({0, 1}) /\ d.esc \o ToBits(v) \in Seq({0, 1})
    BY <1>2, <1>3
  <1> QED BY <1>4, <1>5, <1>6, Zenon

\* What the encoder makes of data, with where each codeword lies.
Laid(T, d, e, data, bits, g) ==
    /\ bits \in Seq({0, 1})
    /\ g \in [0..Len(data) -> Nat] /\ g[0] = 0 /\ Len(bits) = g[Len(data)] + Len(T[e])
    /\ \A i \in 1..Len(data) :
          LET p == CodeOf(T, d.esc, data[i])
          IN g[i] = g[i - 1] + Len(p) /\ g[i] <= g[Len(data)] /\ \A q \in 1..Len(p) : bits[g[i - 1] + q] = p[q]
    /\ \A q \in 1..Len(T[e]) : bits[g[Len(data)] + q] = T[e][q]

LEMMA Lays ==
    ASSUME NEW d, NEW T, NEW e, Coding(d, T, e), NEW data \in Seq(Byte)
    PROVE  \E g : Laid(T, d, e, data, compress_buffer(T, d.esc, d.eof, data), g)
  <1>1. PICK n \in Nat : n = Len(data)
    OBVIOUS
  <1>2. PICK s : s = [i \in 1..n |-> CodeOf(T, d.esc, data[i])]
    OBVIOUS
  <1>3. \A i \in 1..n : s[i] = CodeOf(T, d.esc, data[i]) /\ s[i] \in Seq({0, 1})
    <2> TAKE i \in 1..n
    <2>1. s[i] = CodeOf(T, d.esc, data[i]) /\ data[i] \in Byte
      BY <1>1, <1>2
    <2>2. CodeOf(T, d.esc, data[i]) \in Seq({0, 1})
      BY <2>1, CodeOfIs
    <2> QED BY <2>1, <2>2, Zenon
  <1>4. s \in Seq(Seq({0, 1})) /\ Len(s) = n
    <2>1. s \in [1..n -> Seq({0, 1})]
      BY <1>2, <1>3
    <2> QED BY <2>1
  <1>5. PICK h : Joints(h, s, {0, 1}) /\ FlattenSeq(s) = h[n]
    BY <1>4, Flattened
  <1>6. Placed(h, s)
    BY <1>4, <1>5, Places
  <1>7. \A i \in 0..n : h[i] \in Seq({0, 1}) /\ Len(h[i]) \in Nat
    <2>1. \A i \in 0..n : h[i] \in Seq({0, 1})
      BY <1>4, <1>5 DEF Joints
    <2> QED BY <2>1
  <1>8. T[e] \in Seq({0, 1}) /\ d.eof = T[e] /\ d.eof # NoCode
    BY Marks DEF Coding, IsPrefixCode
  <1>9. PICK bits : bits = compress_buffer(T, d.esc, d.eof, data)
    OBVIOUS
  <1>10. bits = h[n] \o T[e]
    BY <1>1, <1>2, <1>5, <1>8, <1>9, Zenon DEF compress_buffer
  <1>11. PICK m \in Nat, l \in Nat : m = Len(h[n]) /\ l = Len(T[e])
    BY <1>7, <1>8
  <1>12. /\ bits \in Seq({0, 1}) /\ Len(bits) = m + l
         /\ \A i \in 1..(m + l) : bits[i] = IF i <= m THEN h[n][i] ELSE T[e][i - m]
    <2>1. PICK a \in Seq({0, 1}), c \in Seq({0, 1}) : a = h[n] /\ c = T[e]
      <3>1. n \in 0..n
        OBVIOUS
      <3> QED BY <1>7, <1>8, <3>1
    <2>2. bits = a \o c /\ m = Len(a) /\ l = Len(c)
      BY <1>10, <1>11, <2>1, Zenon
    <2>3. /\ bits \in Seq({0, 1}) /\ Len(bits) = m + l
          /\ \A i \in 1..(m + l) : bits[i] = IF i <= m THEN a[i] ELSE c[i - m]
      BY <2>2, ConcatProperties
    <2> QED BY <2>1, <2>3, Zenon
  <1>13. PICK g : g = [i \in 0..n |-> Len(h[i])]
    OBVIOUS
  <1>14. g \in [0..n -> Nat] /\ g[0] = 0 /\ g[n] = m /\ \A i \in 0..n : g[i] = Len(h[i])
    <2>1. Len(h[0]) = 0
      BY <1>5 DEF Joints
    <2> QED BY <1>7, <1>11, <1>13, <2>1
  <1>15. ASSUME NEW i \in 1..n
         PROVE  g[i] = g[i - 1] + Len(s[i]) /\ g[i] <= m /\ \A q \in 1..Len(s[i]) : bits[g[i - 1] + q] = s[i][q]
    <2>1. i \in 0..n /\ i - 1 \in 0..n /\ n \in 0..n /\ i \in 1..n
      OBVIOUS
    <2>2. /\ Len(h[i]) = Len(h[i - 1]) + Len(s[i]) /\ Len(h[i]) <= Len(h[n])
          /\ \A k \in 1..Len(s[i]) : h[n][Len(h[i - 1]) + k] = s[i][k]
      BY <1>4, <1>6, <2>1 DEF Placed
    <2>3. g[i] = g[i - 1] + Len(s[i]) /\ g[i] <= m
      BY <1>11, <1>14, <2>1, <2>2
    <2>4. ASSUME NEW q \in 1..Len(s[i]) PROVE bits[g[i - 1] + q] = s[i][q]
      <3>1. g[i - 1] \in Nat /\ Len(s[i]) \in Nat
        BY <1>3, <1>14, <2>1
      <3>2. g[i - 1] + q \in 1..(m + l) /\ g[i - 1] + q <= m
        BY <2>3, <3>1
      <3>3. bits[g[i - 1] + q] = h[n][g[i - 1] + q]
        BY <1>12, <3>2
      <3>4. g[i - 1] = Len(h[i - 1])
        BY <1>14, <2>1
      <3> QED BY <2>2, <3>3, <3>4
    <2> QED BY <2>3, <2>4
  <1>16. ASSUME NEW q \in 1..l PROVE bits[m + q] = T[e][q]
    <2>1. m + q \in 1..(m + l) /\ ~(m + q <= m) /\ (m + q) - m = q
      OBVIOUS
    <2> QED BY <1>12, <2>1
  <1>17. ASSUME NEW i \in 1..n
         PROVE  LET p == CodeOf(T, d.esc, data[i])
                IN g[i] = g[i - 1] + Len(p) /\ g[i] <= g[n] /\ \A q \in 1..Len(p) : bits[g[i - 1] + q] = p[q]
    BY <1>3, <1>14, <1>15, Zenon
  <1>18. Laid(T, d, e, data, bits, g)
    BY <1>1, <1>11, <1>12, <1>14, <1>16, <1>17, Zenon DEF Laid
  <1> QED BY <1>9, <1>18

\* The symbols of data that the decoder tells apart.
Tells(T, d, data) == \A m \in 1..Len(data) : data[m] \in DOMAIN T /\ T[data[m]] # d.eof

\* Some turns took the codewords of the first i bytes.
Reaches(f, T, d, data, g, i) ==
    \E j \in 0..g[i] :
        \/ f[j].how = "returns" /\ ~Tells(T, d, data)
        \/ \E o : f[j] = Node(g[i] + 1, <<>>, i, o) /\ (Tells(T, d, data) => o = First(data, i))

LEMMA ReachesNext ==
    ASSUME NEW d, NEW T, NEW e, Coding(d, T, e), T[e] # <<>>, NEW data \in Seq(Byte), NEW bits, NEW g,
           Laid(T, d, e, data, bits, g), \A m \in 1..Len(data) : data[m] \in DOMAIN T \/ d.esc # <<>>,
           NEW f, NEW size, NEW str, Len(str) \in Nat, Walks(f, d, size, str),
           Len(bits) <= Len(str), \A i \in 1..Len(bits) : str[i] = bits[i],
           NEW i \in Nat, i + 1 <= Len(data), Reaches(f, T, d, data, g, i)
    PROVE  Reaches(f, T, d, data, g, i + 1)
  <1>1. PICK n \in Nat : n = Len(data)
    OBVIOUS
  <1>2. i + 1 \in 1..n /\ (i + 1) - 1 = i /\ i \in 0..n /\ i + 1 \in 0..n
    BY <1>1
  <1>3. PICK v \in Byte : v = data[i + 1]
    BY <1>1, <1>2
  <1>4. PICK p : p = CodeOf(T, d.esc, v)
    OBVIOUS
  <1>5. p \in Seq({0, 1})
    BY <1>4, CodeOfIs
  <1>6. PICK a \in Nat, z \in Nat, l \in Nat, y \in Nat : a = g[i] /\ z = g[i + 1] /\ l = Len(p) /\ y = Len(bits)
    <2>1. g \in [0..n -> Nat] /\ bits \in Seq({0, 1})
      BY <1>1, Zenon DEF Laid
    <2>2. g[i] \in Nat /\ g[i + 1] \in Nat /\ Len(p) \in Nat /\ Len(bits) \in Nat
      BY <1>2, <1>5, <2>1
    <2> QED BY <2>2
  <1>7. z = a + l /\ z <= y /\ \A q \in 1..l : bits[a + q] = p[q]
    <2>1. LET pp == CodeOf(T, d.esc, data[i + 1])
          IN /\ g[i + 1] = g[(i + 1) - 1] + Len(pp) /\ g[i + 1] <= g[n]
             /\ \A q \in 1..Len(pp) : bits[g[(i + 1) - 1] + q] = pp[q]
      BY <1>1, <1>2, Zenon DEF Laid
    <2>2. g[i + 1] = g[(i + 1) - 1] + Len(p) /\ g[i + 1] <= g[n] /\ \A q \in 1..Len(p) : bits[g[(i + 1) - 1] + q] = p[q]
      BY <1>3, <1>4, <2>1, Zenon
    <2>3. z = a + l /\ z <= g[n] /\ \A q \in 1..l : bits[a + q] = p[q]
      BY <1>2, <1>6, <2>2, Zenon
    <2>4. g[n] \in Nat /\ Len(T[e]) \in Nat /\ y = g[n] + Len(T[e])
      <3>0. n \in 0..n
        OBVIOUS
      <3>1. g \in [0..n -> Nat] /\ Len(bits) = g[n] + Len(T[e])
        BY <1>1, Zenon DEF Laid
      <3>2. T[e] \in Seq({0, 1})
        BY Zenon DEF Coding, IsPrefixCode
      <3> QED BY <1>6, <3>0, <3>1, <3>2
    <2> QED BY <2>3, <2>4
  <1>8. Fits(str, a, p)
    <2>1. \A q \in 1..l : str[a + q] = p[q]
      <3> TAKE q \in 1..l
      <3>1. a + q \in 1..y
        BY <1>7
      <3> QED BY <1>6, <1>7, <3>1
    <2>2. a + l <= Len(str)
      BY <1>6, <1>7
    <2> QED BY <1>6, <2>1, <2>2, Zenon DEF Fits
  <1>9. PICK c, b : Codeword(d, T, v, p, c, b)
    BY <1>1, <1>2, <1>3, <1>4, Codewords
  <1>10. PICK j \in 0..a : \/ f[j].how = "returns" /\ ~Tells(T, d, data)
                           \/ \E o : f[j] = Node(a + 1, <<>>, i, o) /\ (Tells(T, d, data) => o = First(data, i))
    BY <1>6 DEF Reaches
  <1>11. CASE f[j].how = "returns" /\ ~Tells(T, d, data)
    <2>1. j \in 0..z
      BY <1>7
    <2> QED BY <1>6, <1>11, <2>1, Zenon DEF Reaches
  <1>12. CASE \E o : f[j] = Node(a + 1, <<>>, i, o) /\ (Tells(T, d, data) => o = First(data, i))
    <2>1. PICK o : f[j] = Node(a + 1, <<>>, i, o) /\ (Tells(T, d, data) => o = First(data, i))
      BY <1>12
    <2>2. PICK k \in 0..z : Read(d, T, v, f[k], z + 1, i, o)
      <3>1. \E k \in 0..(a + Len(p)) : Read(d, T, v, f[k], a + Len(p) + 1, i, o)
        BY <1>8, <1>9, <2>1, WalkCodeword, ZenonT(60)
      <3> QED BY <1>6, <1>7, <3>1, Zenon
    <2>3. CASE f[k].how = "returns" /\ (v \notin DOMAIN T \/ T[v] = d.eof)
      <3>1. ~Tells(T, d, data)
        BY <1>1, <1>2, <1>3, <2>3, Zenon DEF Tells
      <3> QED BY <1>6, <2>3, <3>1, Zenon DEF Reaches
    <2>4. CASE \E x : f[k] = Node(z + 1, <<>>, i + 1, Append(o, x)) /\ (v \in DOMAIN T => x = v)
      <3>1. PICK x : f[k] = Node(z + 1, <<>>, i + 1, Append(o, x)) /\ (v \in DOMAIN T => x = v)
        BY <2>4
      <3>2. ASSUME Tells(T, d, data) PROVE Append(o, x) = First(data, i + 1)
        <4>1. v \in DOMAIN T
          BY <1>1, <1>2, <1>3, <3>2, Zenon DEF Tells
        <4>2. Append(First(data, (i + 1) - 1), data[i + 1]) = First(data, i + 1)
          BY <1>1, <1>2, Firsts
        <4> QED BY <1>2, <1>3, <2>1, <3>1, <3>2, <4>1, <4>2, Zenon
      <3> QED BY <1>6, <3>1, <3>2, Zenon DEF Reaches
    <2> QED BY <2>2, <2>3, <2>4 DEF Read
  <1> QED BY <1>10, <1>11, <1>12

\* A tree of one leaf, which is the end: the first turn returns.
LEMMA OnlyEnd ==
    ASSUME NEW d, NEW T, NEW e, Coding(d, T, e), T[e] = <<>>, NEW size, NEW str, Len(str) \in Nat \ {0}
    PROVE  DecodeBit(d, size, str, Node(1, <<>>, 0, <<>>)) = Leaves(1, <<>>, 1, <<>>)
  <1>0. T = d.tree.code /\ IsPrefixCode(T) /\ e \in DOMAIN T /\ Ends(d) = {e}
    BY Marks, Zenon DEF Coding
  <1>1. PICK w : w = Node(1, <<>>, 0, <<>>)
    OBVIOUS
  <1>2. w.how = "hangs" /\ w.k = 1 /\ w.n = <<>>
    BY <1>1 DEF Node
  <1>3. \E u \in DOMAIN T : T[u] = w.n
    BY <1>0, <1>2, Zenon
  <1>4. {u \in DOMAIN T : T[u] = T[e]} = {e}
    BY <1>0, OneLeaf
  <1>5. ~(w.how = "returns" \/ w.k > Len(str))
    BY <1>2
  <1> DEFINE m == IF \E u \in DOMAIN T : T[u] = w.n THEN w.n ELSE Append(w.n, str[w.k])
             leaf == {u \in DOMAIN T : T[u] = m}
             full == d.eof = NoCode /\ w.r + 1 >= size
             I == Inner(w, m)
             L == Gone(w)
             G == Took(w, w.k + 1 + Bits, Root(str[w.k]), ByteAt(str, w.k + 1))
             H == Took(w, w.k + 1, Root(str[w.k]), CHOOSE u \in leaf : TRUE)
  <1>6. DecodeBit(d, size, str, w) =
            CASE leaf = {} -> I
              [] leaf # {} /\ (full \/ leaf \subseteq Ends(d)) -> L
              [] leaf # {} /\ ~full /\ ~(leaf \subseteq Ends(d)) /\ leaf \subseteq Escapes(d) -> G
              [] OTHER -> H
    BY <1>0, <1>5, Zenon DEF DecodeBit, Inner, Gone, Took
  <1>7. m = T[e]
    BY <1>2, <1>3, Zenon
  <1> HIDE DEF m
  <1>8. leaf = {e}
    BY <1>4, <1>7, Zenon
  <1> HIDE DEF leaf, full, I, L, G, H
  <1>9. DecodeBit(d, size, str, w) = L
    BY <1>0, <1>6, <1>8
  <1>10. L = Leaves(1, <<>>, 0 + 1, <<>>)
    BY <1>1, Changes DEF L
  <1>11. 0 + 1 = 1
    OBVIOUS
  <1> QED BY <1>1, <1>9, <1>10, <1>11, Zenon

\* What compress_buffer() wrote, decompress_stream() reads; and if every byte has a code
\* and is not the end, it reads the bytes, and counts one more.
Decoded(T, d, data, w) ==
    w.how = "returns" /\ (Tells(T, d, data) => w.r = Len(data) + 1 /\ w.out = data)

LEMMA Decodes ==
    ASSUME NEW d, NEW T, NEW e, Coding(d, T, e), d.goes, NEW data \in Seq(Byte),
           \A m \in 1..Len(data) : data[m] \in DOMAIN T \/ d.esc # <<>>, NEW size
    PROVE  Decoded(T, d, data, decompress_stream(d, Packed(compress_buffer(T, d.esc, d.eof, data)), size))
  <1>1. PICK bits : bits = compress_buffer(T, d.esc, d.eof, data)
    OBVIOUS
  <1>2. PICK g : Laid(T, d, e, data, bits, g)
    BY <1>1, Lays
  <1>3. bits \in Seq({0, 1})
    BY <1>2, Zenon DEF Laid
  <1>4. PICK str : str = Stream(Packed(bits), d.junk, TRUE)
    OBVIOUS
  <1>5. Len(str) \in Nat \ {0} /\ Len(bits) <= Len(str) /\ \A i \in 1..Len(bits) : str[i] = bits[i]
    BY <1>3, <1>4, StreamBegins, ZenonT(60)
  <1>6. PICK f : Walks(f, d, size, str) /\ DecodeLoop(d, size, str) = f[Len(str)]
    BY <1>5, WalkExists
  <1>7. decompress_stream(d, Packed(compress_buffer(T, d.esc, d.eof, data)), size) = f[Len(str)]
    BY <1>1, <1>4, <1>6, Zenon DEF decompress_stream, Stream
  <1>8. PICK n \in Nat : n = Len(data)
    OBVIOUS
  <1>9. CASE T[e] = <<>>
    <2>1. f[1] = DecodeBit(d, size, str, Node(1, <<>>, 0, <<>>))
      <3>1. 1 \in 1..Len(str) /\ 1 - 1 = 0
        BY <1>5
      <3> QED BY <1>6, <3>1, Zenon DEF Walks
    <2>2. f[1] = Leaves(1, <<>>, 1, <<>>)
      BY <1>5, <1>9, <2>1, OnlyEnd
    <2>3. f[1].how = "returns" /\ f[1].r = 1 /\ f[1].out = <<>>
      BY <2>2 DEF Leaves
    <2>4. f[Len(str)] = f[1]
      <3>1. 1 \in 0..Len(str) /\ Len(str) \in Nat
        BY <1>5
      <3> QED BY <1>6, <2>3, <3>1, WalkStays
    <2>5. ASSUME Tells(T, d, data) PROVE n = 0
      <3>1. ASSUME n # 0 PROVE FALSE
        <4>1. 1 \in 1..n
          BY <3>1
        <4>2. data[1] \in DOMAIN T /\ T[data[1]] # d.eof
          BY <1>8, <2>5, <4>1, Zenon DEF Tells
        <4>3. IsPrefixCode(T) /\ e \in DOMAIN T /\ d.eof = T[e]
          BY Zenon DEF Coding
        <4>4. T[data[1]] \in Seq({0, 1})
          BY <4>2, <4>3, Zenon DEF IsPrefixCode
        <4>5. IsPrefix(T[e], T[data[1]])
          <5>1. Len(T[e]) = 0
            BY <1>9
          <5>2. SubSeq(T[e], 1, 0) = <<>>
            BY <1>9, SubSeqEmpty
          <5>3. First(T[data[1]], 0) = <<>>
            BY <4>4, Firsts
          <5>4. 0 <= Len(T[data[1]])
            BY <4>4
          <5> QED BY <5>1, <5>2, <5>3, <5>4 DEF IsPrefix, First
        <4>6. e # data[1]
          BY <4>2, <4>3
        <4> QED BY <4>2, <4>3, <4>5, <4>6, Zenon DEF IsPrefixCode
      <3> QED BY <3>1
    <2>6. ASSUME n = 0 PROVE data = <<>> /\ n + 1 = 1
      <3>1. data = <<>>
        BY <1>8, <2>6, EmptySeq
      <3>2. n + 1 = 1
        BY <2>6
      <3> QED BY <3>1, <3>2
    <2> QED BY <1>7, <1>8, <2>3, <2>4, <2>5, <2>6, Zenon DEF Decoded
  <1>10. CASE T[e] # <<>>
    <2> DEFINE P == {i \in Nat : i <= n => Reaches(f, T, d, data, g, i)}
    <2>1. 0 \in P
      <3>1. f[0] = Node(1, <<>>, 0, <<>>)
        BY <1>6 DEF Walks
      <3>2. g[0] = 0
        BY <1>2, Zenon DEF Laid
      <3>3. First(data, 0) = <<>>
        BY Firsts
      <3>4. 0 \in 0..g[0] /\ g[0] + 1 = 1
        BY <3>2
      <3>5. Reaches(f, T, d, data, g, 0)
        BY <3>1, <3>3, <3>4, Zenon DEF Reaches
      <3> QED BY <3>5
    <2>2. ASSUME NEW i \in Nat, i \in P PROVE i + 1 \in P
      <3> SUFFICES ASSUME i + 1 <= n PROVE Reaches(f, T, d, data, g, i + 1)
        OBVIOUS
      <3>1. Reaches(f, T, d, data, g, i) /\ i + 1 <= Len(data) /\ Len(str) \in Nat
        BY <1>5, <1>8, <2>2
      <3> HIDE DEF P
      <3> QED BY <1>2, <1>5, <1>6, <1>10, <3>1, ReachesNext
    <2>3. Reaches(f, T, d, data, g, n)
      <3>1. \A i \in Nat : i \in P
        <4> HIDE DEF P
        <4> QED BY <2>1, <2>2, Induction
      <3> QED BY <3>1
    <2>4. First(data, n) = data
      BY <1>8, Firsts
    <2>5. g[n] \in Nat /\ Len(T[e]) \in Nat /\ g[n] + Len(T[e]) <= Len(str)
      <3>0. n \in 0..n
        OBVIOUS
      <3>1. g \in [0..n -> Nat] /\ Len(bits) = g[n] + Len(T[e])
        BY <1>2, <1>8, Zenon DEF Laid
      <3>2. T[e] \in Seq({0, 1})
        BY Zenon DEF Coding, IsPrefixCode
      <3> QED BY <1>5, <3>0, <3>1, <3>2
    <2>6. PICK j \in 0..g[n] : \/ f[j].how = "returns" /\ ~Tells(T, d, data)
                               \/ \E o : f[j] = Node(g[n] + 1, <<>>, n, o) /\ (Tells(T, d, data) => o = First(data, n))
      BY <2>3, Zenon DEF Reaches
    <2>7. CASE f[j].how = "returns" /\ ~Tells(T, d, data)
      <3>1. j \in 0..Len(str) /\ Len(str) \in Nat
        BY <1>5, <2>5
      <3>2. f[Len(str)] = f[j]
        BY <1>6, <2>7, <3>1, WalkStays
      <3> QED BY <1>7, <2>7, <3>2, Zenon DEF Decoded
    <2>8. CASE \E o : f[j] = Node(g[n] + 1, <<>>, n, o) /\ (Tells(T, d, data) => o = First(data, n))
      <3>1. PICK o : f[j] = Node(g[n] + 1, <<>>, n, o) /\ (Tells(T, d, data) => o = First(data, n))
        BY <2>8
      <3>2. T = d.tree.code /\ IsPrefixCode(T) /\ e \in DOMAIN T /\ d.eof # NoCode /\ Ends(d) = {e}
        BY Marks, Zenon DEF Coding
      <3>3. Lies(f, d, T, e, size, str, j, g[n] + 1)
        <4>1. \A i \in 1..Len(T[e]) : str[(g[n] + 1) + i - 1] = T[e][i]
          <5> TAKE i \in 1..Len(T[e])
          <5>1. (g[n] + 1) + i - 1 = g[n] + i
            BY <2>5
          <5>2. bits[g[n] + i] = T[e][i] /\ Len(bits) = g[n] + Len(T[e])
            BY <1>2, <1>8, Zenon DEF Laid
          <5>3. g[n] + i \in 1..Len(bits)
            BY <2>5, <5>2
          <5> QED BY <1>5, <5>1, <5>2, <5>3
        <4>2. (g[n] + 1) + Len(T[e]) - 1 <= Len(str) /\ g[n] + 1 \in Nat \ {0} /\ j \in Nat /\ j < g[n] + 1
          BY <1>5, <2>5
        <4>3. Len(str) \in Nat
          BY <1>5
        <4> QED BY <1>6, <1>10, <3>2, <4>1, <4>2, <4>3, Zenon DEF Lies
      <3>4. Arrives(d, e, (g[n] + 1) + Len(T[e]), n, o, str, f[j + Len(T[e])])
        BY <3>1, <3>3, WalkCode
      <3>5. f[j + Len(T[e])].how = "returns" /\ f[j + Len(T[e])].r = n + 1 /\ f[j + Len(T[e])].out = o
        BY <3>2, <3>4 DEF Arrives
      <3>6. j + Len(T[e]) \in 0..Len(str) /\ Len(str) \in Nat
        BY <1>5, <2>5
      <3>7. f[Len(str)] = f[j + Len(T[e])]
        BY <1>6, <3>5, <3>6, WalkStays
      <3> QED BY <1>7, <1>8, <2>4, <3>1, <3>5, <3>7, Zenon DEF Decoded
    <2> QED BY <2>6, <2>7, <2>8
  <1> QED BY <1>9, <1>10

-----------------------------------------------------------------------------
(* From the wire to the payload. *)

\* p is the part of f from a to b.
IsPiece(S, f, a, b, p) ==
    /\ p \in Seq(S) /\ Len(p) = b - a + 1
    /\ \A i \in 1..(b - a + 1) : p[i] = f[a + i - 1]

LEMMA Piece ==
    ASSUME NEW S, NEW f, NEW a \in Nat \ {0}, NEW b \in Nat, a <= b + 1, \A i \in a..b : f[i] \in S
    PROVE  IsPiece(S, f, a, b, SubSeq(f, a, b))
  <1>1. a \in Int /\ b \in Int
    OBVIOUS
  <1>2. /\ SubSeq(f, a, b) \in Seq(S)
        /\ Len(SubSeq(f, a, b)) = IF a <= b THEN b - a + 1 ELSE 0
        /\ \A i \in 1..(b - a + 1) : SubSeq(f, a, b)[i] = f[a + i - 1]
    BY <1>1, SubSeqProperties
  <1>3. (IF a <= b THEN b - a + 1 ELSE 0) = b - a + 1
    OBVIOUS
  <1> QED BY <1>2, <1>3, Zenon DEF IsPiece

\* w is p and then q.
IsJoin(S, p, q, w) ==
    /\ w \in Seq(S) /\ Len(w) = Len(p) + Len(q)
    /\ \A i \in 1..Len(p) : w[i] = p[i]
    /\ \A i \in 1..Len(q) : w[Len(p) + i] = q[i]

LEMMA Join ==
    ASSUME NEW S, NEW p \in Seq(S), NEW q \in Seq(S)
    PROVE  IsJoin(S, p, q, p \o q)
  <1>0. PICK w : w = p \o q
    OBVIOUS
  <1>1. PICK m \in Nat, n \in Nat : m = Len(p) /\ n = Len(q)
    OBVIOUS
  <1>2. w \in Seq(S) /\ Len(w) = m + n /\ \A i \in 1..(m + n) : w[i] = IF i <= m THEN p[i] ELSE q[i - m]
    BY <1>0, <1>1, ConcatProperties
  <1>3. ASSUME NEW i \in 1..m PROVE w[i] = p[i]
    <2>1. i \in 1..(m + n) /\ i <= m
      OBVIOUS
    <2> QED BY <1>2, <2>1
  <1>4. ASSUME NEW i \in 1..n PROVE w[m + i] = q[i]
    <2>1. m + i \in 1..(m + n) /\ ~(m + i <= m) /\ (m + i) - m = i
      OBVIOUS
    <2> QED BY <1>2, <2>1
  <1> QED BY <1>0, <1>1, <1>2, <1>3, <1>4, Zenon DEF IsJoin

\* What is on the wire: the first bytes as they are, twice as many as the offset says, and
\* then the codes of the other ones.
Wired(d, T, packet, w, data, z) ==
    LET o == d.offset IN
    /\ data \in Seq(Byte) /\ Len(data) = Len(packet) - 2 * o
    /\ \A i \in 1..Len(data) : data[i] = packet[2 * o + i]
    /\ z = Packed(compress_buffer(T, d.esc, d.eof, data)) /\ z \in Seq(Byte)
    /\ w \in Seq(Byte) /\ Len(w) = 2 * o + Len(z)
    /\ \A i \in 1..(2 * o) : w[i] = packet[i]
    /\ \A i \in 1..Len(z) : w[2 * o + i] = z[i]

LEMMA Wires ==
    ASSUME NEW d, d.mode # 0, d.eof # Wild, d.offset \in Nat, NEW T, d.codes = T, NEW e, Coding(d, T, e),
           NEW packet \in Seq(Byte), Len(packet) >= 2 * d.offset
    PROVE  \E data, z : Wired(d, T, packet, OnWire(d, packet), data, z)
  <1>1. PICK o \in Nat, n \in Nat : o = d.offset /\ n = Len(packet) /\ n >= 2 * o
    OBVIOUS
  <1>2. PICK a : a = SubSeq(packet, 1, o)
    OBVIOUS
  <1>3. IsPiece(Byte, packet, 1, o, a)
    <2>1. \A i \in 1..o : packet[i] \in Byte
      BY <1>1
    <2>2. 1 \in Nat \ {0} /\ 1 <= o + 1
      OBVIOUS
    <2> QED BY <1>2, <2>1, <2>2, Piece
  <1>4. PICK rest : rest = SubSeq(packet, o + 1, n)
    OBVIOUS
  <1>5. IsPiece(Byte, packet, o + 1, n, rest)
    <2>1. \A i \in (o + 1)..n : packet[i] \in Byte
      BY <1>1
    <2>2. o + 1 \in Nat \ {0} /\ o + 1 <= n + 1
      BY <1>1
    <2> QED BY <1>4, <2>1, <2>2, Piece
  <1>6. /\ a \in Seq(Byte) /\ Len(a) = o /\ \A i \in 1..o : a[i] = packet[i]
        /\ rest \in Seq(Byte) /\ Len(rest) = n - o /\ \A i \in 1..(n - o) : rest[i] = packet[o + i]
    <2>1. o - 1 + 1 = o /\ n - (o + 1) + 1 = n - o /\ \A i \in Nat : 1 + i - 1 = i /\ (o + 1) + i - 1 = o + i
      OBVIOUS
    <2> QED BY <1>3, <1>5, <2>1 DEF IsPiece
  <1>7. PICK l \in Nat : l = n - o /\ l >= o
    BY <1>1
  <1>8. PICK b : b = SubSeq(rest, 1, o)
    OBVIOUS
  <1>9. PICK data : data = SubSeq(rest, o + 1, Len(rest))
    OBVIOUS
  <1>10. /\ b \in Seq(Byte) /\ Len(b) = o /\ \A i \in 1..o : b[i] = packet[o + i]
         /\ data \in Seq(Byte) /\ Len(data) = l - o /\ \A i \in 1..(l - o) : data[i] = packet[2 * o + i]
    <2>1. IsPiece(Byte, rest, 1, o, b)
      <3>1. \A i \in 1..o : rest[i] \in Byte
        BY <1>6, <1>7
      <3>2. 1 \in Nat \ {0} /\ 1 <= o + 1
        OBVIOUS
      <3> QED BY <1>8, <3>1, <3>2, Piece
    <2>2. IsPiece(Byte, rest, o + 1, l, data)
      <3>1. \A i \in (o + 1)..l : rest[i] \in Byte
        BY <1>6, <1>7
      <3>2. o + 1 \in Nat \ {0} /\ o + 1 <= l + 1
        BY <1>7
      <3>3. data = SubSeq(rest, o + 1, l)
        BY <1>6, <1>7, <1>9
      <3> QED BY <3>1, <3>2, <3>3, Piece
    <2>3. o - 1 + 1 = o /\ l - (o + 1) + 1 = l - o /\ \A i \in Nat : 1 + i - 1 = i /\ (o + 1) + i - 1 = o + i
      OBVIOUS
    <2>4. /\ b \in Seq(Byte) /\ Len(b) = o /\ \A i \in 1..o : b[i] = rest[i]
          /\ data \in Seq(Byte) /\ Len(data) = l - o /\ \A i \in 1..(l - o) : data[i] = rest[o + i]
      BY <2>1, <2>2, <2>3 DEF IsPiece
    <2>5. ASSUME NEW i \in 1..o PROVE b[i] = packet[o + i]
      <3>1. i \in 1..(n - o)
        BY <1>7
      <3> QED BY <1>6, <2>4, <3>1
    <2>6. ASSUME NEW i \in 1..(l - o) PROVE data[i] = packet[2 * o + i]
      <3>1. o + i \in 1..(n - o) /\ o + (o + i) = 2 * o + i
        BY <1>7
      <3> QED BY <1>6, <2>4, <3>1
    <2> QED BY <2>4, <2>5, <2>6
  <1>11. PICK z : z = Packed(compress_buffer(T, d.esc, d.eof, data))
    OBVIOUS
  <1>12. z \in Seq(Byte) /\ Len(z) \in Nat
    <2>1. PICK g : Laid(T, d, e, data, compress_buffer(T, d.esc, d.eof, data), g)
      BY <1>10, Lays
    <2>2. compress_buffer(T, d.esc, d.eof, data) \in Seq({0, 1})
      BY <2>1, Zenon DEF Laid
    <2>3. z \in Seq(Byte)
      BY <1>11, <2>2, PackedIs
    <2> QED BY <2>3
  <1>13. PICK c : c = b \o z
    OBVIOUS
  <1>14. PICK w : w = OnWire(d, packet)
    OBVIOUS
  <1>15. w = a \o c
    <2>1. <<>> \o b = b
      BY <1>10
    <2>2. d.eof # NoCode
      BY Marks
    <2>3. encode_buffer2buffer(T, d.esc, d.eof, o, packet) = a \o compress(T, d.esc, d.eof, o, rest)
      BY <1>1, <1>2, <1>4, Zenon DEF encode_buffer2buffer
    <2>4. compress(T, d.esc, d.eof, o, rest) = (<<>> \o b) \o z
      BY <1>8, <1>9, <1>11, <2>2, Zenon DEF compress
    <2>5. w = encode_buffer2buffer(T, d.esc, d.eof, o, packet)
      BY <1>1, <1>14, Zenon DEF OnWire
    <2> QED BY <1>13, <2>1, <2>3, <2>4, <2>5, Zenon
  <1>16. IsJoin(Byte, b, z, c)
    BY <1>10, <1>12, <1>13, Join
  <1>17. c \in Seq(Byte) /\ Len(c) = o + Len(z) /\ (\A i \in 1..o : c[i] = b[i]) /\ \A i \in 1..Len(z) : c[o + i] = z[i]
    BY <1>10, <1>16, Zenon DEF IsJoin
  <1>18. IsJoin(Byte, a, c, w)
    BY <1>6, <1>15, <1>17, Join
  <1>19. w \in Seq(Byte) /\ Len(w) = o + Len(c) /\ (\A i \in 1..o : w[i] = a[i]) /\ \A i \in 1..Len(c) : w[o + i] = c[i]
    BY <1>6, <1>18, Zenon DEF IsJoin
  <1>20. Len(w) = 2 * o + Len(z)
    BY <1>12, <1>17, <1>19
  <1>21. ASSUME NEW i \in 1..(2 * o) PROVE w[i] = packet[i]
    <2>1. CASE i <= o
      <3>1. i \in 1..o
        BY <2>1
      <3> QED BY <1>6, <1>19, <3>1
    <2>2. CASE ~(i <= o)
      <3>1. PICK k \in 1..o : i = o + k
        <4>1. i - o \in 1..o /\ i = o + (i - o)
          BY <2>2
        <4> QED BY <4>1
      <3>2. k \in 1..Len(c)
        BY <1>12, <1>17
      <3> QED BY <1>10, <1>17, <1>19, <3>1, <3>2
    <2> QED BY <2>1, <2>2
  <1>22. ASSUME NEW i \in 1..Len(z) PROVE w[2 * o + i] = z[i]
    <2>1. o + i \in 1..Len(c) /\ 2 * o + i = o + (o + i)
      BY <1>12, <1>17
    <2> QED BY <1>17, <1>19, <2>1
  <1>23. Len(data) = Len(packet) - 2 * o /\ \A i \in 1..Len(data) : data[i] = packet[2 * o + i]
    BY <1>1, <1>7, <1>10
  <1>24. Wired(d, T, packet, w, data, z)
    BY <1>1, <1>10, <1>11, <1>12, <1>19, <1>20, <1>21, <1>22, <1>23, Zenon DEF Wired
  <1> QED BY <1>14, <1>24

\* What decompress() makes of such a packet, read as a whole into the buffer f.
Restored(d, T, packet, done) ==
    /\ done.how = "returns"
    /\ Tells(T, d, packet) =>
          /\ done.sz = Len(packet) - d.offset + 1
          /\ done.out \in Seq(Byte) /\ Len(done.out) = Len(packet) - d.offset
          /\ \A i \in 1..Len(done.out) : done.out[i] = packet[d.offset + i]

Measured(d, packet, o, n) == o = d.offset /\ n = Len(packet)

LEMMA Restores ==
    ASSUME NEW d, NEW T, NEW e, Coding(d, T, e), d.goes, d.eof # Wild, NEW packet \in Seq(Byte),
           NEW o \in Nat, NEW n \in Nat, Measured(d, packet, o, n), n >= 2 * o,
           \A j \in 1..Len(packet) : packet[j] \in DOMAIN T \/ d.esc # <<>>,
           NEW w, NEW data, NEW z, Wired(d, T, packet, w, data, z),
           NEW N \in Nat, NEW f, IsBuffer(f, N), Len(w) <= N, Agree(f, w, Len(w))
    PROVE  Restored(d, T, packet, decompress(d, SubSeq(f, d.offset + 1, Len(f)), Len(w) - d.offset))
  <1>1. o = d.offset /\ n = Len(packet) /\ n >= 2 * o
    BY Zenon DEF Measured
  <1>2. /\ data \in Seq(Byte) /\ Len(data) = n - 2 * o /\ \A i \in 1..Len(data) : data[i] = packet[2 * o + i]
        /\ z = Packed(compress_buffer(T, d.esc, d.eof, data)) /\ z \in Seq(Byte)
        /\ w \in Seq(Byte) /\ Len(w) = 2 * o + Len(z)
        /\ \A i \in 1..(2 * o) : w[i] = packet[i]
        /\ \A i \in 1..Len(z) : w[2 * o + i] = z[i]
    BY <1>1, Zenon DEF Wired
  <1>30. /\ data \in Seq(Byte) /\ z \in Seq(Byte) /\ w \in Seq(Byte) /\ Len(data) = n - 2 * o /\ Len(w) = 2 * o + Len(z)
         /\ \A i \in 1..(2 * o) : w[i] = packet[i]
    BY <1>2, Zenon
  <1>3. PICK l \in Nat, m \in Nat : l = Len(z) /\ m = Len(w) /\ m = 2 * o + l /\ m <= N
    BY <1>30
  <1>31. PICK y \in Nat : y = Len(data) /\ y = n - 2 * o
    BY <1>1, <1>30
  <1>4. Len(f) = N
    BY BufferIsSeq
  <1>5. PICK tail : tail = SubSeq(f, o + 1, N)
    OBVIOUS
  <1> DEFINE S == {f[j] : j \in 1..N}
  <1>6. /\ tail \in Seq(S) /\ Len(tail) = N - o /\ \A i \in 1..(N - o) : tail[i] = f[o + i]
    <2>1. \A i \in (o + 1)..N : f[i] \in S
      OBVIOUS
    <2>2. o + 1 \in Nat \ {0} /\ o + 1 <= N + 1
      BY <1>3
    <2> HIDE DEF S
    <2>3. IsPiece(S, f, o + 1, N, tail)
      BY <1>5, <2>1, <2>2, Piece
    <2>4. N - (o + 1) + 1 = N - o /\ \A i \in Nat : (o + 1) + i - 1 = o + i
      OBVIOUS
    <2> QED BY <2>3, <2>4 DEF IsPiece
  <1> HIDE DEF S
  <1>7. ASSUME NEW i \in 1..(o + l) PROVE tail[i] = w[o + i]
    <2>1. i \in 1..(N - o) /\ o + i \in 1..m
      BY <1>3
    <2> QED BY <1>3, <1>6, <2>1 DEF Agree
  <1>8. SubSeq(tail, o + 1, m - o) = z
    <2>1. ASSUME NEW i \in 1..l PROVE tail[o + i] = z[i]
      <3>1. o + i \in 1..(o + l) /\ o + (o + i) = 2 * o + i
        OBVIOUS
      <3>2. tail[o + i] = w[o + (o + i)]
        BY <1>7, <3>1
      <3>3. w[2 * o + i] = z[i]
        BY <1>2, <1>3, Zenon
      <3> QED BY <3>1, <3>2, <3>3, Zenon
    <2>2. \A i \in (o + 1)..(o + l) : tail[i] \in Byte
      <3> TAKE i \in (o + 1)..(o + l)
      <3>1. i - o \in 1..l /\ i = o + (i - o)
        OBVIOUS
      <3>2. tail[i] = z[i - o]
        BY <2>1, <3>1
      <3> QED BY <1>2, <1>3, <3>1, <3>2
    <2>3. PICK p : p = SubSeq(tail, o + 1, o + l)
      OBVIOUS
    <2>4. IsPiece(Byte, tail, o + 1, o + l, p)
      <3>1. o + 1 \in Nat \ {0} /\ o + l \in Nat /\ o + 1 <= (o + l) + 1
        OBVIOUS
      <3> QED BY <2>2, <2>3, <3>1, Piece
    <2>5. (o + l) - (o + 1) + 1 = l /\ \A i \in Nat : (o + 1) + i - 1 = o + i
      OBVIOUS
    <2>6. p \in Seq(Byte) /\ Len(p) = l /\ \A i \in 1..l : p[i] = tail[o + i]
      BY <2>4, <2>5 DEF IsPiece
    <2>7. p = z
      <3>1. \A i \in 1..Len(p) : p[i] = z[i]
        BY <2>1, <2>6
      <3> QED BY <1>3, <1>30, <2>6, <3>1, SeqEqual
    <2>8. m - o = o + l
      BY <1>3
    <2> QED BY <2>3, <2>7, <2>8, Zenon
  <1>9. PICK h : h = SubSeq(tail, 1, o)
    OBVIOUS
  <1>10. h \in Seq(Byte) /\ Len(h) = o /\ \A i \in 1..o : h[i] = packet[o + i]
    <2>1. ASSUME NEW i \in 1..o PROVE tail[i] = packet[o + i] /\ tail[i] \in Byte
      <3>1. i \in 1..(o + l) /\ o + i \in 1..(2 * o) /\ o + i \in 1..n
        OBVIOUS
      <3>2. packet[o + i] \in Byte
        BY <1>1, <3>1
      <3> QED BY <1>7, <1>30, <3>1, <3>2
    <2>2. IsPiece(Byte, tail, 1, o, h)
      <3>1. 1 \in Nat \ {0} /\ 1 <= o + 1
        OBVIOUS
      <3> QED BY <1>9, <2>1, <3>1, Piece
    <2>3. o - 1 + 1 = o /\ \A i \in Nat : 1 + i - 1 = i
      OBVIOUS
    <2> QED BY <2>1, <2>2, <2>3 DEF IsPiece
  <1>11. PICK v : v = decompress_stream(d, z, d.force)
    OBVIOUS
  <1>12. Decoded(T, d, data, v)
    <2>1. \A i \in 1..Len(data) : data[i] \in DOMAIN T \/ d.esc # <<>>
      <3> TAKE i \in 1..Len(data)
      <3>1. 2 * o + i \in 1..n
        BY <1>31
      <3> QED BY <1>1, <1>2, <3>1
    <2> QED BY <1>2, <1>11, <2>1, Decodes
  <1>13. PICK done : done = decompress(d, SubSeq(f, d.offset + 1, Len(f)), Len(w) - d.offset)
    OBVIOUS
  <1>14. done = [how |-> v.how, sz |-> o + v.r, out |-> h \o v.out]
    <2>1. d.eof # NoCode
      BY Marks
    <2>2. 0 + o = o /\ 0 + 1 = 1 /\ ~(m - o < o)
      BY <1>3
    <2>3. done = decompress(d, tail, m - o)
      BY <1>1, <1>3, <1>4, <1>5, <1>13, Zenon
    <2>4. PICK head : head = [len |-> 0, value |-> d.force]
      OBVIOUS
    <2>5. head.len = 0 /\ head.value = d.force
      BY <2>4
    <2>6. (IF d.force = 0 /\ d.eof = NoCode THEN get_varint(tail) ELSE [len |-> 0, value |-> d.force]) = head
      BY <2>1, <2>4, Zenon
    <2> DEFINE first == IF d.force = 0 /\ d.eof = NoCode THEN get_varint(tail) ELSE [len |-> 0, value |-> d.force]
               start == first.len + d.offset
               text == decompress_stream(d, SubSeq(tail, start + 1, m - o), first.value)
    <2>7. done = IF m - o < start \/ d.eof = Wild THEN [how |-> "aborts", sz |-> 0, out |-> <<>>]
                 ELSE [how |-> text.how, sz |-> d.offset + text.r, out |-> SubSeq(tail, first.len + 1, start) \o text.out]
      BY <2>3, Zenon DEF decompress
    <2>8. first.len = 0 /\ first.value = d.force
      BY <2>5, <2>6, Zenon
    <2> HIDE DEF first
    <2>9. start = o
      BY <1>1, <2>2, <2>8, Zenon
    <2> HIDE DEF start
    <2>10. text = v
      BY <1>8, <1>11, <2>8, <2>9, Zenon
    <2> HIDE DEF text
    <2>11. SubSeq(tail, first.len + 1, start) = h
      BY <1>9, <2>2, <2>8, <2>9, Zenon
    <2> QED BY <1>1, <2>2, <2>7, <2>9, <2>10, <2>11, Zenon
  <1>15. done.how = v.how /\ done.sz = o + v.r /\ done.out = h \o v.out
    BY <1>14
  <1>16. done.how = "returns"
    BY <1>12, <1>15, Zenon DEF Decoded
  <1>17. ASSUME Tells(T, d, packet)
         PROVE  /\ done.sz = n - o + 1 /\ done.out \in Seq(Byte) /\ Len(done.out) = n - o
                /\ \A i \in 1..(n - o) : done.out[i] = packet[o + i]
    <2>1. Tells(T, d, data)
      <3> SUFFICES ASSUME NEW i \in 1..Len(data) PROVE data[i] \in DOMAIN T /\ T[data[i]] # d.eof
        BY DEF Tells
      <3>1. 2 * o + i \in 1..n
        BY <1>31
      <3>2. packet[2 * o + i] \in DOMAIN T /\ T[packet[2 * o + i]] # d.eof
        BY <1>1, <1>17, <3>1, Zenon DEF Tells
      <3> QED BY <1>2, <3>2, Zenon
    <2>2. v.r = Len(data) + 1 /\ v.out = data
      BY <1>12, <2>1, Zenon DEF Decoded
    <2>3. done.sz = n - o + 1
      <3>1. done.sz = o + (Len(data) + 1)
        BY <1>15, <2>2, Zenon
      <3>2. done.sz = o + (y + 1)
        BY <1>31, <3>1, Zenon
      <3>3. o + (y + 1) = n - o + 1
        BY <1>31
      <3> QED BY <3>2, <3>3, Zenon
    <2>4. PICK out : out = done.out
      OBVIOUS
    <2>5. IsJoin(Byte, h, data, out)
      <3>1. out = h \o data
        BY <1>15, <2>2, <2>4, Zenon
      <3> QED BY <1>2, <1>10, <3>1, Join
    <2>6. /\ out \in Seq(Byte) /\ Len(out) = o + Len(data) /\ (\A i \in 1..o : out[i] = h[i])
          /\ \A i \in 1..Len(data) : out[o + i] = data[i]
      BY <1>10, <2>5, Zenon DEF IsJoin
    <2>7. Len(out) = n - o
      <3>1. Len(out) = o + y
        BY <1>31, <2>6, Zenon
      <3>2. o + y = n - o
        BY <1>31
      <3> QED BY <3>1, <3>2, Zenon
    <2>8. ASSUME NEW i \in 1..(n - o) PROVE out[i] = packet[o + i]
      <3>1. CASE i <= o
        <4>1. i \in 1..o
          BY <3>1
        <4> QED BY <1>10, <2>6, <4>1
      <3>2. CASE ~(i <= o)
        <4>1. PICK k \in 1..(n - 2 * o) : i = o + k /\ 2 * o + k = o + i
          <5>1. i - o \in 1..(n - 2 * o) /\ i = o + (i - o) /\ 2 * o + (i - o) = o + i
            BY <1>1, <3>2
          <5> QED BY <5>1
        <4> QED BY <1>2, <2>6, <4>1
      <3> QED BY <3>1, <3>2
    <2> QED BY <2>3, <2>4, <2>6, <2>7, <2>8, Zenon
  <1>18. Restored(d, T, packet, done)
    BY <1>1, <1>16, <1>17, Zenon DEF Restored
  <1> QED BY <1>13, <1>18, Zenon

\* decompress() returned done, and sz bytes of it fit.
IsText(d, f, size, done, sz) ==
    /\ d.mode # 0 /\ done.how = "returns"
    /\ done = decompress(d, SubSeq(f, d.offset + 1, Len(f)), size - d.offset)
    /\ sz = IF done.sz > Len(f) THEN Len(f) ELSE done.sz

\* What decode_buffer2buffer() then does.
Replaces(d, f, done, sz, all) ==
    /\ all.how = "returns"
    /\ d.valid_sizes = {} => all.length = d.offset + sz /\ all.buffer = Written(f, d.offset, done.out, sz)

LEMMA DecodesInPlace ==
    ASSUME NEW d, NEW f, NEW size, NEW done, NEW sz, IsText(d, f, size, done, sz)
    PROVE  Replaces(d, f, done, sz, decode_buffer2buffer(d, f, size))
  <1>0. /\ d.mode # 0 /\ done.how = "returns"
        /\ done = decompress(d, SubSeq(f, d.offset + 1, Len(f)), size - d.offset)
        /\ sz = IF done.sz > Len(f) THEN Len(f) ELSE done.sz
    BY Zenon DEF IsText
  <1>1. PICK A : A = [how |-> done.how, length |-> 0, buffer |-> f]
    OBVIOUS
  <1>2. PICK B : B = [how |-> "returns", length |-> size, buffer |-> f]
    OBVIOUS
  <1>3. PICK C : C = [how |-> "returns", length |-> d.offset + sz, buffer |-> Written(f, d.offset, done.out, sz)]
    OBVIOUS
  <1>4. decode_buffer2buffer(d, f, size) =
            CASE done.how # "returns" -> A
              [] done.how = "returns" /\ d.offset + sz \in d.valid_sizes -> B
              [] OTHER -> C
    BY <1>0, <1>1, <1>2, <1>3, Zenon DEF decode_buffer2buffer
  <1>5. B.how = "returns"
    BY <1>2
  <1>6. C.how = "returns" /\ C.length = d.offset + sz /\ C.buffer = Written(f, d.offset, done.out, sz)
    BY <1>3
  <1>7. CASE d.offset + sz \in d.valid_sizes
    <2>1. decode_buffer2buffer(d, f, size) = B
      BY <1>0, <1>4, <1>7
    <2>2. d.valid_sizes # {}
      BY <1>7
    <2> QED BY <1>5, <2>1, <2>2, Zenon DEF Replaces
  <1>8. CASE d.offset + sz \notin d.valid_sizes
    <2>1. decode_buffer2buffer(d, f, size) = C
      BY <1>0, <1>4, <1>8
    <2> QED BY <1>6, <2>1, Zenon DEF Replaces
  <1> QED BY <1>7, <1>8

\* The buffer f has the first bytes of the packet, out the other ones.
Halves(packet, o, n, N, f, out) ==
    /\ packet \in Seq(Byte) /\ n = Len(packet) /\ o \in Nat /\ n >= 2 * o
    /\ N \in Nat /\ IsBuffer(f, N) /\ n < N /\ \A i \in 1..o : f[i] = packet[i]
    /\ out \in Seq(Byte) /\ Len(out) = n - o /\ \A i \in 1..(n - o) : out[i] = packet[o + i]

\* The packet and the zero that ends it.
LEMMA Arrived ==
    ASSUME NEW packet, NEW o, NEW n, NEW N, NEW f, NEW out, Halves(packet, o, n, N, f, out)
    PROVE  SubSeq(Written(f, o, out, n - o + 1), 1, n + 1) = Append(packet, 0)
  <1>0. /\ packet \in Seq(Byte) /\ n = Len(packet) /\ n \in Nat /\ o \in Nat /\ n >= 2 * o
        /\ N \in Nat /\ IsBuffer(f, N) /\ n < N /\ \A i \in 1..o : f[i] = packet[i]
        /\ out \in Seq(Byte) /\ Len(out) = n - o /\ \A i \in 1..(n - o) : out[i] = packet[o + i]
    BY DEF Halves
  <1>1. n = Len(packet)
    BY <1>0, Zenon
  <1>3. PICK l \in Nat : l = n - o /\ o + l = n
    <2>1. n \in Nat /\ o \in Nat /\ n >= 2 * o
      BY <1>0, Zenon
    <2>2. n - o \in Nat /\ o + (n - o) = n
      BY <2>1
    <2> QED BY <2>2, Zenon
  <1> USE <1>0
  <1>2. Len(f) = N
    BY BufferIsSeq
  <1>4. 0 \in Byte
    <2>1. PICK k \in Nat \ {0} : k = 2^Bits
      BY BitsAssumption, Powers
    <2> QED BY <2>1 DEF Byte
  <1>5. PICK a : a = Append(packet, 0)
    OBVIOUS
  <1>6. a \in Seq(Byte) /\ Len(a) = n + 1 /\ (\A i \in 1..n : a[i] = packet[i]) /\ a[n + 1] = 0
    BY <1>1, <1>4, <1>5, AppendProperties
  <1>7. PICK g : g = Written(f, o, out, n - o + 1)
    OBVIOUS
  <1>8. g = [j \in 1..N |-> IF j \in (o + 1)..(o + (n - o + 1)) THEN At(out, j - o) ELSE f[j]]
    BY <1>2, <1>7, Zenon DEF Written
  <1>9. ASSUME NEW i \in 1..(n + 1) PROVE g[i] = a[i]
    <2>1. i \in 1..N
      OBVIOUS
    <2>2. g[i] = IF i \in (o + 1)..(o + (n - o + 1)) THEN At(out, i - o) ELSE f[i]
      BY <1>8, <2>1
    <2>3. CASE i \in 1..o
      <3>1. i \notin (o + 1)..(o + (n - o + 1)) /\ i \in 1..n
        BY <2>3
      <3> QED BY <1>6, <2>2, <2>3, <3>1
    <2>4. CASE i \in (o + 1)..n
      <3>1. i \in (o + 1)..(o + (n - o + 1)) /\ i - o \in 1..l /\ o + (i - o) = i /\ i \in 1..n
        BY <1>3, <2>4
      <3>2. Len(out) = l
        BY <1>3
      <3>3. At(out, i - o) = out[i - o]
        BY <3>1, <3>2 DEF At
      <3>4. out[i - o] = packet[o + (i - o)]
        BY <3>1, <3>2
      <3> QED BY <1>6, <2>2, <3>1, <3>3, <3>4
    <2>5. CASE i = n + 1
      <3>1. i \in (o + 1)..(o + (n - o + 1)) /\ ~(i - o <= l)
        BY <1>3, <2>5
      <3>2. Len(out) = l
        BY <1>3
      <3>3. At(out, i - o) = 0
        BY <3>1, <3>2 DEF At
      <3> QED BY <1>6, <2>2, <2>5, <3>1, <3>3
    <2>6. i \in 1..o \/ i \in (o + 1)..n \/ i = n + 1
      OBVIOUS
    <2> QED BY <2>3, <2>4, <2>5, <2>6
  <1>10. PICK p : p = SubSeq(g, 1, n + 1)
    OBVIOUS
  <1>11. p \in Seq(Byte) /\ Len(p) = n + 1 /\ \A i \in 1..(n + 1) : p[i] = g[i]
    <2>1. \A i \in 1..(n + 1) : g[i] \in Byte
      BY <1>6, <1>9
    <2>2. 1 \in Nat \ {0} /\ n + 1 \in Nat /\ 1 <= (n + 1) + 1
      OBVIOUS
    <2>3. IsPiece(Byte, g, 1, n + 1, p)
      BY <1>10, <2>1, <2>2, Piece
    <2>4. (n + 1) - 1 + 1 = n + 1 /\ \A i \in Nat : 1 + i - 1 = i
      OBVIOUS
    <2> QED BY <2>3, <2>4 DEF IsPiece
  <1>12. p = a
    <2>1. \A i \in 1..Len(p) : p[i] = a[i]
      BY <1>9, <1>11
    <2> QED BY <1>6, <1>11, <2>1, SeqEqual
  <1> QED BY <1>5, <1>7, <1>10, <1>12, Zenon

\* What PayloadIsPacket says of one payload.
IsPacket(d, c, payload) ==
    (Determined(d) /\ c.how = "all" /\ d.valid_sizes = {}
        /\ (d.mode = 0 \/ (Plain(d, c.packet) /\ Len(c.packet) < TcpBuffer)))
    => payload = IF d.mode = 0 THEN c.packet ELSE Append(c.packet, 0)

\* What WholePacketIsServed says.
IsServed(d, c) == Determined(d) /\ Known(d, c.packet) => c.how # "all"

\* What is being decoded is what the station sent; what is decoded is its packet.
WireInv ==
    /\ tpc = "decode" =>
        /\ tconn.packet \in Seq(Byte) /\ Sendable(tdec, tconn.packet)
        /\ tconn.how = "all" => tconn.bytes = OnWire(tdec, tconn.packet) /\ tsize = Len(tconn.bytes)
    /\ tpc = "send" => IsPacket(tdec, tconn, SubSeq(tdata, 1, tlength))
    /\ tpc \in {"hung", "aborted"} => IsServed(tdec, tconn)

LEMMA WireInitHolds ==
    ASSUME NEW d \in Decoders, TcpInit(d)
    PROVE  WireInv /\ PayloadIsPacket
  BY DEF TcpInit, WireInv, PayloadIsPacket

\* Without compression the packet is what was read.
LEMMA DecodesPlainly ==
    ASSUME NEW d, d.mode = 0, NEW packet \in Seq(Byte), NEW N \in Nat, NEW f, IsBuffer(f, N),
           Len(packet) <= N, Agree(f, packet, Len(packet)), NEW done, done = decode_buffer2buffer(d, f, Len(packet))
    PROVE  done.how = "returns" /\ SubSeq(done.buffer, 1, done.length) = packet
  <1>1. done = [how |-> "returns", length |-> Len(packet), buffer |-> f]
    BY Zenon DEF decode_buffer2buffer
  <1>2. done.how = "returns" /\ done.length = Len(packet) /\ done.buffer = f
    BY <1>1
  <1>3. SamePart(f, packet, 1, Len(packet))
    <2>1. 1 \in Nat \ {0} /\ Len(packet) \in Int /\ Len(packet) <= Len(packet)
      OBVIOUS
    <2> QED BY <2>1, SamePiece
  <1>4. SubSeq(packet, 1, Len(packet)) = packet
    BY SubSeqFull
  <1> QED BY <1>2, <1>3, <1>4, Zenon DEF SamePart

\* With it, the packet and a zero.
Whole(d, packet, N, f, w) ==
    /\ d.mode # 0 /\ Determined(d) /\ IsPrefixCode(d.tree.code) /\ d.offset \in Nat
    /\ packet \in Seq(Byte) /\ Sendable(d, packet) /\ Known(d, packet)
    /\ N \in Nat /\ IsBuffer(f, N)
    /\ w = OnWire(d, packet) /\ w \in Seq(Byte) /\ Len(w) <= N /\ Agree(f, w, Len(w))

LEMMA DecodesCompressed ==
    ASSUME NEW d, NEW packet, NEW N, NEW f, NEW w, Whole(d, packet, N, f, w),
           NEW done, done = decode_buffer2buffer(d, f, Len(w))
    PROVE  /\ done.how = "returns"
           /\ (d.valid_sizes = {} /\ Plain(d, packet) /\ Len(packet) < N) =>
                 SubSeq(done.buffer, 1, done.length) = Append(packet, 0)
  <1>0. /\ d.mode # 0 /\ Determined(d) /\ IsPrefixCode(d.tree.code) /\ d.offset \in Nat
        /\ packet \in Seq(Byte) /\ Sendable(d, packet) /\ Known(d, packet)
        /\ N \in Nat /\ IsBuffer(f, N)
        /\ w = OnWire(d, packet) /\ w \in Seq(Byte) /\ Len(w) <= N /\ Agree(f, w, Len(w))
    BY Zenon DEF Whole
  <1> USE <1>0
  <1>1. PICK T : T = d.tree.code
    OBVIOUS
  <1>2. d.goes /\ d.eof # Wild /\ d.codes = T
    BY <1>1, Zenon DEF Determined
  <1>3. PICK e : Coding(d, T, e)
    <2>1. PICK e \in DOMAIN T : d.eof = T[e]
      BY <1>1, Zenon DEF Determined, Range
    <2>2. Coding(d, T, e)
      BY <1>1, <2>1, Zenon DEF Determined, Coding
    <2> QED BY <2>2
  <1>4. PICK o \in Nat, n \in Nat : o = d.offset /\ n = Len(packet) /\ n >= 2 * o
    <2>1. Len(packet) >= 2 * d.offset
      BY Zenon DEF Sendable
    <2> QED BY <2>1
  <1>5. Measured(d, packet, o, n) /\ Len(packet) >= 2 * d.offset
    BY <1>4 DEF Measured
  <1>6. PICK data, z : Wired(d, T, packet, w, data, z)
    BY <1>2, <1>3, <1>5, Wires
  <1>7. \A j \in 1..Len(packet) : packet[j] \in DOMAIN T \/ d.esc # <<>>
    BY <1>1, Zenon DEF Known
  <1>8. PICK text : text = decompress(d, SubSeq(f, d.offset + 1, Len(f)), Len(w) - d.offset)
    OBVIOUS
  <1>9. Restored(d, T, packet, text)
    BY <1>2, <1>3, <1>4, <1>5, <1>6, <1>7, <1>8, Restores
  <1>10. PICK sz : sz = IF text.sz > Len(f) THEN Len(f) ELSE text.sz
    OBVIOUS
  <1>11. text.how = "returns"
    BY <1>9, Zenon DEF Restored
  <1>12. /\ done.how = "returns"
         /\ d.valid_sizes = {} => done.length = d.offset + sz /\ done.buffer = Written(f, d.offset, text.out, sz)
    <2>1. IsText(d, f, Len(w), text, sz)
      BY <1>8, <1>10, <1>11, Zenon DEF IsText
    <2>2. Replaces(d, f, text, sz, done)
      BY <2>1, DecodesInPlace
    <2> QED BY <2>2, Zenon DEF Replaces
  <1>13. ASSUME d.valid_sizes = {}, Plain(d, packet), Len(packet) < N
         PROVE  SubSeq(done.buffer, 1, done.length) = Append(packet, 0)
    <2>1. Tells(T, d, packet)
      BY <1>1, <1>13, Zenon DEF Plain, Tells
    <2>2. /\ text.sz = n - o + 1 /\ text.out \in Seq(Byte) /\ Len(text.out) = n - o
          /\ \A i \in 1..Len(text.out) : text.out[i] = packet[o + i]
      BY <1>4, <1>9, <2>1, Zenon DEF Restored
    <2>3. Len(f) = N /\ n < N
      BY <1>4, <1>13, BufferIsSeq
    <2>4. sz = n - o + 1
      <3>1. ~(n - o + 1 > N)
        BY <2>3
      <3> QED BY <1>10, <2>2, <2>3, <3>1, Zenon
    <2>5. ASSUME NEW i \in 1..o PROVE f[i] = packet[i]
      <3>1. Len(w) = 2 * o + Len(z) /\ z \in Seq(Byte) /\ \A k \in 1..(2 * o) : w[k] = packet[k]
        BY <1>4, <1>6, Zenon DEF Wired
      <3>2. i \in 1..Len(w) /\ i \in 1..(2 * o)
        BY <3>1
      <3> QED BY <3>1, <3>2 DEF Agree
    <2>6. SubSeq(Written(f, o, text.out, n - o + 1), 1, n + 1) = Append(packet, 0)
      <3>1. PICK out : out = text.out
        OBVIOUS
      <3>2. out \in Seq(Byte) /\ Len(out) = n - o /\ \A i \in 1..(n - o) : out[i] = packet[o + i]
        BY <2>2, <3>1, Zenon
      <3>3. Halves(packet, o, n, N, f, out)
        BY <1>4, <2>3, <2>5, <3>2, Zenon DEF Halves
      <3>4. SubSeq(Written(f, o, out, n - o + 1), 1, n + 1) = Append(packet, 0)
        BY <3>3, Arrived
      <3> QED BY <3>1, <3>4, Zenon
    <2>7. o + (n - o + 1) = n + 1
      OBVIOUS
    <2> QED BY <1>4, <1>12, <1>13, <2>4, <2>6, <2>7, Zenon
  <1> QED BY <1>12, <1>13

\* A plain packet has a code for each of its bytes.
LEMMA PlainIsKnown ==
    ASSUME NEW d, NEW packet, Plain(d, packet)
    PROVE  Known(d, packet)
  BY DEF Plain, Known

\* What decoding makes of a packet read as a whole.
LEMMA DecodeIsPacket ==
    ASSUME TcpInv, WireInv, TcpDecode
    PROVE  /\ tpc' = "send" => IsPacket(tdec', tconn', SubSeq(tdata', 1, tlength'))
           /\ tpc' \in {"hung", "aborted"} => IsServed(tdec', tconn')
  <1>1. PICK done : done = decode_buffer2buffer(tdec, tdata, tsize)
    OBVIOUS
  <1>2. /\ tdata' = done.buffer /\ tlength' = done.length /\ tdec' = tdec /\ tconn' = tconn
        /\ done.how = "returns" => tpc' \notin {"hung", "aborted"}
    BY <1>1 DEF TcpDecode
  <1>3. SUFFICES ASSUME Determined(tdec), Known(tdec, tconn.packet), tconn.how = "all"
                 PROVE  /\ done.how = "returns"
                        /\ (tdec.valid_sizes = {} /\ (tdec.mode = 0 \/ (Plain(tdec, tconn.packet) /\ Len(tconn.packet) < TcpBuffer)))
                              => SubSeq(done.buffer, 1, done.length) = IF tdec.mode = 0 THEN tconn.packet ELSE Append(tconn.packet, 0)
    <2>1. IsPacket(tdec, tconn, SubSeq(done.buffer, 1, done.length))
      <3>1. SUFFICES ASSUME Determined(tdec), tconn.how = "all", tdec.valid_sizes = {},
                            tdec.mode = 0 \/ (Plain(tdec, tconn.packet) /\ Len(tconn.packet) < TcpBuffer)
                     PROVE  SubSeq(done.buffer, 1, done.length) = IF tdec.mode = 0 THEN tconn.packet ELSE Append(tconn.packet, 0)
        BY Zenon DEF IsPacket
      <3>2. Known(tdec, tconn.packet)
        BY <3>1, PlainIsKnown DEF Known
      <3> QED BY <1>3, <3>1, <3>2, Zenon
    <2>2. done.how # "returns" => IsServed(tdec, tconn)
      BY <1>3, Zenon DEF IsServed
    <2> QED BY <1>2, <2>1, <2>2, Zenon
  <1>4. PICK packet : packet = tconn.packet
    OBVIOUS
  <1>5. PICK w : w = tconn.bytes
    OBVIOUS
  <1>6. /\ packet \in Seq(Byte) /\ Sendable(tdec, packet) /\ w = OnWire(tdec, packet) /\ tsize = Len(w)
        /\ w \in Seq(Byte) /\ Len(w) <= TcpBuffer /\ Agree(tdata, w, Len(w)) /\ IsBuffer(tdata, TcpBuffer)
        /\ tdec \in Decoders
    BY <1>3, <1>4, <1>5, Zenon DEF TcpInv, WireInv, TcpDecode
  <1>7. TcpBuffer \in Nat /\ tdec.offset \in Nat /\ (tdec.mode # 0 => IsPrefixCode(tdec.tree.code))
    BY <1>6, DecodersAssumption, TreesAssumption
  <1>8. done = decode_buffer2buffer(tdec, tdata, Len(w))
    BY <1>1, <1>6, Zenon
  <1>9. CASE tdec.mode = 0
    <2>1. w = packet
      BY <1>6, <1>9, Zenon DEF OnWire
    <2>2. Len(packet) <= TcpBuffer /\ Agree(tdata, packet, Len(packet)) /\ done = decode_buffer2buffer(tdec, tdata, Len(packet))
      BY <1>6, <1>8, <2>1, Zenon
    <2>3. done.how = "returns" /\ SubSeq(done.buffer, 1, done.length) = packet
      BY <1>6, <1>7, <1>9, <2>2, DecodesPlainly
    <2> QED BY <1>4, <1>9, <2>3, Zenon
  <1>10. CASE tdec.mode # 0
    <2>1. /\ done.how = "returns"
          /\ (tdec.valid_sizes = {} /\ Plain(tdec, packet) /\ Len(packet) < TcpBuffer) =>
                SubSeq(done.buffer, 1, done.length) = Append(packet, 0)
      <3>1. Known(tdec, packet)
        BY <1>3, <1>4, Zenon
      <3>2. Whole(tdec, packet, TcpBuffer, tdata, w)
        BY <1>3, <1>6, <1>7, <1>10, <3>1, Zenon DEF Whole
      <3> QED BY <1>8, <3>2, DecodesCompressed
    <2> QED BY <1>4, <1>10, <2>1, Zenon
  <1> QED BY <1>9, <1>10

LEMMA StepWire ==
    ASSUME TcpInv, WireInv, PayloadIsPacket, [TcpNext]_tcpVars
    PROVE  (WireInv /\ PayloadIsPacket)'
  <1>1. CASE tcp_receiever_nano
    BY <1>1 DEF tcp_receiever_nano, WireInv, PayloadIsPacket
  <1>2. CASE TcpLoop \/ TcpNotAccepted
    <2>1. tpc' \in {"accept", "ended", "start", "loop"} /\ tsent' = tsent
      BY <1>2 DEF TcpLoop, TcpNotAccepted, TcpInv
    <2> QED BY <2>1 DEF WireInv, PayloadIsPacket
  <1>3. CASE TcpRead
    <2>1. PICK packet \in Packets, how \in {"all", "part", "nothing", "fails"} :
             LET wire == OnWire(tdec, packet)
                 bytes == CASE how = "all" -> wire
                            [] how = "part" -> SubSeq(wire, 1, Len(wire) \div 2)
                            [] OTHER -> <<>>
             IN /\ Sendable(tdec, packet)
                /\ tconn' = [packet |-> packet, how |-> how, bytes |-> bytes]
                /\ tsize' = IF how = "fails" THEN -1 ELSE Len(bytes)
      BY <1>3, Zenon DEF TcpRead
    <2>2. tpc' = "decode" /\ tdec' = tdec /\ tsent' = tsent
      BY <1>3 DEF TcpRead
    <2>3. packet \in Seq(Byte)
      BY PacketsAssumption
    <2> DEFINE bytes == CASE how = "all" -> OnWire(tdec, packet)
                          [] how = "part" -> SubSeq(OnWire(tdec, packet), 1, Len(OnWire(tdec, packet)) \div 2)
                          [] OTHER -> <<>>
    <2>4. Sendable(tdec, packet) /\ tconn' = [packet |-> packet, how |-> how, bytes |-> bytes]
          /\ tsize' = IF how = "fails" THEN -1 ELSE Len(bytes)
      BY <2>1, Zenon
    <2>5. how = "all" => bytes = OnWire(tdec, packet)
      OBVIOUS
    <2> HIDE DEF bytes
    <2>6. tconn'.packet = packet /\ tconn'.how = how /\ tconn'.bytes = bytes
      BY <2>4
    <2>7. tconn'.how = "all" => tconn'.bytes = OnWire(tdec', tconn'.packet) /\ tsize' = Len(tconn'.bytes)
      <3>1. SUFFICES ASSUME how = "all" PROVE bytes = OnWire(tdec, packet) /\ tsize' = Len(bytes)
        BY <2>2, <2>6, Zenon
      <3>2. how # "fails"
        BY <3>1
      <3> QED BY <2>4, <2>5, <3>1, <3>2, Zenon
    <2>8. tconn'.packet \in Seq(Byte) /\ Sendable(tdec', tconn'.packet)
      BY <2>2, <2>3, <2>4, <2>6, Zenon
    <2>9. tpc' # "send" /\ tpc' \notin {"hung", "aborted"}
      BY <2>2
    <2> QED BY <2>2, <2>7, <2>8, <2>9, Zenon DEF WireInv, PayloadIsPacket
  <1>4. CASE TcpDecode
    <2>1. tpc' # "decode" /\ tsent' = tsent
      BY <1>4 DEF TcpDecode
    <2> QED BY <1>4, <2>1, DecodeIsPacket, Zenon DEF WireInv, PayloadIsPacket
  <1>5. CASE TcpSend
    <2>1. IsPacket(tdec, tconn, SubSeq(tdata, 1, tlength))
      BY <1>5, Zenon DEF TcpSend, WireInv
    <2>2. WireInv'
      <3>1. tpc' = "loop"
        BY <1>5 DEF TcpSend
      <3> QED BY <3>1 DEF WireInv
    <2>3. CASE tsent' = tsent
      BY <2>2, <2>3, Zenon DEF PayloadIsPacket
    <2>4. CASE tsent' = <<[of |-> tconn, dec |-> tdec, payload |-> SubSeq(tdata, 1, tlength)]>>
      <3>0. PICK load : load = SubSeq(tdata, 1, tlength)
        OBVIOUS
      <3>1. PICK p : p = [of |-> tconn, dec |-> tdec, payload |-> load]
        OBVIOUS
      <3>2. p.of = tconn /\ p.dec = tdec /\ p.payload = load
        BY <3>1
      <3>3. IsPacket(p.dec, p.of, p.payload)
        BY <2>1, <3>0, <3>2, Zenon
      <3>4. tsent' = <<p>>
        BY <2>4, <3>0, <3>1, Zenon
      <3>5. \A j \in 1..Len(tsent') : tsent'[j] = p
        BY <3>4
      <3>6. PayloadIsPacket'
        BY <3>3, <3>5, Zenon DEF PayloadIsPacket, IsPacket
      <3> QED BY <2>2, <3>6
    <2> QED BY <1>5, <2>3, <2>4 DEF TcpSend
  <1>6. CASE TcpSignal \/ UNCHANGED tcpVars
    BY <1>6, Zenon DEF TcpSignal, tcpVars, WireInv, PayloadIsPacket
  <1> QED BY <1>1, <1>2, <1>3, <1>4, <1>5, <1>6 DEF TcpNext, TcpStep

LEMMA WireInvariance == Spec => [](WireInv /\ PayloadIsPacket)
  <1>1. Init => TcpInv /\ NoLeftovers /\ WireInv /\ PayloadIsPacket
    BY TcpInitHolds, WireInitHolds DEF Init
  <1>2. TcpInv /\ NoLeftovers /\ WireInv /\ PayloadIsPacket /\ [Next]_stationVars
            => (TcpInv /\ NoLeftovers /\ WireInv /\ PayloadIsPacket)'
    <2>1. [Next]_stationVars => [TcpNext]_tcpVars
      BY DEF Next, Tcp, Mqtt, File, stationVars, tcpVars
    <2> QED BY <2>1, StepTcp, StepWire
  <1> QED BY <1>1, <1>2, PTL DEF Spec

\* Whatever the table, the packet and the buffer that earlier packets have used: what
\* compress_buffer() made of a packet and one read() took as a whole, decompress_stream()
\* and decode_buffer2buffer() make into that packet again, with the zero byte that the EOF
\* symbol is counted for, and setLength() cuts it there.
THEOREM PacketsArrive == Spec => []PayloadIsPacket
  BY WireInvariance, PTL

\* No packet that was read as a whole makes decompress_stream() turn for ever or ends the
\* program, if the escape and the EOF code belong to the table and there is a code, or an
\* escape code, for each of its bytes.
THEOREM PacketsAreServed == Spec => []WholePacketIsServed
  <1>1. WireInv => WholePacketIsServed
    BY Zenon DEF WireInv, WholePacketIsServed, IsServed
  <1> QED BY <1>1, WireInvariance, PTL

-----------------------------------------------------------------------------
(* The trees of codes. *)

\* What IsPrefix() says of two codes, bit by bit.
LEMMA PrefixBits ==
    ASSUME NEW a \in Seq({0, 1}), NEW b \in Seq({0, 1})
    PROVE  IsPrefix(a, b) <=> Len(a) <= Len(b) /\ \A i \in 1..Len(a) : a[i] = b[i]
  <1>1. PICK m \in Nat, n \in Nat : m = Len(a) /\ n = Len(b)
    OBVIOUS
  <1>2. CASE m <= n
    <2>1. SubSeq(a, 1, m) = a
      BY <1>1, SubSeqFull
    <2>2. PICK p : p = First(b, m)
      OBVIOUS
    <2>3. p \in Seq({0, 1}) /\ Len(p) = m
      <3>1. m \in 0..Len(b)
        BY <1>1, <1>2
      <3> QED BY <2>2, <3>1, Firsts
    <2>4. \A i \in 1..m : p[i] = b[i]
      <3>1. \A i \in 1..m : b[i] \in {0, 1}
        BY <1>1, <1>2
      <3>2. \A i \in 1..(m - 1 + 1) : SubSeq(b, 1, m)[i] = b[1 + i - 1]
        BY <3>1, SubSeqProperties
      <3>3. m - 1 + 1 = m /\ \A i \in 1..m : 1 + i - 1 = i
        OBVIOUS
      <3> QED BY <2>2, <3>2, <3>3 DEF First
    <2>5. (a = p) <=> \A i \in 1..m : a[i] = b[i]
      <3>1. ASSUME \A i \in 1..m : a[i] = b[i] PROVE a = p
        <4>1. \A i \in 1..Len(a) : a[i] = p[i]
          BY <1>1, <2>4, <3>1
        <4> QED BY <1>1, <2>3, <4>1, SeqEqual
      <3> QED BY <2>4, <3>1
    <2>6. IsPrefix(a, b) <=> m <= n /\ a = p
      BY <1>1, <2>1, <2>2, Zenon DEF IsPrefix, First
    <2> QED BY <1>1, <2>5, <2>6, Zenon
  <1>3. CASE ~(m <= n)
    BY <1>1, <1>3, Zenon DEF IsPrefix
  <1> QED BY <1>2, <1>3

\* A bit more in front of two codes.
LEMMA BitInFront ==
    ASSUME NEW a \in Seq({0, 1}), NEW b \in Seq({0, 1}), NEW x \in {0, 1}, NEW y \in {0, 1}
    PROVE  /\ <<x>> \o a \in Seq({0, 1}) /\ <<y>> \o b \in Seq({0, 1})
           /\ IsPrefix(<<x>> \o a, <<y>> \o b) => x = y /\ IsPrefix(a, b)
  <1>0. <<x>> \in Seq({0, 1}) /\ <<y>> \in Seq({0, 1})
    OBVIOUS
  <1>1. PICK p \in Seq({0, 1}), q \in Seq({0, 1}) : p = <<x>> /\ q = <<y>>
    BY <1>0, Zenon
  <1>2. Len(p) = 1 /\ p[1] = x /\ Len(q) = 1 /\ q[1] = y
    BY <1>1
  <1>3. PICK u : u = p \o a
    OBVIOUS
  <1>4. PICK v : v = q \o b
    OBVIOUS
  <1>5. IsJoin({0, 1}, p, a, u) /\ IsJoin({0, 1}, q, b, v)
    BY <1>3, <1>4, Join
  <1>6. /\ u \in Seq({0, 1}) /\ Len(u) = 1 + Len(a) /\ (\A i \in 1..1 : u[i] = p[i]) /\ \A i \in 1..Len(a) : u[1 + i] = a[i]
        /\ v \in Seq({0, 1}) /\ Len(v) = 1 + Len(b) /\ (\A i \in 1..1 : v[i] = q[i]) /\ \A i \in 1..Len(b) : v[1 + i] = b[i]
    BY <1>2, <1>5, Zenon DEF IsJoin
  <1>7. PICK m \in Nat, n \in Nat : m = Len(a) /\ n = Len(b)
    OBVIOUS
  <1>8. ASSUME IsPrefix(u, v) PROVE x = y /\ IsPrefix(a, b)
    <2>1. Len(u) <= Len(v) /\ \A i \in 1..Len(u) : u[i] = v[i]
      BY <1>6, <1>8, PrefixBits
    <2>2. m <= n
      BY <1>6, <1>7, <2>1
    <2>3. x = y
      <3>1. 1 \in 1..Len(u) /\ 1 \in 1..1
        BY <1>6, <1>7
      <3> QED BY <1>2, <1>6, <2>1, <3>1
    <2>4. ASSUME NEW i \in 1..m PROVE a[i] = b[i]
      <3>1. 1 + i \in 1..Len(u) /\ i \in 1..n
        BY <1>6, <1>7, <2>2
      <3> QED BY <1>6, <1>7, <2>1, <3>1
    <2>5. IsPrefix(a, b)
      BY <1>7, <2>2, <2>4, PrefixBits
    <2> QED BY <2>3, <2>5
  <1> QED BY <1>1, <1>3, <1>4, <1>6, <1>8, Zenon

\* A tree of U: a prefix code of the symbols of U.
IsTreeOf(t, U) == IsPrefixCode(t.code) /\ DOMAIN t.code = U /\ U # {}

LEMMA LeafIsTree ==
    ASSUME NEW n, NEW c \in Byte
    PROVE  IsTreeOf(LeafNode(n, c), {c})
  <1>1. PICK code : code = LeafNode(n, c).code
    OBVIOUS
  <1>2. code = [s \in {c} |-> <<>>]
    BY <1>1 DEF LeafNode
  <1>3. DOMAIN code = {c} /\ code[c] = <<>> /\ code[c] \in Seq({0, 1})
    BY <1>2
  <1>4. IsPrefixCode(code)
    BY <1>3 DEF IsPrefixCode
  <1> QED BY <1>1, <1>3, <1>4 DEF IsTreeOf

LEMMA NodeIsTree ==
    ASSUME NEW l, NEW r, NEW U, NEW V, IsTreeOf(l, U), IsTreeOf(r, V), U \cap V = {}
    PROVE  IsTreeOf(InternalNode(l, r), U \cup V)
  <1>1. PICK a, b : a = l.code /\ b = r.code
    OBVIOUS
  <1>2. IsPrefixCode(a) /\ IsPrefixCode(b) /\ DOMAIN a = U /\ DOMAIN b = V /\ U # {}
    BY <1>1 DEF IsTreeOf
  <1>3. PICK code : code = InternalNode(l, r).code
    OBVIOUS
  <1>4. code = [s \in U \cup V |-> IF s \in U THEN <<0>> \o a[s] ELSE <<1>> \o b[s]]
    BY <1>1, <1>2, <1>3 DEF InternalNode
  <1>5. \A s \in U : s \in U \cup V /\ code[s] = <<0>> \o a[s]
    BY <1>4
  <1>6. \A s \in V : s \in U \cup V /\ code[s] = <<1>> \o b[s]
    BY <1>4
  <1>7. \A s \in U : s \in Byte /\ a[s] \in Seq({0, 1})
    BY <1>2, Zenon DEF IsPrefixCode
  <1>8. \A s \in V : s \in Byte /\ b[s] \in Seq({0, 1})
    BY <1>2, Zenon DEF IsPrefixCode
  <1>9. DOMAIN code = U \cup V
    BY <1>4
  <1>10. 0 \in {0, 1} /\ 1 \in {0, 1} /\ 0 # 1
    OBVIOUS
  <1>11. ASSUME NEW s \in U PROVE code[s] \in Seq({0, 1})
    <2>1. <<0>> \o a[s] \in Seq({0, 1})
      BY <1>7, <1>10, BitInFront
    <2> QED BY <1>5, <2>1, Zenon
  <1>12. ASSUME NEW s \in V PROVE code[s] \in Seq({0, 1})
    <2>1. <<1>> \o b[s] \in Seq({0, 1})
      BY <1>8, <1>10, BitInFront
    <2> QED BY <1>6, <2>1, Zenon
  <1>13. ASSUME NEW s \in U \cup V, NEW t \in U \cup V, s # t PROVE ~IsPrefix(code[s], code[t])
    <2>1. CASE s \in U /\ t \in U
      <3>1. ~IsPrefix(a[s], a[t])
        BY <1>2, <1>13, <2>1, Zenon DEF IsPrefixCode
      <3>2. ~IsPrefix(<<0>> \o a[s], <<0>> \o a[t])
        BY <1>7, <1>10, <2>1, <3>1, BitInFront
      <3> QED BY <1>5, <2>1, <3>2, Zenon
    <2>2. CASE s \in V /\ t \in V
      <3>1. ~IsPrefix(b[s], b[t])
        BY <1>2, <1>13, <2>2, Zenon DEF IsPrefixCode
      <3>2. ~IsPrefix(<<1>> \o b[s], <<1>> \o b[t])
        BY <1>8, <1>10, <2>2, <3>1, BitInFront
      <3> QED BY <1>6, <2>2, <3>2, Zenon
    <2>3. CASE s \in U /\ t \in V
      <3>1. ~IsPrefix(<<0>> \o a[s], <<1>> \o b[t])
        BY <1>7, <1>8, <1>10, <2>3, BitInFront
      <3> QED BY <1>5, <1>6, <2>3, <3>1, Zenon
    <2>4. CASE s \in V /\ t \in U
      <3>1. ~IsPrefix(<<1>> \o b[s], <<0>> \o a[t])
        BY <1>7, <1>8, <1>10, <2>4, BitInFront
      <3> QED BY <1>5, <1>6, <2>4, <3>1, Zenon
    <2> QED BY <2>1, <2>2, <2>3, <2>4
  <1>14. IsPrefixCode(code)
    <2>1. \A s \in DOMAIN code : s \in Byte /\ code[s] \in Seq({0, 1})
      BY <1>7, <1>8, <1>9, <1>11, <1>12
    <2> QED BY <1>9, <1>13, <2>1, Zenon DEF IsPrefixCode
  <1> QED BY <1>2, <1>3, <1>9, <1>14 DEF IsTreeOf

\* A forest over U: trees with no symbol in common.
Symbols(F) == UNION {DOMAIN t.code : t \in F}
Forest(F, U) ==
    /\ IsFiniteSet(F) /\ \A t \in F : IsTreeOf(t, DOMAIN t.code)
    /\ \A t, u \in F : t # u => DOMAIN t.code \cap DOMAIN u.code = {}
    /\ Symbols(F) = U

\* Two trees of a forest are joined.
LEMMA JoinTwo ==
    ASSUME NEW F, NEW U, Forest(F, U), NEW a \in F, NEW b \in F, a # b, NEW c,
           IsTreeOf(c, DOMAIN a.code \cup DOMAIN b.code), NEW G, G = (F \ {a, b}) \cup {c}
    PROVE  Forest(G, U) /\ Cardinality(G) = Cardinality(F) - 1 /\ Cardinality(F) \in Nat
  <1>1. PICK A, B : A = DOMAIN a.code /\ B = DOMAIN b.code
    OBVIOUS
  <1>2. /\ IsFiniteSet(F) /\ \A t \in F : IsTreeOf(t, DOMAIN t.code)
        /\ \A t, u \in F : t # u => DOMAIN t.code \cap DOMAIN u.code = {}
        /\ Symbols(F) = U
    BY Zenon DEF Forest
  <1>3. DOMAIN c.code = A \cup B /\ A # {} /\ B # {}
    BY <1>1, <1>2 DEF IsTreeOf
  <1>4. PICK H : H = F \ {a, b}
    OBVIOUS
  <1>5. \A t \in H : t \in F /\ DOMAIN t.code \cap A = {} /\ DOMAIN t.code \cap B = {}
    BY <1>1, <1>2, <1>4
  <1>6. c \notin H
    BY <1>3, <1>5
  <1>7. /\ IsFiniteSet(G) /\ Cardinality(G) = Cardinality(F) - 1 /\ Cardinality(F) \in Nat
    <2>1. PICK E : E = F \ {a}
      OBVIOUS
    <2>2. IsFiniteSet(E) /\ Cardinality(E) = Cardinality(F) - 1 /\ Cardinality(F) \in Nat
      BY <1>2, <2>1, FS_RemoveElement, FS_CardinalityType
    <2>3. H = E \ {b} /\ b \in E
      BY <1>4, <2>1
    <2>4. IsFiniteSet(H) /\ Cardinality(H) = Cardinality(E) - 1
      BY <2>2, <2>3, FS_RemoveElement
    <2>5. IsFiniteSet(H \cup {c}) /\ Cardinality(H \cup {c}) = Cardinality(H) + 1
      BY <1>6, <2>4, FS_AddElement
    <2> QED BY <1>4, <2>2, <2>4, <2>5
  <1>8. \A t \in G : t = c \/ t \in H
    BY <1>4
  <1>9. \A t \in G : IsTreeOf(t, DOMAIN t.code)
    BY <1>1, <1>2, <1>3, <1>5, <1>8, Zenon
  <1>10. ASSUME NEW t \in G, NEW u \in G, t # u PROVE DOMAIN t.code \cap DOMAIN u.code = {}
    <2>1. CASE t \in H /\ u \in H
      BY <1>2, <1>5, <1>10, <2>1, Zenon
    <2>2. CASE t = c /\ u \in H
      BY <1>3, <1>5, <2>2
    <2>3. CASE t \in H /\ u = c
      BY <1>3, <1>5, <2>3
    <2> QED BY <1>8, <1>10, <2>1, <2>2, <2>3
  <1>11. Symbols(G) = U
    <2>1. ASSUME NEW s \in Symbols(G) PROVE s \in U
      <3>1. PICK t \in G : s \in DOMAIN t.code
        BY <2>1, Zenon DEF Symbols
      <3>2. CASE t \in H
        BY <1>2, <1>5, <3>1, <3>2, Zenon DEF Symbols
      <3>3. CASE t = c
        <4>1. s \in DOMAIN a.code \/ s \in DOMAIN b.code
          BY <1>1, <1>3, <3>1, <3>3
        <4> QED BY <1>2, <4>1, Zenon DEF Symbols
      <3> QED BY <1>8, <3>2, <3>3
    <2>2. ASSUME NEW s \in U PROVE s \in Symbols(G)
      <3>1. PICK t \in F : s \in DOMAIN t.code
        BY <1>2, <2>2, Zenon DEF Symbols
      <3>2. CASE t \in {a, b}
        <4>1. s \in DOMAIN c.code /\ c \in G
          BY <1>1, <1>3, <3>1, <3>2
        <4> QED BY <4>1, Zenon DEF Symbols
      <3>3. CASE t \notin {a, b}
        <4>1. t \in G
          BY <3>3
        <4> QED BY <3>1, <4>1, Zenon DEF Symbols
      <3> QED BY <3>2, <3>3
    <2> QED BY <2>1, <2>2
  <1> QED BY <1>7, <1>9, <1>10, <1>11, Zenon DEF Forest

LEMMA JoinsForest ==
    ASSUME NEW F, NEW U, Forest(F, U), NEW left \in BOOLEAN, NEW G \in Joins(F, left)
    PROVE  Forest(G, U) /\ Cardinality(G) = Cardinality(F) - 1 /\ Cardinality(F) \in Nat
  <1>1. PICK p \in F \X F : /\ p[1] \in Tops(F) /\ p[2] \in Tops(F \ {p[1]})
                           /\ G = (F \ {p[1], p[2]}) \cup {IF left THEN InternalNode(p[1], p[2]) ELSE InternalNode(p[2], p[1])}
    BY Zenon DEF Joins
  <1>2. PICK a, b : a = p[1] /\ b = p[2]
    OBVIOUS
  <1>3. a \in F /\ b \in F /\ a # b
    BY <1>1, <1>2 DEF Tops
  <1>4. PICK c : c = IF left THEN InternalNode(a, b) ELSE InternalNode(b, a)
    OBVIOUS
  <1>5. PICK A, B : A = DOMAIN a.code /\ B = DOMAIN b.code
    OBVIOUS
  <1>6. IsTreeOf(a, A) /\ IsTreeOf(b, B) /\ A \cap B = {} /\ B \cap A = {}
    <2>1. IsTreeOf(a, A) /\ IsTreeOf(b, B) /\ A \cap B = {}
      BY <1>3, <1>5, Zenon DEF Forest
    <2> QED BY <2>1
  <1>7. IsTreeOf(InternalNode(a, b), A \cup B) /\ IsTreeOf(InternalNode(b, a), B \cup A)
    BY <1>6, NodeIsTree
  <1>8. IsTreeOf(c, DOMAIN a.code \cup DOMAIN b.code)
    <2>1. B \cup A = A \cup B
      OBVIOUS
    <2> QED BY <1>4, <1>5, <1>7, <2>1, Zenon
  <1>9. G = (F \ {a, b}) \cup {c}
    BY <1>1, <1>2, <1>4, Zenon
  <1> QED BY <1>3, <1>8, <1>9, JoinTwo

\* A forest of one tree.
LEMMA OneTree ==
    ASSUME NEW F, NEW U, Forest(F, U), Cardinality(F) = 1, NEW t \in F
    PROVE  IsTreeOf(t, U)
  <1>1. IsFiniteSet(F)
    BY Zenon DEF Forest
  <1>2. PICK x : F = {x}
    BY <1>1, FS_Singleton
  <1>3. F = {t}
    BY <1>2
  <1>4. DOMAIN t.code = U
    <2>1. Symbols(F) = U
      BY Zenon DEF Forest
    <2>2. Symbols(F) = DOMAIN t.code
      BY <1>3 DEF Symbols
    <2> QED BY <2>1, <2>2
  <1> QED BY <1>4, Zenon DEF Forest

\* Joining until one is left.
LEMMA JoinedIsTree ==
    ASSUME NEW F, NEW U, Forest(F, U), F # {}, NEW left \in BOOLEAN, NEW t \in Joined(F, left)
    PROVE  IsTreeOf(t, U)
  <1>1. PICK N \in Nat : N = Cardinality(F) /\ N # 0
    <2>1. IsFiniteSet(F)
      BY Zenon DEF Forest
    <2>2. Cardinality(F) \in Nat /\ Cardinality(F) # 0
      BY <2>1, FS_CardinalityType, FS_EmptySet
    <2> QED BY <2>2
  <1> DEFINE Turn(h, n) == IF n = 0 THEN {F} ELSE UNION {Joins(forest, left) : forest \in h[n - 1]}
             Is(h, m) == h = [n \in 0..m |-> Turn(h, n)]
             P == {m \in Nat : \E h : Is(h, m)}
  <1>2. 0 \in P
    <2>1. PICK h : h = [j \in 0..0 |-> Turn(<<>>, 0)]
      OBVIOUS
    <2>2. Turn(<<>>, 0) = Turn(h, 0) /\ \A j \in 0..0 : j = 0
      OBVIOUS
    <2> HIDE DEF Turn
    <2>3. h = [j \in 0..0 |-> Turn(h, j)]
      BY <2>1, <2>2
    <2> QED BY <2>3
  <1>3. ASSUME NEW m \in Nat, m \in P PROVE m + 1 \in P
    <2>1. PICK h : Is(h, m)
      BY <1>3
    <2>2. PICK g : g = [j \in 0..(m + 1) |-> Turn(h, j)]
      OBVIOUS
    <2>3. ASSUME NEW j \in 0..(m + 1) PROVE Turn(g, j) = Turn(h, j)
      <3>1. CASE j = 0
        BY <3>1
      <3>2. CASE j # 0
        <4>1. j - 1 \in 0..m /\ j - 1 \in 0..(m + 1)
          BY <3>2
        <4> HIDE DEF Turn
        <4>2. h[j - 1] = Turn(h, j - 1) /\ g[j - 1] = Turn(h, j - 1)
          BY <2>1, <2>2, <4>1
        <4>3. g[j - 1] = h[j - 1]
          BY <4>2
        <4> QED BY <4>3, Zenon DEF Turn
      <3> QED BY <3>1, <3>2
    <2> HIDE DEF Turn
    <2>4. Is(g, m + 1)
      BY <2>2, <2>3
    <2> HIDE DEF Is
    <2> QED BY <2>4
  <1>4. PICK h : Is(h, Cardinality(F))
    <2>1. \A m \in Nat : m \in P
      <3> HIDE DEF P
      <3> QED BY <1>2, <1>3, Induction
    <2> QED BY <1>1, <2>1
  <1> DEFINE g == CHOOSE g_ : g_ = [n \in 0..Cardinality(F) |->
                      IF n = 0 THEN {F} ELSE UNION {Joins(forest, left) : forest \in g_[n - 1]}]
  <1>5. t \in UNION g[Cardinality(F) - 1]
    BY DEF Joined
  <1>6. Is(g, Cardinality(F))
    BY <1>4
  <1> HIDE DEF g
  <1>7. \A n \in 0..N : g[n] = Turn(g, n)
    <2> HIDE DEF Turn
    <2> QED BY <1>1, <1>6
  <1> DEFINE Q == {n \in Nat : n < N => \A G \in g[n] : Forest(G, U) /\ Cardinality(G) = N - n}
  <1>8. 0 \in Q
    <2>1. g[0] = {F}
      <3>1. 0 \in 0..N
        OBVIOUS
      <3> QED BY <1>7, <3>1
    <2>2. N - 0 = N
      OBVIOUS
    <2> QED BY <1>1, <2>1, <2>2
  <1>9. ASSUME NEW n \in Nat, n \in Q PROVE n + 1 \in Q
    <2> SUFFICES ASSUME n + 1 < N, NEW G \in g[n + 1] PROVE Forest(G, U) /\ Cardinality(G) = N - (n + 1)
      OBVIOUS
    <2>1. n + 1 \in 0..N /\ n + 1 # 0 /\ (n + 1) - 1 = n /\ n < N
      OBVIOUS
    <2>2. g[n + 1] = UNION {Joins(forest, left) : forest \in g[n]}
      BY <1>7, <2>1, Zenon
    <2>3. PICK forest \in g[n] : G \in Joins(forest, left)
      BY <2>2, Zenon
    <2>4. Forest(forest, U) /\ Cardinality(forest) = N - n
      BY <1>9, <2>1
    <2>5. Forest(G, U) /\ Cardinality(G) = Cardinality(forest) - 1
      BY <2>3, <2>4, JoinsForest
    <2>6. (N - n) - 1 = N - (n + 1)
      OBVIOUS
    <2> QED BY <2>4, <2>5, <2>6, Zenon
  <1>10. N - 1 \in Q
    <2>1. N - 1 \in Nat
      BY <1>1
    <2> HIDE DEF Q
    <2> QED BY <1>8, <1>9, <2>1, Induction
  <1>11. \A G \in g[N - 1] : Forest(G, U) /\ Cardinality(G) = 1
    <2>1. N - 1 < N /\ N - (N - 1) = 1
      BY <1>1
    <2>2. \A G \in g[N - 1] : Forest(G, U) /\ Cardinality(G) = N - (N - 1)
      BY <1>10, <2>1
    <2> QED BY <2>1, <2>2, Zenon
  <1>12. PICK G \in g[N - 1] : t \in G
    BY <1>1, <1>5, Zenon
  <1> QED BY <1>11, <1>12, OneTree

\* The leaves that both functions fill the priority queue with are a forest of their symbols.
LEMMA LeavesAreForest ==
    ASSUME NEW S \in SUBSET Byte, NEW w
    PROVE  Forest({LeafNode(w[s], s) : s \in S}, S)
  <1>1. PICK F : F = {LeafNode(w[s], s) : s \in S}
    OBVIOUS
  <1>2. IsFiniteSet(Byte)
    <2>1. PICK k \in Nat \ {0} : k = 2^Bits
      BY BitsAssumption, Powers
    <2>2. 0 \in Int /\ k - 1 \in Int
      BY <2>1
    <2>3. IsFiniteSet(0..(k - 1))
      BY <2>2, FS_Interval
    <2> QED BY <2>1, <2>3 DEF Byte
  <1>3. IsFiniteSet(S)
    BY <1>2, FS_Subset
  <1>4. IsFiniteSet(F)
    <2> DEFINE g == [s \in S |-> LeafNode(w[s], s)]
    <2>1. g \in Surjection(S, F)
      <3>1. g \in [S -> F] /\ \A t \in F : \E s \in S : g[s] = t
        BY <1>1
      <3> QED BY <3>1 DEF Surjection
    <2> HIDE DEF g
    <2> QED BY <1>3, <2>1, FS_Surjection
  <1>5. ASSUME NEW s \in S PROVE IsTreeOf(LeafNode(w[s], s), {s}) /\ DOMAIN LeafNode(w[s], s).code = {s}
    <2>1. s \in Byte
      OBVIOUS
    <2>2. IsTreeOf(LeafNode(w[s], s), {s})
      BY <2>1, LeafIsTree
    <2> QED BY <2>2, Zenon DEF IsTreeOf
  <1>6. ASSUME NEW t \in F PROVE \E s \in S : t = LeafNode(w[s], s) /\ IsTreeOf(t, DOMAIN t.code) /\ DOMAIN t.code = {s}
    <2>1. PICK s \in S : t = LeafNode(w[s], s)
      BY <1>1, <1>6
    <2> QED BY <1>5, <2>1, Zenon
  <1>7. ASSUME NEW t \in F, NEW u \in F, t # u PROVE DOMAIN t.code \cap DOMAIN u.code = {}
    <2>1. PICK s \in S : t = LeafNode(w[s], s) /\ DOMAIN t.code = {s}
      BY <1>6
    <2>2. PICK v \in S : u = LeafNode(w[v], v) /\ DOMAIN u.code = {v}
      BY <1>6
    <2>3. s # v
      BY <1>7, <2>1, <2>2, Zenon
    <2> QED BY <2>1, <2>2, <2>3
  <1>8. Symbols(F) = S
    <2>1. ASSUME NEW s \in S PROVE s \in Symbols(F)
      <3>1. LeafNode(w[s], s) \in F /\ s \in DOMAIN LeafNode(w[s], s).code
        BY <1>1, <1>5
      <3> QED BY <3>1, Zenon DEF Symbols
    <2>2. ASSUME NEW s \in Symbols(F) PROVE s \in S
      <3>1. PICK t \in F : s \in DOMAIN t.code
        BY <2>2, Zenon DEF Symbols
      <3> QED BY <1>6, <3>1
    <2> QED BY <2>1, <2>2
  <1> QED BY <1>1, <1>4, <1>6, <1>7, <1>8, Zenon DEF Forest

LeavesOf(w, S) == {LeafNode(w[s], s) : s \in S}

\* Joining the leaves of the symbols of a set gives a prefix code of exactly that set.
LEMMA JoinedLeaves ==
    ASSUME NEW S \in SUBSET Byte, NEW w, NEW left \in BOOLEAN,
           NEW F, F = LeavesOf(w, S), NEW t \in Joined(F, left)
    PROVE  IsPrefixCode(t.code) /\ DOMAIN t.code = S
  <1>2. Forest(F, S)
    BY LeavesAreForest DEF LeavesOf
  <1>3. t \in Joined(F, left)
    OBVIOUS
  <1>4. IsTreeOf(t, S)
    <2>1. F # {}
      BY <1>3 DEF Joined
    <2> QED BY <1>2, <1>3, <2>1, JoinedIsTree
  <1> QED BY <1>4 DEF IsTreeOf

\* Whatever the frequencies and however the priority queue breaks ties: the tree that
\* buildTree() makes is a prefix code of exactly the symbols that occur, so that no code is
\* the beginning of another and the decoder's walk down the tree ends at one symbol.
THEOREM TreesAreCodes ==
    ASSUME NEW f \in [Byte -> Nat], NEW t \in buildTree(f)
    PROVE  IsPrefixCode(t.code) /\ DOMAIN t.code = {s \in Byte : f[s] # 0}
  <1>1. PICK S \in SUBSET Byte : S = {s \in Byte : f[s] # 0}
    OBVIOUS
  <1>2. {s \in DOMAIN f : f[s] # 0} = S
    BY <1>1
  <1>3. t \in Joined({LeafNode(f[s], s) : s \in S}, TRUE)
    BY <1>2, Zenon DEF buildTree
  <1>4. PICK F : F = LeavesOf(f, S)
    OBVIOUS
  <1>5. t \in Joined(F, TRUE)
    BY <1>3, <1>4, Zenon DEF LeavesOf
  <1>6. IsPrefixCode(t.code) /\ DOMAIN t.code = S
    BY <1>4, <1>5, JoinedLeaves
  <1> QED BY <1>1, <1>6

\* The same for buildTreeFromCodes(), whose priorities are made up from the order of the
\* symbols: a prefix code of exactly the symbols that have a line in the table, whatever the
\* codes of that table are.
THEOREM TablesAreCodes ==
    ASSUME NEW codes, DOMAIN codes \subseteq Byte, NEW t \in buildTreeFromCodes(codes)
    PROVE  IsPrefixCode(t.code) /\ DOMAIN t.code = DOMAIN codes
  <1>1. PICK S \in SUBSET Byte : S = DOMAIN codes
    OBVIOUS
  <1> DEFINE P(s) == Cardinality(S) + 1 - Cardinality({u \in S : u < s})
  <1>2. PICK w : w = [s \in S |-> P(s)]
    OBVIOUS
  <1>3. t \in Joined({LeafNode(P(s), s) : s \in S}, FALSE)
    BY <1>1, Zenon DEF buildTreeFromCodes
  <1>4. {LeafNode(P(s), s) : s \in S} = {LeafNode(w[s], s) : s \in S}
    <2> HIDE DEF P
    <2>1. \A s \in S : P(s) = w[s]
      BY <1>2
    <2> QED BY <2>1
  <1>5. t \in Joined({LeafNode(w[s], s) : s \in S}, FALSE)
    <2> HIDE DEF P
    <2> QED BY <1>3, <1>4, Zenon DEF LeavesOf
  <1>6. PICK F : F = LeavesOf(w, S)
    OBVIOUS
  <1>7. t \in Joined(F, FALSE)
    BY <1>5, <1>6, Zenon DEF LeavesOf
  <1>8. IsPrefixCode(t.code) /\ DOMAIN t.code = S
    BY <1>6, <1>7, JoinedLeaves
  <1> QED BY <1>1, <1>8

=============================================================================
