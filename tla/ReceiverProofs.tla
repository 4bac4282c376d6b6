---------------------------- MODULE ReceiverProofs ----------------------------
(***************************************************************************)
(* Proofs about Receiver, for every set of packets, sizes, .proto            *)
(* directories and failing buses, and any number of packets and signals.      *)
(***************************************************************************)
EXTENDS Receiver, TLAPS

USE PacketsAssumption, AllowedAssumption, DeclaredAssumption, FailingAssumption, ReceiverBounds

\* The counts at every place of a round.
Counts ==
    /\ pc \in {"start", "open", "loop", "classify", "errno", "sent", "unsent", "free", "flush",
               "close", "again"} => session_id = count_packet_in
    /\ pc \in {"waiting", "notify", "dump"} => session_id = count_packet_in + 1
    /\ count_packet_out <= count_packet_in
    /\ pc \in {"classify", "sent", "unsent"} => count_packet_out < count_packet_in

\* A round that has begun to wait has no packet yet, and a packet with a
\* payload has been dumped when it is classified.
Dumped ==
    /\ pc = "waiting" => cur = None
    /\ "dump" \notin failing /\ pc = "classify" /\ payload_size > 0 =>
           dump # <<>> /\ dump[Len(dump)] = cur

\* Before the first signal nothing was interrupted, nothing is requested, and
\* every return so far was a failure to open.
Undisturbed ==
    /\ pc = "runner" => entries <= Retries
    /\ pc \notin {"runner", "ended"} => entries > 0
    /\ delivered = 0 =>
           /\ errno = "other" /\ stop_request = 0
           /\ pc \notin {"close", "again"}
           /\ faults >= entries - 1
           /\ pc \in {"runner", "returned"} => faults >= entries
           /\ pc = "ended" => faults > Retries

IInv == TypeOK /\ Counts /\ Dumped /\ Undisturbed

-----------------------------------------------------------------------------

LEMMA PayloadMeansPacket ==
    ASSUME TypeOK, payload_size + HeaderSize > 0 \/ payload_size > 0
    PROVE  cur \in Packets /\ payload_size = Size[cur]
  BY DEF TypeOK, payload_size, HeaderSize

LEMMA ControlTypes ==
    ASSUME TypeOK, NEW t \in {RECEIVED, ERROR, MSG_SENT, EMPTY}, NEW a \in Nat, NEW b \in Nat,
           control_message(t, a, b)
    PROVE  control' \in Seq(Event) /\ errno' \in {"EINTR", "other"}
  <1>1. [session |-> session_id, in |-> a, out |-> b, typ |-> t] \in Event
    BY DEF Event, TypeOK
  <1>2. control \in Seq(Event) /\ errno \in {"EINTR", "other"}
    BY DEF TypeOK
  <1>3. Append(control, [session |-> session_id, in |-> a, out |-> b, typ |-> t]) \in Seq(Event)
    BY <1>1, <1>2
  <1> QED BY <1>2, <1>3 DEF control_message

LEMMA DumpTypes ==
    ASSUME TypeOK, dump_message
    PROVE  /\ dump' \in Seq(Packets) /\ errno' \in {"EINTR", "other"}
           /\ "dump" \notin failing /\ payload_size > 0 => dump' = Append(dump, cur)
  <1>1. dump \in Seq(Packets) /\ errno \in {"EINTR", "other"} /\ payload_size \in Int
    BY DEF TypeOK, payload_size, HeaderSize
  <1>2. CASE payload_size + HeaderSize > 0
    <2>1. cur \in Packets  BY <1>2, PayloadMeansPacket
    <2>2. Append(dump, cur) \in Seq(Packets)  BY <1>1, <2>1
    <2>3. \/ dump' = Append(dump, cur) /\ errno' = errno
          \/ "dump" \in failing /\ dump' = dump /\ errno' = "other"
      BY <1>1, <1>2 DEF dump_message, HeaderSize
    <2> QED  BY <1>1, <2>2, <2>3
  <1>3. CASE ~(payload_size + HeaderSize > 0)
    BY <1>1, <1>3 DEF dump_message, HeaderSize
  <1> QED BY <1>2, <1>3

\* What may fail is settled at the start.
LEMMA FailingKept == [Next]_vars => UNCHANGED failing
  BY DEF Next, Main, vars, outside, Enter, RunnerEnds, Start, Open, OpenFails, Close, Again, Returned,
     LoopTest, NotifyReceived, Dump, Short, TestErrno, Empty, Reject, SendOut, SendFails, NotifySent,
     NotifyUnsent, Free, EndRound, Receive, ReceiveFails, Signal

LEMMA StepTypeOK == IInv /\ [Next]_vars => TypeOK'
  <1> SUFFICES ASSUME IInv, [Next]_vars PROVE TypeOK'
    OBVIOUS
  <1> USE DEF IInv, TypeOK, Places, Undisturbed
  <1>1. CASE Enter  BY <1>1 DEF Enter, outside, buses, counters
  <1>2. CASE RunnerEnds  BY <1>2 DEF RunnerEnds, outside, buses, counters
  <1>3. CASE Start  BY <1>3 DEF Start, outside, buses, counters
  <1>4. CASE Open  BY <1>4 DEF Open, outside, buses, counters
  <1>5. CASE OpenFails  BY <1>5 DEF OpenFails, outside, buses, counters
  <1>6. CASE Close  BY <1>6 DEF Close, outside, buses, counters
  <1>7. CASE Again  BY <1>7 DEF Again, outside, buses, counters
  <1>8. CASE Returned  BY <1>8 DEF Returned, outside, buses, counters
  <1>9. CASE LoopTest  BY <1>9 DEF LoopTest, outside, buses, counters
  <1>10. CASE NotifyReceived
    <2>1. control_message(RECEIVED, count_packet_in, count_packet_out)  BY <1>10 DEF NotifyReceived
    <2>2. control' \in Seq(Event) /\ errno' \in {"EINTR", "other"}
      BY <2>1, ControlTypes DEF RECEIVED, ERROR, MSG_SENT, EMPTY
    <2> QED  BY <1>10, <2>2 DEF NotifyReceived, outside, counters
  <1>11. CASE Dump
    <2>1. dump' \in Seq(Packets) /\ errno' \in {"EINTR", "other"}
      BY <1>11, DumpTypes DEF Dump
    <2> QED  BY <1>11, <2>1 DEF Dump, outside
  <1>12. CASE Short
    <2>1. control_message(ERROR, count_packet_in, count_packet_out)  BY <1>12 DEF Short
    <2>2. control' \in Seq(Event) /\ errno' \in {"EINTR", "other"}
      BY <2>1, ControlTypes DEF RECEIVED, ERROR, MSG_SENT, EMPTY
    <2> QED  BY <1>12, <2>2 DEF Short, outside, counters
  <1>13. CASE TestErrno  BY <1>13 DEF TestErrno, outside, buses, counters
  <1>14. CASE Empty
    <2>1. control_message(EMPTY, count_packet_in, count_packet_out + 1)  BY <1>14 DEF Empty
    <2>2. control' \in Seq(Event) /\ errno' \in {"EINTR", "other"}
      BY <2>1, ControlTypes DEF RECEIVED, ERROR, MSG_SENT, EMPTY
    <2> QED  BY <1>14, <2>2 DEF Empty, outside, counters
  <1>15. CASE Reject
    <2>1. control_message(ERROR, count_packet_in, count_packet_out)  BY <1>15 DEF Reject
    <2>2. control' \in Seq(Event) /\ errno' \in {"EINTR", "other"}
      BY <2>1, ControlTypes DEF RECEIVED, ERROR, MSG_SENT, EMPTY
    <2> QED  BY <1>15, <2>2 DEF Reject, outside, counters
  <1>16. CASE SendOut
    <2>1. out' \in Seq(Packets)
      BY <1>16, PayloadMeansPacket DEF SendOut
    <2> QED  BY <1>16, <2>1 DEF SendOut, outside, counters
  <1>17. CASE SendFails  BY <1>17 DEF SendFails, outside, buses, counters
  <1>18. CASE NotifySent
    <2>1. control_message(MSG_SENT, count_packet_in, count_packet_out + 1)  BY <1>18 DEF NotifySent
    <2>2. control' \in Seq(Event) /\ errno' \in {"EINTR", "other"}
      BY <2>1, ControlTypes DEF RECEIVED, ERROR, MSG_SENT, EMPTY
    <2> QED  BY <1>18, <2>2 DEF NotifySent, outside, counters
  <1>19. CASE NotifyUnsent
    <2>1. control_message(ERROR, count_packet_in, count_packet_out)  BY <1>19 DEF NotifyUnsent
    <2>2. control' \in Seq(Event) /\ errno' \in {"EINTR", "other"}
      BY <2>1, ControlTypes DEF RECEIVED, ERROR, MSG_SENT, EMPTY
    <2> QED  BY <1>19, <2>2 DEF NotifyUnsent, outside, counters
  <1>20. CASE Free  BY <1>20 DEF Free, outside, buses, counters
  <1>21. CASE EndRound  BY <1>21 DEF EndRound, outside, buses, counters
  <1>22. CASE ReceiveFails  BY <1>22 DEF ReceiveFails, outside, buses, counters
  <1>23. ASSUME NEW p \in Packets, Receive(p) PROVE TypeOK'
    BY <1>23 DEF Receive, outside, buses, counters
  <1>24. ASSUME NEW r \in {1, 2}, Signal(r) PROVE TypeOK'
    BY <1>24 DEF Signal, Flushing, outside, buses, counters
  <1>25. CASE UNCHANGED vars  BY <1>25 DEF vars, outside, buses, counters
  <1> QED
    BY <1>1, <1>2, <1>3, <1>4, <1>5, <1>6, <1>7, <1>8, <1>9, <1>10, <1>11, <1>12, <1>13, <1>14, <1>15, <1>16, <1>17, <1>18, <1>19, <1>20, <1>21, <1>22, <1>23, <1>24, <1>25 DEF Next, Main

LEMMA StepCounts == IInv /\ [Next]_vars => Counts'
  <1> SUFFICES ASSUME IInv, [Next]_vars PROVE Counts'
    OBVIOUS
  <1> USE DEF IInv, TypeOK, Counts
  <1>1. CASE Enter  BY <1>1 DEF Enter, outside, buses, counters
  <1>2. CASE RunnerEnds  BY <1>2 DEF RunnerEnds, outside, buses, counters
  <1>3. CASE Start  BY <1>3 DEF Start, outside, buses, counters
  <1>4. CASE Open  BY <1>4 DEF Open, outside, buses, counters
  <1>5. CASE OpenFails  BY <1>5 DEF OpenFails, outside, buses, counters
  <1>6. CASE Close  BY <1>6 DEF Close, outside, buses, counters
  <1>7. CASE Again  BY <1>7 DEF Again, outside, buses, counters
  <1>8. CASE Returned  BY <1>8 DEF Returned, outside, buses, counters
  <1>9. CASE LoopTest  BY <1>9 DEF LoopTest, outside, buses, counters
  <1>10. CASE NotifyReceived  BY <1>10 DEF NotifyReceived, outside, buses, counters, control_message
  <1>11. CASE Dump  BY <1>11 DEF Dump, outside, buses, counters, dump_message
  <1>12. CASE Short  BY <1>12 DEF Short, outside, buses, counters, control_message
  <1>13. CASE TestErrno  BY <1>13 DEF TestErrno, outside, buses, counters
  <1>14. CASE Empty  BY <1>14 DEF Empty, outside, buses, counters, control_message
  <1>15. CASE Reject  BY <1>15 DEF Reject, outside, buses, counters, control_message
  <1>16. CASE SendOut  BY <1>16 DEF SendOut, outside, buses, counters
  <1>17. CASE SendFails  BY <1>17 DEF SendFails, outside, buses, counters
  <1>18. CASE NotifySent  BY <1>18 DEF NotifySent, outside, buses, counters, control_message
  <1>19. CASE NotifyUnsent  BY <1>19 DEF NotifyUnsent, outside, buses, counters, control_message
  <1>20. CASE Free  BY <1>20 DEF Free, outside, buses, counters
  <1>21. CASE EndRound  BY <1>21 DEF EndRound, outside, buses, counters
  <1>22. CASE ReceiveFails  BY <1>22 DEF ReceiveFails, outside, buses, counters
  <1>23. ASSUME NEW p \in Packets, Receive(p) PROVE Counts'
    BY <1>23 DEF Receive, outside, buses, counters
  <1>24. ASSUME NEW r \in {1, 2}, Signal(r) PROVE Counts'
    BY <1>24 DEF Signal, Flushing, outside, buses, counters
  <1>25. CASE UNCHANGED vars  BY <1>25 DEF vars, outside, buses, counters
  <1> QED
    BY <1>1, <1>2, <1>3, <1>4, <1>5, <1>6, <1>7, <1>8, <1>9, <1>10, <1>11, <1>12, <1>13, <1>14, <1>15, <1>16, <1>17, <1>18, <1>19, <1>20, <1>21, <1>22, <1>23, <1>24, <1>25 DEF Next, Main

LEMMA StepDumped == IInv /\ [Next]_vars => Dumped'
  <1> SUFFICES ASSUME IInv, [Next]_vars PROVE Dumped'
    OBVIOUS
  <1> USE DEF IInv, TypeOK, Dumped, payload_size
  <1>1. CASE Enter  BY <1>1 DEF Enter, outside, buses, counters
  <1>2. CASE RunnerEnds  BY <1>2 DEF RunnerEnds, outside, buses, counters
  <1>3. CASE Start  BY <1>3 DEF Start, outside, buses, counters
  <1>4. CASE Open  BY <1>4 DEF Open, outside, buses, counters
  <1>5. CASE OpenFails  BY <1>5 DEF OpenFails, outside, buses, counters
  <1>6. CASE Close  BY <1>6 DEF Close, outside, buses, counters
  <1>7. CASE Again  BY <1>7 DEF Again, outside, buses, counters
  <1>8. CASE Returned  BY <1>8 DEF Returned, outside, buses, counters
  <1>9. CASE LoopTest  BY <1>9 DEF LoopTest, outside, buses, counters
  <1>10. CASE NotifyReceived  BY <1>10 DEF NotifyReceived, outside, buses, counters, control_message
  <1>11. CASE Dump
    <2>1. dump' \in Seq(Packets) /\ pc' = "classify" /\ UNCHANGED cur
      BY <1>11, DumpTypes DEF Dump
    <2>2. "dump" \notin failing /\ payload_size > 0 => dump' = Append(dump, cur)
      BY <1>11, DumpTypes DEF Dump
    <2>3. payload_size > 0 => cur \in Packets
      BY PayloadMeansPacket
    <2> QED  BY <2>1, <2>2, <2>3, FailingKept
  <1>12. CASE Short  BY <1>12 DEF Short, outside, buses, counters, control_message
  <1>13. CASE TestErrno  BY <1>13 DEF TestErrno, outside, buses, counters
  <1>14. CASE Empty  BY <1>14 DEF Empty, outside, buses, counters, control_message
  <1>15. CASE Reject  BY <1>15 DEF Reject, outside, buses, counters, control_message
  <1>16. CASE SendOut  BY <1>16 DEF SendOut, outside, buses, counters
  <1>17. CASE SendFails  BY <1>17 DEF SendFails, outside, buses, counters
  <1>18. CASE NotifySent  BY <1>18 DEF NotifySent, outside, buses, counters, control_message
  <1>19. CASE NotifyUnsent  BY <1>19 DEF NotifyUnsent, outside, buses, counters, control_message
  <1>20. CASE Free  BY <1>20 DEF Free, outside, buses, counters
  <1>21. CASE EndRound  BY <1>21 DEF EndRound, outside, buses, counters
  <1>22. CASE ReceiveFails  BY <1>22 DEF ReceiveFails, outside, buses, counters
  <1>23. ASSUME NEW p \in Packets, Receive(p) PROVE Dumped'
    BY <1>23 DEF Receive, outside, buses, counters
  <1>24. ASSUME NEW r \in {1, 2}, Signal(r) PROVE Dumped'
    BY <1>24 DEF Signal, Flushing, outside, buses, counters
  <1>25. CASE UNCHANGED vars  BY <1>25 DEF vars, outside, buses, counters
  <1> QED
    BY <1>1, <1>2, <1>3, <1>4, <1>5, <1>6, <1>7, <1>8, <1>9, <1>10, <1>11, <1>12, <1>13, <1>14, <1>15, <1>16, <1>17, <1>18, <1>19, <1>20, <1>21, <1>22, <1>23, <1>24, <1>25 DEF Next, Main

LEMMA StepUndisturbed == IInv /\ [Next]_vars => Undisturbed'
  <1> SUFFICES ASSUME IInv, [Next]_vars PROVE Undisturbed'
    OBVIOUS
  <1> USE DEF IInv, TypeOK, Undisturbed
  <1>1. CASE Enter  BY <1>1 DEF Enter, outside, buses, counters
  <1>2. CASE RunnerEnds  BY <1>2 DEF RunnerEnds, outside, buses, counters
  <1>3. CASE Start  BY <1>3 DEF Start, outside, buses, counters
  <1>4. CASE Open  BY <1>4 DEF Open, outside, buses, counters
  <1>5. CASE OpenFails  BY <1>5 DEF OpenFails, outside, buses, counters
  <1>6. CASE Close  BY <1>6 DEF Close, outside, buses, counters
  <1>7. CASE Again  BY <1>7 DEF Again, outside, buses, counters
  <1>8. CASE Returned  BY <1>8 DEF Returned, outside, buses, counters
  <1>9. CASE LoopTest  BY <1>9 DEF LoopTest, outside, buses, counters
  <1>10. CASE NotifyReceived  BY <1>10 DEF NotifyReceived, outside, buses, counters, control_message
  <1>11. CASE Dump  BY <1>11 DEF Dump, outside, buses, counters, dump_message
  <1>12. CASE Short  BY <1>12 DEF Short, outside, buses, counters, control_message
  <1>13. CASE TestErrno  BY <1>13 DEF TestErrno, outside, buses, counters
  <1>14. CASE Empty  BY <1>14 DEF Empty, outside, buses, counters, control_message
  <1>15. CASE Reject  BY <1>15 DEF Reject, outside, buses, counters, control_message
  <1>16. CASE SendOut  BY <1>16 DEF SendOut, outside, buses, counters
  <1>17. CASE SendFails  BY <1>17 DEF SendFails, outside, buses, counters
  <1>18. CASE NotifySent  BY <1>18 DEF NotifySent, outside, buses, counters, control_message
  <1>19. CASE NotifyUnsent  BY <1>19 DEF NotifyUnsent, outside, buses, counters, control_message
  <1>20. CASE Free  BY <1>20 DEF Free, outside, buses, counters
  <1>21. CASE EndRound  BY <1>21 DEF EndRound, outside, buses, counters
  <1>22. CASE ReceiveFails  BY <1>22 DEF ReceiveFails, outside, buses, counters
  <1>23. ASSUME NEW p \in Packets, Receive(p) PROVE Undisturbed'
    BY <1>23 DEF Receive, outside, buses, counters
  <1>24. ASSUME NEW r \in {1, 2}, Signal(r) PROVE Undisturbed'
    BY <1>24 DEF Signal, Flushing, outside, buses, counters
  <1>25. CASE UNCHANGED vars  BY <1>25 DEF vars, outside, buses, counters
  <1> QED
    BY <1>1, <1>2, <1>3, <1>4, <1>5, <1>6, <1>7, <1>8, <1>9, <1>10, <1>11, <1>12, <1>13, <1>14, <1>15, <1>16, <1>17, <1>18, <1>19, <1>20, <1>21, <1>22, <1>23, <1>24, <1>25 DEF Next, Main

LEMMA InitIInv == Init => IInv
  <1> SUFFICES ASSUME Init PROVE IInv
    OBVIOUS
  <1>1. /\ pc \in Places /\ errno \in {"EINTR", "other"} /\ cur \in Packets \cup {None}
        /\ known \subseteq Packets
    BY DEF Init, Places
  <1>2. control \in Seq(Event) /\ dump \in Seq(Packets) /\ out \in Seq(Packets)
    BY DEF Init
  <1>3. /\ stop_request \in 0..2 /\ session_id \in Nat /\ count_packet_in \in Nat
        /\ count_packet_out \in Nat /\ arrived \in 0..MaxPackets /\ entries \in 0..(Retries + 1)
        /\ delivered \in 0..MaxSignals /\ faults \in 0..MaxFaults /\ failing \in Failing
    BY DEF Init
  <1>4. Counts /\ Dumped /\ Undisturbed
    BY DEF Init, Counts, Dumped, Undisturbed
  <1> QED BY <1>1, <1>2, <1>3, <1>4 DEF IInv, TypeOK

LEMMA Inductive == Spec => []IInv
  <1>1. IInv /\ [Next]_vars => IInv'
    BY StepTypeOK, StepCounts, StepDumped, StepUndisturbed DEF IInv
  <1> QED BY InitIInv, <1>1, PTL DEF Spec

(***************************************************************************)
(* Every variable of the receiver keeps its type, and runner() calls the     *)
(* function at most config->retries + 1 times.                               *)
(***************************************************************************)
THEOREM ReceiverTypes == Spec => []TypeOK
  BY Inductive, PTL DEF IInv

(***************************************************************************)
(* Without a signal the receiver ends only after more than config->retries   *)
(* failures: no packet and no bus error ends it.                             *)
(***************************************************************************)
THEOREM PacketsDoNotEndIt == Spec => []NoPacketEndsIt
  <1>1. IInv => NoPacketEndsIt
    BY DEF IInv, TypeOK, Undisturbed, NoPacketEndsIt
  <1> QED BY Inductive, <1>1, PTL

(***************************************************************************)
(* A message leaves for the handlers only after the dumpers got its packet.  *)
(***************************************************************************)
THEOREM DumpComesFirst == Spec => DumpedBeforeSent
  <1> DEFINE Step == "dump" \notin failing /\ out' # out =>
                         dump # <<>> /\ dump[Len(dump)] = out'[Len(out')]
  <1>1. ASSUME IInv, [Next]_vars PROVE [Step]_vars
    <2>1. CASE SendOut
      <3>1. payload_size > 0 /\ cur \in Packets
        BY <1>1, <2>1, PayloadMeansPacket DEF SendOut, IInv
      <3>2. out' = Append(out, cur) /\ pc = "classify" /\ out \in Seq(Packets)
        BY <1>1, <2>1 DEF SendOut, IInv, TypeOK
      <3>3. out'[Len(out')] = cur
        BY <3>1, <3>2
      <3> QED BY <1>1, <3>1, <3>2, <3>3 DEF IInv, Dumped
    <2>2. CASE ~SendOut
      <3>1. out' = out
        BY <1>1, <2>2 DEF Next, Main, vars, buses, Enter, RunnerEnds, Start, Open, OpenFails, Close,
           Again, Returned, LoopTest, NotifyReceived, Dump, Short, TestErrno, Empty, Reject,
           SendFails, NotifySent, NotifyUnsent, Free, EndRound, Receive, ReceiveFails, Signal
      <3> QED BY <3>1
    <2> QED BY <2>1, <2>2
  <1>2. IInv /\ [Next]_vars => [Step]_vars
    BY <1>1
  <1> QED BY Inductive, <1>2, PTL DEF Spec, DumpedBeforeSent

-----------------------------------------------------------------------------
(* Refinement: without fairness, the receiver is a forwarder.               *)

LEMMA PendingOnlyInRound ==
    pc \notin {"notify", "dump", "classify"} => pendingBar = None
  BY DEF pendingBar

\* A step that keeps the packet and the declarations, and stays in the first
\* half of the round, keeps what is due.
LEMMA PendingKept ==
    ASSUME pc \in {"notify", "dump", "classify"}, pc' \in {"notify", "dump", "classify"},
           UNCHANGED <<cur, known>>
    PROVE  UNCHANGED pendingBar
  BY DEF pendingBar, Deliverable, Acceptable

\* A packet that is refused is not due.
LEMMA NotDue ==
    ASSUME TypeOK, payload_size <= 0 \/ ~Deliverable(cur)
    PROVE  pendingBar = None
  BY DEF pendingBar, payload_size, Deliverable, TypeOK

LEMMA StepForwards ==
    ASSUME IInv, [Next]_vars
    PROVE  [F!Next]_(F!vars)
  <1> USE DEF F!vars
  <1> DEFINE Stutter == UNCHANGED <<pendingBar, out>>
  <1>0. UNCHANGED ("out" \in failing)
    BY FailingKept
  <1>1. CASE SendOut
    <2>1. cur \in Packets /\ pc = "classify" /\ pc' = "sent" /\ Deliverable(cur) /\ out' = Append(out, cur)
      BY <1>1, PayloadMeansPacket DEF SendOut, IInv
    <2>2. pendingBar = cur
      BY <2>1 DEF pendingBar
    <2>3. pendingBar' = None
      BY <2>1, PendingOnlyInRound DEF pendingBar
    <2> QED  BY <1>0, <2>1, <2>2, <2>3 DEF F!Next, F!Put
  <1>2. CASE SendFails
    <2>1. /\ cur \in Packets /\ pc = "classify" /\ pc' = "unsent" /\ Deliverable(cur) /\ out' = out
          /\ "out" \in failing
      BY <1>2, PayloadMeansPacket DEF SendFails, IInv, buses
    <2>2. pendingBar = cur
      BY <2>1 DEF pendingBar
    <2>3. pendingBar' = None
      BY <2>1 DEF pendingBar
    <2> QED  BY <1>0, <2>1, <2>2, <2>3 DEF F!Next, F!Lose
  <1>3. ASSUME NEW p \in Packets, Receive(p) PROVE [F!Next]_(F!vars)
    <2>1. pendingBar = None /\ out' = out
      BY <1>3, PendingOnlyInRound DEF Receive, buses
    <2>2. pc' = "notify" /\ cur' = p
      BY <1>3 DEF Receive
    <2>3. pendingBar' \in {None, p}
      BY <2>2 DEF pendingBar
    <2> QED  BY <1>0, <2>1, <2>3 DEF F!Next, F!Take
  <1>4. ASSUME NEW r \in {1, 2}, Signal(r) PROVE [F!Next]_(F!vars)
    <2>1. UNCHANGED <<cur, known, out>>
      BY <1>4 DEF Signal, buses
    <2>2. CASE pc = "waiting"
      <3>1. cur = None  BY <2>2 DEF IInv, Dumped
      <3> QED  BY <1>0, <2>1, <2>2, <3>1, PendingOnlyInRound DEF pendingBar
    <2>3. CASE pc # "waiting"
      <3>1. pc' = pc  BY <1>4, <2>3 DEF Signal
      <3> QED  BY <1>0, <2>1, <3>1 DEF pendingBar, Deliverable, Acceptable
    <2> QED  BY <1>0, <2>2, <2>3
  <1>5. CASE ReceiveFails
    <2>1. UNCHANGED <<cur, out>> /\ pc = "waiting"  BY <1>5 DEF ReceiveFails, buses
    <2>2. cur = None  BY <2>1 DEF IInv, Dumped
    <2> QED  BY <1>0, <2>1, <2>2 DEF pendingBar
  <1>6. CASE NotifyReceived \/ Dump
    <2>1. /\ UNCHANGED <<cur, known, out>>
          /\ pc \in {"notify", "dump", "classify"} /\ pc' \in {"notify", "dump", "classify"}
      BY <1>6 DEF NotifyReceived, Dump
    <2> QED  BY <1>0, <2>1, PendingKept
  <1>7. CASE Short \/ Empty \/ Reject
    <2>1. /\ out' = out /\ pc' \notin {"notify", "dump", "classify"}
          /\ payload_size < 0 \/ payload_size = 0 \/ ~Deliverable(cur)
      BY <1>7 DEF Short, Empty, Reject
    <2>2. payload_size \in Int
      BY DEF IInv, TypeOK, payload_size, HeaderSize
    <2>3. pendingBar = None
      BY <2>1, <2>2, NotDue DEF IInv
    <2>4. pendingBar' = None
      BY <2>1 DEF pendingBar
    <2> QED  BY <1>0, <2>1, <2>3, <2>4
  <1>8. CASE Enter \/ RunnerEnds \/ Start \/ Open \/ OpenFails \/ Close \/ Again \/ Returned
                \/ LoopTest \/ TestErrno \/ NotifySent \/ NotifyUnsent \/ Free \/ EndRound
    <2>1. /\ pc \notin {"notify", "dump", "classify"} /\ pc' \notin {"notify", "dump", "classify"}
          /\ out' = out
      BY <1>8 DEF Enter, RunnerEnds, Start, Open, OpenFails, Close, Again, Returned, LoopTest,
         TestErrno, NotifySent, NotifyUnsent, Free, EndRound, buses
    <2>2. pendingBar = None /\ pendingBar' = None
      BY <2>1 DEF pendingBar
    <2> QED  BY <1>0, <2>1, <2>2
  <1>9. CASE UNCHANGED vars
    BY <1>0, <1>9 DEF vars, pendingBar, Deliverable, Acceptable
  <1> QED
    BY <1>1, <1>2, <1>3, <1>4, <1>5, <1>6, <1>7, <1>8, <1>9 DEF Next, Main

(***************************************************************************)
(* pkt2receiver implements the forwarder: messages are neither repeated nor  *)
(* reordered, and lost only where nn_send() fails, whatever signals, reloads, *)
(* retries and refused packets there are.                                    *)
(***************************************************************************)
THEOREM ReceiverForwards == Spec => F!Spec
  <1>1. Init => F!Init
    BY DEF Init, F!Init, pendingBar
  <1>2. IInv /\ [Next]_vars => [F!Next]_(F!vars)
    BY StepForwards
  <1> QED BY <1>1, <1>2, Inductive, PTL DEF Spec, F!Spec

-----------------------------------------------------------------------------
(* The control bus.                                                         *)

\* What the last event said was handled; nothing before the first one.
LastOut == IF Len(control) = 0 THEN 0 ELSE control[Len(control)].out

\* How many events there are at each place of a round.
ControlLength ==
    "control" \notin failing =>
        /\ pc \in {"start", "open", "loop", "waiting", "notify", "errno", "free", "flush", "close",
                   "again"} => Len(control) = 2 * count_packet_in
        /\ pc = "dump" => Len(control) = 2 * count_packet_in + 1
        /\ pc \in {"classify", "sent", "unsent"} => Len(control) = 2 * count_packet_in - 1
        /\ pc \notin {"runner", "returned", "ended"} => LastOut = count_packet_out

CInv == ControlTellsAll /\ ControlLength

\* One event more, if it is of the right kind and has the right counters.
LEMMA EventAdded ==
    ASSUME TypeOK, ControlTellsAll, "control" \notin failing,
           NEW t \in {RECEIVED, ERROR, MSG_SENT, EMPTY}, NEW a \in Nat, NEW b \in Nat,
           control_message(t, a, b),
           (t = RECEIVED) <=> ((Len(control) + 1) % 2 = 1),
           session_id = (Len(control) + 2) \div 2,
           a = (Len(control) + 1) \div 2,
           b = LastOut + (IF t \in {EMPTY, MSG_SENT} THEN 1 ELSE 0)
    PROVE  ControlTellsAll' /\ Len(control') = Len(control) + 1 /\ LastOut' = b
  <1> DEFINE e == [session |-> session_id, in |-> a, out |-> b, typ |-> t]
  <1>1. control \in Seq(Event) /\ Len(control) \in Nat /\ e \in Event
    BY DEF TypeOK, Event
  <1>2. control' = Append(control, e)
    BY DEF control_message
  <1>3. Len(control') = Len(control) + 1 /\ control'[Len(control) + 1] = e
    BY <1>1, <1>2
  <1>4. \A i \in 1..Len(control) : control'[i] = control[i]
    BY <1>1, <1>2
  <1>5. LastOut' = b
    BY <1>1, <1>3 DEF LastOut
  <1>6. ASSUME NEW i \in 1..Len(control')
        PROVE  /\ (control'[i].typ = RECEIVED) <=> (i % 2 = 1)
               /\ control'[i].session = (i + 1) \div 2
               /\ control'[i].in = i \div 2
               /\ control'[i].out = (IF i = 1 THEN 0 ELSE control'[i - 1].out)
                                     + (IF control'[i].typ \in {EMPTY, MSG_SENT} THEN 1 ELSE 0)
    <2>1. CASE i \in 1..Len(control)
      <3>1. control'[i] = control[i] /\ (i # 1 => control'[i - 1] = control[i - 1])
        BY <1>1, <1>4, <2>1
      <3> QED BY <2>1, <3>1 DEF ControlTellsAll
    <2>2. CASE i = Len(control) + 1
      <3>1. control'[i] = e
        BY <1>3, <2>2
      <3>2. (IF i = 1 THEN 0 ELSE control'[i - 1].out) = LastOut
        BY <1>1, <1>4, <2>2 DEF LastOut
      <3>3. i + 1 = Len(control) + 2
        BY <1>1, <2>2
      <3> QED BY <2>2, <3>1, <3>2, <3>3
    <2> QED BY <1>1, <1>3, <2>1, <2>2
  <1> QED BY <1>3, <1>5, <1>6 DEF ControlTellsAll

\* An event of type t is sent and the count of handled packets grows by d.
EventStep(t, d) ==
    /\ ControlTellsAll'
    /\ Len(control') = Len(control) + 1
    /\ LastOut' = count_packet_out'
    /\ count_packet_out' = count_packet_out + d

\* The arithmetic of pairs.
LEMMA Pairs ==
    ASSUME NEW k \in Nat
    PROVE  /\ (2 * k + 1) % 2 = 1 /\ (2 * k + 2) % 2 = 0
           /\ (2 * k + 1) \div 2 = k /\ (2 * k + 2) \div 2 = k + 1 /\ (2 * k + 3) \div 2 = k + 1
  OBVIOUS

\* At each of the six places that send an event it is the one that is due.
LEMMA EventDue ==
    ASSUME IInv, CInv, "control" \notin failing, Next
    PROVE  /\ NotifyReceived => EventStep(RECEIVED, 0)
           /\ Short \/ Reject \/ NotifyUnsent => EventStep(ERROR, 0)
           /\ Empty => EventStep(EMPTY, 1)
           /\ NotifySent => EventStep(MSG_SENT, 1)
  <1> DEFINE k == count_packet_in
  <1>1. /\ session_id \in Nat /\ k \in Nat /\ count_packet_out \in Nat /\ TypeOK
        /\ ControlTellsAll
    BY DEF IInv, CInv, TypeOK
  <1>2. CASE NotifyReceived
    <2>1. /\ control_message(RECEIVED, k, count_packet_out)
          /\ count_packet_out' = count_packet_out
      BY <1>2 DEF NotifyReceived, counters
    <2>2. Len(control) = 2 * k /\ LastOut = count_packet_out /\ session_id = k + 1
      BY <1>2 DEF NotifyReceived, CInv, ControlLength, IInv, Counts
    <2>3. /\ (Len(control) + 1) % 2 = 1 /\ session_id = (Len(control) + 2) \div 2
          /\ k = (Len(control) + 1) \div 2
      BY <1>1, <2>2, Pairs
    <2>4. count_packet_out = LastOut + (IF RECEIVED \in {EMPTY, MSG_SENT} THEN 1 ELSE 0)
      BY <1>1, <2>2 DEF RECEIVED, EMPTY, MSG_SENT
    <2> QED
      BY <1>1, <1>2, <2>1, <2>2, <2>3, <2>4, EventAdded
      DEF EventStep, NotifyReceived, Short, Reject, NotifyUnsent, Empty, NotifySent
  <1>3. CASE Short \/ Reject \/ NotifyUnsent
    <2>1. /\ control_message(ERROR, k, count_packet_out)
          /\ count_packet_out' = count_packet_out
          /\ pc \in {"classify", "unsent"}
      BY <1>3 DEF Short, Reject, NotifyUnsent, counters
    <2>2. /\ Len(control) = 2 * k - 1 /\ LastOut = count_packet_out /\ session_id = k
          /\ k > 0
      BY <1>1, <2>1 DEF CInv, ControlLength, IInv, Counts
    <2>3. k - 1 \in Nat /\ Len(control) = 2 * (k - 1) + 1
      BY <1>1, <2>2
    <2>4. /\ (Len(control) + 1) % 2 = 0 /\ session_id = (Len(control) + 2) \div 2
          /\ k = (Len(control) + 1) \div 2
      <3>1. (2 * (k - 1) + 2) % 2 = 0 /\ (2 * (k - 1) + 2) \div 2 = (k - 1) + 1
            /\ (2 * (k - 1) + 3) \div 2 = (k - 1) + 1
        BY <2>3, Pairs
      <3> QED BY <1>1, <2>2, <2>3, <3>1
    <2>5. count_packet_out = LastOut + (IF ERROR \in {EMPTY, MSG_SENT} THEN 1 ELSE 0)
      BY <1>1, <2>2 DEF ERROR, EMPTY, MSG_SENT
    <2>6. ~((Len(control) + 1) % 2 = 1) /\ ERROR # RECEIVED
      BY <2>4 DEF ERROR, RECEIVED
    <2>7. EventStep(ERROR, 0)
      BY <1>1, <2>1, <2>2, <2>4, <2>5, <2>6, EventAdded DEF EventStep
    <2> QED
      BY <1>3, <2>1, <2>7 DEF NotifyReceived, Empty, NotifySent, Short, Reject, NotifyUnsent
  <1>4. CASE Empty \/ NotifySent
    <2>1. /\ \/ Empty /\ control_message(EMPTY, k, count_packet_out + 1)
             \/ NotifySent /\ control_message(MSG_SENT, k, count_packet_out + 1)
          /\ count_packet_out' = count_packet_out + 1
          /\ pc \in {"classify", "sent"}
      BY <1>4 DEF Empty, NotifySent
    <2>2. /\ Len(control) = 2 * k - 1 /\ LastOut = count_packet_out /\ session_id = k
          /\ k > 0
      BY <1>1, <2>1 DEF CInv, ControlLength, IInv, Counts
    <2>3. k - 1 \in Nat /\ Len(control) = 2 * (k - 1) + 1
      BY <1>1, <2>2
    <2>4. /\ (Len(control) + 1) % 2 = 0 /\ session_id = (Len(control) + 2) \div 2
          /\ k = (Len(control) + 1) \div 2
      <3>1. (2 * (k - 1) + 2) % 2 = 0 /\ (2 * (k - 1) + 2) \div 2 = (k - 1) + 1
            /\ (2 * (k - 1) + 3) \div 2 = (k - 1) + 1
        BY <2>3, Pairs
      <3> QED BY <1>1, <2>2, <2>3, <3>1
    <2>5. count_packet_out + 1 \in Nat /\ count_packet_out + 1 = LastOut + 1
      BY <1>1, <2>2
    <2>6. ~((Len(control) + 1) % 2 = 1) /\ EMPTY # RECEIVED /\ MSG_SENT # RECEIVED
      BY <2>4 DEF EMPTY, MSG_SENT, RECEIVED
    <2>7. CASE Empty
      <3>1. control_message(EMPTY, k, count_packet_out + 1)
        BY <2>7 DEF Empty
      <3>2. EventStep(EMPTY, 1)
        BY <1>1, <2>1, <2>2, <2>4, <2>5, <2>6, <3>1, EventAdded DEF EventStep
      <3> QED BY <2>7, <3>2 DEF NotifyReceived, Empty, NotifySent, Short, Reject, NotifyUnsent
    <2>8. CASE NotifySent
      <3>1. control_message(MSG_SENT, k, count_packet_out + 1)
        BY <2>8 DEF NotifySent
      <3>2. EventStep(MSG_SENT, 1)
        BY <1>1, <2>1, <2>2, <2>4, <2>5, <2>6, <3>1, EventAdded DEF EventStep
      <3> QED BY <2>8, <3>2 DEF NotifyReceived, Empty, NotifySent, Short, Reject, NotifyUnsent
    <2> QED BY <1>4, <2>7, <2>8
  <1> QED BY <1>2, <1>3, <1>4

LEMMA StepControl == IInv /\ CInv /\ [Next]_vars => CInv'
  <1> SUFFICES ASSUME IInv, CInv, [Next]_vars PROVE CInv'
    OBVIOUS
  <1>1. CASE "control" \in failing
    BY <1>1, FailingKept DEF CInv, ControlTellsAll, ControlLength
  <1>2. CASE "control" \notin failing
    <2>0. /\ count_packet_in \in Nat /\ count_packet_out \in Nat /\ pc \in Places
          /\ control \in Seq(Event) /\ Len(control) \in Nat
      BY DEF IInv, TypeOK
    <2>1. CASE NotifyReceived
      <3>1. EventStep(RECEIVED, 0)  BY <1>2, <2>1, EventDue DEF Next, Main
      <3>2. /\ pc = "notify" /\ pc' = "dump"
            /\ UNCHANGED <<count_packet_in, count_packet_out>>
        BY <2>1 DEF NotifyReceived, counters
      <3> QED BY <1>2, <2>0, <3>1, <3>2 DEF EventStep, CInv, ControlLength
    <2>2. CASE Short \/ Reject \/ NotifyUnsent
      <3>1. EventStep(ERROR, 0)  BY <1>2, <2>2, EventDue DEF Next, Main
      <3>2. /\ pc \in {"classify", "unsent"} /\ pc' \in {"errno", "flush", "free"}
            /\ UNCHANGED <<count_packet_in, count_packet_out>>
        BY <2>2 DEF Short, Reject, NotifyUnsent, counters
      <3> QED BY <1>2, <2>0, <3>1, <3>2 DEF EventStep, CInv, ControlLength
    <2>3. CASE Empty \/ NotifySent
      <3>1. Len(control') = Len(control) + 1 /\ LastOut' = count_packet_out' /\ ControlTellsAll'
        BY <1>2, <2>3, EventDue DEF Next, Main, EventStep
      <3>2. /\ pc \in {"classify", "sent"} /\ pc' \in {"flush", "free"}
            /\ UNCHANGED count_packet_in
        BY <2>3 DEF Empty, NotifySent
      <3> QED BY <1>2, <2>0, <3>1, <3>2 DEF CInv, ControlLength
    <2>4. CASE Enter
      <3>1. /\ control' = <<>> /\ count_packet_in' = 0 /\ count_packet_out' = 0 /\ pc' = "start"
        BY <2>4 DEF Enter
      <3>2. Len(control') = 0 /\ 1..Len(control') = {}
        BY <3>1
      <3> QED BY <3>1, <3>2 DEF CInv, ControlTellsAll, ControlLength, LastOut
    <2>5. CASE Dump
      <3>1. /\ UNCHANGED <<control, count_packet_out>> /\ count_packet_in' = count_packet_in + 1
            /\ pc = "dump" /\ pc' = "classify"
        BY <2>5 DEF Dump
      <3> QED BY <1>2, <2>0, <3>1 DEF CInv, ControlTellsAll, ControlLength, LastOut
    <2>6. ASSUME UNCHANGED <<control, count_packet_in, count_packet_out>>,
                 \/ pc' \in {"runner", "returned", "ended"}
                 \/ pc' = pc
                 \/ /\ pc \in {"start", "open", "loop", "waiting", "notify", "errno", "free", "flush", "close", "again"}
                    /\ pc' \in {"start", "open", "loop", "waiting", "notify", "errno", "free", "flush", "close", "again"}
                 \/ pc = "classify" /\ pc' \in {"sent", "unsent"}
          PROVE  CInv'
      BY <1>2, <2>0, <2>6 DEF CInv, ControlTellsAll, ControlLength, LastOut
    <2>7. CASE RunnerEnds \/ Start \/ Open \/ OpenFails \/ Close \/ Again \/ Returned \/ LoopTest
      BY <2>6, <2>7 DEF RunnerEnds, Start, Open, OpenFails, Close, Again, Returned, LoopTest,
         counters, buses
    <2>8. CASE TestErrno \/ SendOut \/ SendFails \/ Free \/ EndRound \/ ReceiveFails
      BY <2>6, <2>8 DEF TestErrno, SendOut, SendFails, Free, EndRound, ReceiveFails, counters, buses
    <2>9. ASSUME NEW p \in Packets, Receive(p) PROVE CInv'
      BY <2>6, <2>9 DEF Receive, counters, buses
    <2>10. ASSUME NEW r \in {1, 2}, Signal(r) PROVE CInv'
      BY <2>6, <2>10 DEF Signal, counters, buses
    <2>11. CASE UNCHANGED vars
      BY <2>6, <2>11 DEF vars
    <2> QED
      BY <2>1, <2>2, <2>3, <2>4, <2>5, <2>7, <2>8, <2>9, <2>10, <2>11 DEF Next, Main
  <1> QED BY <1>1, <1>2

LEMMA ControlInductive == Spec => [](IInv /\ CInv)
  <1>1. Init => CInv
    <2> SUFFICES ASSUME Init PROVE CInv
      OBVIOUS
    <2>1. Len(control) = 0 /\ 1..Len(control) = {} /\ pc = "runner"
      BY DEF Init
    <2> QED BY <2>1 DEF CInv, ControlTellsAll, ControlLength
  <1>2. IInv /\ CInv /\ [Next]_vars => CInv'
    BY StepControl
  <1> QED BY <1>1, <1>2, Inductive, PTL DEF Spec

(***************************************************************************)
(* The events on the control bus come in pairs with consecutive sessions and  *)
(* the right counters, over any number of rounds and reloads of one call.    *)
(***************************************************************************)
THEOREM ControlIsComplete == Spec => []ControlTellsAll
  BY ControlInductive, PTL DEF CInv

(***************************************************************************)
(* At the head of the loop session_id = count_packet_in, and the control bus *)
(* has heard twice of every session.                                        *)
(***************************************************************************)
THEOREM EverySessionCounted == Spec => []SessionsCounted
  <1>1. IInv /\ CInv => SessionsCounted
    BY DEF IInv, CInv, Counts, ControlLength, SessionsCounted
  <1> QED BY ControlInductive, <1>1, PTL
=============================================================================
