------------------------------- MODULE Receiver -------------------------------
(***************************************************************************)
(* pkt2_receiever_nano(): the loop of pkt2receiver between the packet bus,    *)
(* the control bus, the dump bus and the message bus, with the signal         *)
(* handlers and the global errno it consults after calls that may have        *)
(* changed it.                                                              *)
(*                                                                          *)
(* Opening and closing the four sockets are one step each.  A packet is       *)
(* known by its payload size and by whether a declared message matches it     *)
(* (module PacketMatch says when); its message bears its name.               *)
(***************************************************************************)
EXTENDS Integers, Sequences

CONSTANTS
    Packets,     \* what the receivers put on the packet bus
    None,        \* no packet: nn_recv() failed
    Size,        \* payload size of each packet, negative if the header is cut
    Allowed,     \* config->allowed_packet_sizes; the empty set allows all
    Declared,    \* the states of the .proto directory: for each, the packets
                 \* that match some message
    Failing,     \* for each of these sets: nn_send may fail on these buses, out of
                 \* "control", "dump" and "out"
    Retries,     \* config->retries
    MaxPackets,  \* bound: packets that arrive
    MaxSignals,  \* bound: signals delivered
    MaxFaults    \* bound: failures of nn_recv and of opening the sockets

HeaderSize == 257  \* one byte and two sockaddr_storage

ASSUME PacketsAssumption == None \notin Packets /\ Size \in [Packets -> Int]
ASSUME AllowedAssumption == Allowed \subseteq Int
ASSUME DeclaredAssumption == Declared \subseteq SUBSET Packets
ASSUME FailingAssumption == Failing \subseteq SUBSET {"control", "dump", "out"}
ASSUME ReceiverBounds ==
    Retries \in Nat /\ MaxPackets \in Nat /\ MaxSignals \in Nat /\ MaxFaults \in Nat

VARIABLES
    pc,
    stop_request,      \* config->stop_request
    session_id,        \* config->session_id
    count_packet_in,   \* config->count_packet_in
    count_packet_out,  \* config->count_packet_out
    errno,             \* "EINTR" or "other"
    cur,               \* buf: the packet of this round, or None
    known,             \* packets that options_cache finds a message for
    control,           \* what this call of the function put on the control bus
    dump,              \* what went to the dump bus
    out,               \* what went to the message bus
    arrived,           \* packets received
    entries,           \* calls of the function
    delivered,         \* signals
    faults,
    failing            \* the buses whose other end may not take what is sent, this time

vars == <<pc, stop_request, session_id, count_packet_in, count_packet_out, errno, cur, known,
          control, dump, out, arrived, entries, delivered, faults, failing>>

counters == <<session_id, count_packet_in, count_packet_out>>
buses == <<control, dump, out>>
outside == <<arrived, entries, delivered, faults, failing>>

Places == {"runner", "start", "open", "loop", "waiting", "notify", "dump", "classify", "errno",
           "sent", "unsent", "free", "flush", "close", "again", "returned", "ended"}

\* CONTROL_TYP_xxx_CODE
RECEIVED == 1
ERROR == 2
MSG_SENT == 3
EMPTY == 4

Init ==
    /\ pc = "runner"
    /\ stop_request = 0
    /\ session_id = 0 /\ count_packet_in = 0 /\ count_packet_out = 0
    /\ errno = "other"
    /\ cur = None
    /\ known = {}
    /\ control = <<>> /\ dump = <<>> /\ out = <<>>
    /\ arrived = 0 /\ entries = 0 /\ delivered = 0 /\ faults = 0
    /\ failing \in Failing

-----------------------------------------------------------------------------

\* InputPacket::getPayloadSize() of what nn_recv() returned, -1 if it failed.
payload_size == IF cur = None THEN -1 - HeaderSize ELSE Size[cur]

Acceptable(p) == Allowed = {} \/ Size[p] \in Allowed

\* The packet yields a message: it is neither short nor empty, its size is
\* allowed and parsePacket() finds a message for it.
Deliverable(p) == Size[p] > 0 /\ Acceptable(p) /\ p \in known

\* control_message(): the counters, as they are now, and the code.
control_message(typ, n_in, n_out) ==
    \/ /\ control' = Append(control, [session |-> session_id, in |-> n_in, out |-> n_out, typ |-> typ])
       /\ UNCHANGED errno
    \/ /\ "control" \in failing
       /\ errno' = "other"
       /\ UNCHANGED control

-----------------------------------------------------------------------------
(* Entering and leaving.                                                    *)

\* runner() calls the function, which starts counting anew.
Enter ==
    /\ pc = "runner"
    /\ stop_request = 0
    /\ entries' = entries + 1
    /\ session_id' = 0 /\ count_packet_in' = 0 /\ count_packet_out' = 0
    /\ control' = <<>>
    /\ pc' = "start"
    /\ UNCHANGED <<stop_request, errno, cur, known, dump, out, arrived, delivered, faults, failing>>

RunnerEnds ==
    /\ pc = "runner"
    /\ stop_request # 0
    /\ pc' = "ended"
    /\ UNCHANGED <<stop_request, counters, errno, cur, known, buses, outside>>

\* START: a reload comes here too and keeps the counters.
Start ==
    /\ pc = "start"
    /\ stop_request' = 0
    /\ pc' = "open"
    /\ UNCHANGED <<counters, errno, cur, known, buses, outside>>

\* The sockets are bound, the .proto files read; the calls may change errno.
Open ==
    /\ pc = "open"
    /\ known' \in Declared
    /\ errno' \in {errno, "other"}
    /\ pc' = "loop"
    /\ UNCHANGED <<stop_request, counters, cur, buses, outside>>

OpenFails ==
    /\ pc = "open"
    /\ faults < MaxFaults
    /\ faults' = faults + 1
    /\ errno' = "other"
    /\ pc' = "returned"
    /\ UNCHANGED <<stop_request, counters, cur, known, buses, arrived, entries, delivered, failing>>

\* nn_shutdown() and close() of the four sockets.
Close ==
    /\ pc = "close"
    /\ errno' \in {errno, "other"}
    /\ cur' = None
    /\ pc' = "again"
    /\ UNCHANGED <<stop_request, counters, known, buses, outside>>

Again ==
    /\ pc = "again"
    /\ pc' = IF stop_request = 2 THEN "start" ELSE "returned"
    /\ UNCHANGED <<stop_request, counters, errno, cur, known, buses, outside>>

\* runner(): if (n >= config->retries) break;
Returned ==
    /\ pc = "returned"
    /\ pc' = IF entries > Retries THEN "ended" ELSE "runner"
    /\ UNCHANGED <<stop_request, counters, errno, cur, known, buses, outside>>

-----------------------------------------------------------------------------
(* The loop.                                                                *)

\* while (!config->stop_request) { session_id++; nn_recv(...)
LoopTest ==
    /\ pc = "loop"
    /\ \/ stop_request = 0 /\ pc' = "waiting" /\ session_id' = session_id + 1
       \/ stop_request # 0 /\ pc' = "close" /\ UNCHANGED session_id
    /\ cur' = None
    /\ UNCHANGED <<stop_request, count_packet_in, count_packet_out, errno, known, buses, outside>>

\* A packet comes; nn_recv() leaves errno alone.
Receive(p) ==
    /\ pc = "waiting"
    /\ arrived < MaxPackets
    /\ arrived' = arrived + 1
    /\ cur' = p
    /\ pc' = "notify"
    /\ UNCHANGED <<stop_request, counters, errno, known, buses, entries, delivered, faults, failing>>

\* nn_recv() fails for another reason than a signal.
ReceiveFails ==
    /\ pc = "waiting"
    /\ faults < MaxFaults
    /\ faults' = faults + 1
    /\ errno' = "other"
    /\ pc' = "notify"
    /\ UNCHANGED <<stop_request, counters, cur, known, buses, arrived, entries, delivered, failing>>

\* CONTROL_TYP_RECEIVED, whatever nn_recv() returned.
NotifyReceived ==
    /\ pc = "notify"
    /\ control_message(RECEIVED, count_packet_in, count_packet_out)
    /\ pc' = "dump"
    /\ UNCHANGED <<stop_request, counters, cur, known, dump, out, outside>>

\* dump_message(): only if there is a buffer with at least one byte.
dump_message ==
    \/ payload_size + HeaderSize > 0 /\ dump' = Append(dump, cur) /\ UNCHANGED errno
    \/ payload_size + HeaderSize > 0 /\ "dump" \in failing /\ errno' = "other" /\ UNCHANGED dump
    \/ payload_size + HeaderSize <= 0 /\ UNCHANGED <<dump, errno>>

\* Wrong on purpose: once a stop is asked for, packets are not dumped any more.
Dump_UnlessStopping ==
    /\ pc = "dump"
    /\ IF stop_request = 0 THEN dump_message ELSE UNCHANGED <<dump, errno>>
    /\ count_packet_in' = count_packet_in + 1
    /\ pc' = "classify"
    /\ UNCHANGED <<stop_request, session_id, count_packet_out, cur, known, control, out, outside>>

\* The raw packet goes to the dumpers, then it is counted.
Dump ==
    /\ pc = "dump"
    /\ dump_message
    /\ count_packet_in' = count_packet_in + 1
    /\ pc' = "classify"
    /\ UNCHANGED <<stop_request, session_id, count_packet_out, cur, known, control, out, outside>>

\* payload_size < 0: also when nn_recv() returned -1.
Short ==
    /\ pc = "classify"
    /\ payload_size < 0
    /\ control_message(ERROR, count_packet_in, count_packet_out)
    /\ pc' = "errno"
    /\ UNCHANGED <<stop_request, counters, cur, known, dump, out, outside>>

\* Wrong on purpose: any failure stops the program.
TestErrno_Always ==
    /\ pc = "errno"
    /\ stop_request' = 1
    /\ pc' = "close"
    /\ UNCHANGED <<counters, errno, cur, known, buses, outside>>

\* if (errno == EINTR) { stop_request = true; break; } continue;
TestErrno ==
    /\ pc = "errno"
    /\ \/ errno = "EINTR" /\ stop_request' = 1 /\ pc' = "close"
       \/ errno # "EINTR" /\ pc' = "loop" /\ UNCHANGED stop_request
    /\ UNCHANGED <<counters, errno, cur, known, buses, outside>>

\* Wrong on purpose: an empty packet is not counted as handled.
Empty_Uncounted ==
    /\ pc = "classify"
    /\ payload_size = 0
    /\ control_message(EMPTY, count_packet_in, count_packet_out)
    /\ pc' = "flush"
    /\ UNCHANGED <<stop_request, counters, cur, known, dump, out, outside>>

\* payload_size == 0
Empty ==
    /\ pc = "classify"
    /\ payload_size = 0
    /\ count_packet_out' = count_packet_out + 1
    /\ control_message(EMPTY, count_packet_in, count_packet_out')
    /\ pc' = "flush"
    /\ UNCHANGED <<stop_request, session_id, count_packet_in, cur, known, dump, out, outside>>

\* The size is not allowed, or parsePacket() returns NULL.
Reject ==
    /\ pc = "classify"
    /\ payload_size > 0 /\ ~Deliverable(cur)
    /\ control_message(ERROR, count_packet_in, count_packet_out)
    /\ pc' = "flush"
    /\ UNCHANGED <<stop_request, counters, cur, known, dump, out, outside>>

\* Wrong on purpose: the message is sent again when a stop is asked for.
SendOut_Again ==
    /\ pc = "classify"
    /\ payload_size > 0 /\ Deliverable(cur)
    /\ out' = Append(out, cur)
    /\ pc' = IF stop_request = 0 THEN "sent" ELSE "classify"
    /\ UNCHANGED <<stop_request, counters, errno, cur, known, control, dump, outside>>

\* nn_send() of the delimited message
SendOut ==
    /\ pc = "classify"
    /\ payload_size > 0 /\ Deliverable(cur)
    /\ out' = Append(out, cur)
    /\ pc' = "sent"
    /\ UNCHANGED <<stop_request, counters, errno, cur, known, control, dump, outside>>

SendFails ==
    /\ pc = "classify"
    /\ payload_size > 0 /\ Deliverable(cur)
    /\ "out" \in failing
    /\ errno' = "other"
    /\ pc' = "unsent"
    /\ UNCHANGED <<stop_request, counters, cur, known, buses, outside>>

NotifySent ==
    /\ pc = "sent"
    /\ count_packet_out' = count_packet_out + 1
    /\ control_message(MSG_SENT, count_packet_in, count_packet_out')
    /\ pc' = "free"
    /\ UNCHANGED <<stop_request, session_id, count_packet_in, cur, known, dump, out, outside>>

NotifyUnsent ==
    /\ pc = "unsent"
    /\ control_message(ERROR, count_packet_in, count_packet_out)
    /\ pc' = "free"
    /\ UNCHANGED <<stop_request, counters, cur, known, dump, out, outside>>

\* nn_freemsg(buf)
Free ==
    /\ pc = "free"
    /\ cur' = None
    /\ pc' = "flush"
    /\ UNCHANGED <<stop_request, counters, errno, known, buses, outside>>

\* The sleep of SEND_FLUSH that ends a round is over.
EndRound ==
    /\ pc = "flush"
    /\ pc' = "loop"
    /\ UNCHANGED <<stop_request, counters, errno, cur, known, buses, outside>>

-----------------------------------------------------------------------------

\* The thread sleeps in SEND_FLUSH, after a send.
Flushing ==
    \/ pc \in {"dump", "errno", "sent", "unsent", "free", "flush"}
    \/ pc = "classify" /\ payload_size + HeaderSize > 0

\* SIGINT (1) or SIGHUP (2): stop() or reload() runs.  A signal ends a blocking
\* nn_recv() with EINTR, and a nanosleep() of SEND_FLUSH it happens to meet.
Signal(request) ==
    /\ pc # "ended"
    /\ delivered < MaxSignals
    /\ delivered' = delivered + 1
    /\ stop_request' = request
    /\ \/ pc = "waiting" /\ pc' = "notify" /\ errno' = "EINTR"
       \/ pc # "waiting" /\ pc' = pc /\ errno' = errno
       \/ Flushing /\ pc' = pc /\ errno' = "EINTR"
    /\ UNCHANGED <<counters, cur, known, buses, arrived, entries, faults, failing>>

Main == Enter \/ RunnerEnds \/ Start \/ Open \/ OpenFails \/ Close \/ Again \/ Returned \/ LoopTest
            \/ NotifyReceived \/ Dump \/ Short \/ TestErrno \/ Empty \/ Reject \/ SendOut
            \/ SendFails \/ NotifySent \/ NotifyUnsent \/ Free \/ EndRound

Next == Main \/ (\E p \in Packets : Receive(p)) \/ ReceiveFails \/ Signal(1) \/ Signal(2)

Spec == Init /\ [][Next]_vars

\* The operating system runs the main thread; nobody need send a packet.
FairSpec == Spec /\ WF_vars(Main)

-----------------------------------------------------------------------------

Event == [session : Nat, in : Nat, out : Nat, typ : {RECEIVED, ERROR, MSG_SENT, EMPTY}]

TypeOK ==
    /\ pc \in Places
    /\ stop_request \in 0..2
    /\ session_id \in Nat /\ count_packet_in \in Nat /\ count_packet_out \in Nat
    /\ errno \in {"EINTR", "other"}
    /\ cur \in Packets \cup {None}
    /\ known \subseteq Packets
    /\ control \in Seq(Event)
    /\ dump \in Seq(Packets)
    /\ out \in Seq(Packets)
    /\ arrived \in 0..MaxPackets
    /\ entries \in 0..(Retries + 1)
    /\ delivered \in 0..MaxSignals
    /\ faults \in 0..MaxFaults
    /\ failing \in Failing

(***************************************************************************)
(* The control bus tells the whole story of a call, reloads included: the    *)
(* events come in pairs, the first CONTROL_TYP_RECEIVED, the second what      *)
(* became of the packet, both with the same session; and from the counters   *)
(* an event carries its reader can tell how many rounds were received and    *)
(* how many handled (control_message, pkt2receivernano.cpp 67-88).           *)
(***************************************************************************)
ControlTellsAll ==
    "control" \notin failing =>
        \A i \in 1..Len(control) :
            /\ (control[i].typ = RECEIVED) <=> (i % 2 = 1)
            /\ control[i].session = (i + 1) \div 2
            /\ control[i].in = i \div 2
            /\ control[i].out = (IF i = 1 THEN 0 ELSE control[i - 1].out)
                                 + (IF control[i].typ \in {EMPTY, MSG_SENT} THEN 1 ELSE 0)

(***************************************************************************)
(* At the head of the loop every session is counted once, and the control    *)
(* bus has heard of all of them.                                            *)
(***************************************************************************)
SessionsCounted ==
    pc = "loop" =>
        /\ session_id = count_packet_in
        /\ count_packet_out <= count_packet_in
        /\ "control" \notin failing => Len(control) = 2 * session_id

(***************************************************************************)
(* A message goes to the handlers only after the dumpers got its packet, and *)
(* it is the packet they got last: what is in the database can be traced to  *)
(* a dump, also while a stop or a reload is pending.                         *)
(***************************************************************************)
DumpedBeforeSent ==
    [][ "dump" \notin failing /\ out' # out =>
            dump # <<>> /\ dump[Len(dump)] = out'[Len(out')] ]_vars

(***************************************************************************)
(* Without a signal the receiver ends only after its retries are used up by  *)
(* failures to open its sockets: no packet, however short, and no error of   *)
(* nn_recv() or nn_send() ends it.                                          *)
(***************************************************************************)
NoPacketEndsIt == pc = "ended" => delivered > 0 \/ faults > Retries

-----------------------------------------------------------------------------
(* The receiver as a forwarder of packets.                                  *)

\* The packet of this round is due until it is sent or nn_send() failed.
pendingBar ==
    IF pc \in {"notify", "dump", "classify"} /\ cur # None /\ Deliverable(cur) THEN cur ELSE None

F == INSTANCE Forwarder WITH pending <- pendingBar, sent <- out, lossy <- ("out" \in failing)

(***************************************************************************)
(* Stop and reload requests, failing buses and refused packets included, the *)
(* receiver puts the message of each packet it can parse on the message bus  *)
(* exactly once, in the order of arrival; a message is lost only if nn_send() *)
(* fails.                                                                   *)
(***************************************************************************)
Forwards == F!FairSpec
=============================================================================
