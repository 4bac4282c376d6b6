-------------------------------- MODULE Gateways --------------------------------
(***************************************************************************)
(* Programs that pass on what they get: message2gateway (from a stream or from a    *)
(* bus), pkt2gateway, repeator, the emitters tcpemitter and messageemitter, and      *)
(* pkt2js.  A send that fails is logged.                                        *)
(***************************************************************************)
EXTENDS Dumper, FiniteSets

CONSTANTS
    Outs,        \* addresses a repeator sends to, as a sequence
    RetryCounts  \* values of -r, for tcpemitter of -n

ASSUME OutsAssumption ==
    /\ Outs \in Seq(ToSet(Outs)) /\ Outs # <<>>
    /\ \A i, j \in 1..Len(Outs) : Outs[i] = Outs[j] => i = j
ASSUME RetriesAssumption == RetryCounts \subseteq Nat

VARIABLES
    retries,  \* config->retries, config->count
    opened,   \* files and sockets could be opened
    cont,     \* the flag that the handler of pkt2gateway clears
    copies,   \* copies of msg that were tried, or addresses
    sent,     \* address |-> sequence of ids
    lost      \* sends that failed

gateVars == <<retries, opened, cont, copies, sent, lost>>

Streams == {"message2gateway-stream", "tcpemitter", "messageemitter", "pkt2js"}
Gates == Streams \cup {"message2gateway-socket", "pkt2gateway", "repeator"}

Out1 == Outs[1]

GateInit(r, o) ==
    /\ retries = r /\ opened = o /\ cont = FALSE /\ copies = 0 /\ lost = {}
    /\ sent = [a \in ToSet(Outs) |-> <<>>]

\* nn_send() or write().
SendTo(a) ==
    \/ NoFault /\ sent' = [sent EXCEPT ![a] = Append(@, msg.id)] /\ UNCHANGED lost
    \/ Fault /\ lost' = lost \cup {<<a, msg.id>>} /\ UNCHANGED sent

Same == UNCHANGED gateVars
NotSent == UNCHANGED <<retries, opened, cont, sent, lost>>

-----------------------------------------------------------------------------
(* message2gateway                                                          *)

\* run_stream(): what cannot be read as a message ends the stream, as its end does.
run_stream ==
    /\ sink = "message2gateway-stream" /\ pc = "loop" /\ NoFault
    /\ \/ stop /\ Goes("ended") /\ Same
       \/ ~stop /\ (inbox = <<>> \/ Head(inbox).class = "noise") /\ Goes("ended") /\ Same
       \/ /\ ~stop /\ inbox # <<>> /\ Head(inbox).class # "noise"
          /\ inbox' = Tail(inbox) /\ msg' = Head(inbox) /\ pc' = "copy" /\ UNCHANGED <<sink, stop>>
          /\ copies' = 0 /\ NotSent

\* Wrong on purpose: one copy too many.
run_stream_copy_More ==
    /\ sink = "message2gateway-stream" /\ pc = "copy" /\ UNCHANGED <<retries, opened, cont>>
    /\ \/ copies <= retries /\ SendTo(Out1) /\ copies' = copies + 1 /\ Goes("copy")
       \/ copies > retries /\ NoFault /\ Goes("loop") /\ UNCHANGED <<copies, sent, lost>>

\* Each message is sent -r times, however the first went.
run_stream_copy ==
    /\ sink = "message2gateway-stream" /\ pc = "copy" /\ UNCHANGED <<retries, opened, cont>>
    /\ \/ copies < retries /\ SendTo(Out1) /\ copies' = copies + 1 /\ Goes("copy")
       \/ copies = retries /\ NoFault /\ Goes("loop") /\ UNCHANGED <<copies, sent, lost>>

run_socket ==
    /\ \/ Receive("message2gateway-socket", "copy", {"good", "other"})
       \/ ReceiveFails("message2gateway-socket")
       \/ Leave("message2gateway-socket")
    /\ Same

run_socket_send ==
    /\ At("message2gateway-socket", "copy") /\ SendTo(Out1) /\ Goes("loop")
    /\ UNCHANGED <<retries, opened, cont, copies>>

-----------------------------------------------------------------------------
(* pkt2gateway: one packet.                                                  *)

\* Nothing to read, an address that cannot be bound and a packet that no declaration
\* fits end the program.  What the handler of signals did until then is forgotten.
pkt2gateway_main ==
    /\ At("pkt2gateway", "loop") /\ NoFault
    /\ \/ /\ inbox # <<>> /\ Head(inbox).class = "good" /\ opened
          /\ inbox' = Tail(inbox) /\ msg' = Head(inbox) /\ pc' = "copy" /\ UNCHANGED <<sink, stop>>
          /\ cont' = TRUE /\ copies' = 0 /\ UNCHANGED <<retries, opened, sent, lost>>
       \/ /\ (inbox = <<>> \/ ~opened \/ Head(inbox).class # "good")
          /\ Goes("ended") /\ Same

pkt2gateway_send ==
    /\ At("pkt2gateway", "copy") /\ UNCHANGED <<retries, opened, cont>>
    /\ \/ cont /\ copies < retries /\ SendTo(Out1) /\ copies' = copies + 1 /\ Goes("copy")
       \/ ~(cont /\ copies < retries) /\ NoFault /\ Goes("ended") /\ UNCHANGED <<copies, sent, lost>>

pkt2gateway_signal ==
    /\ sink = "pkt2gateway" /\ pc # "ended" /\ cont
    /\ cont' = FALSE
    /\ UNCHANGED <<sinkVars, retries, opened, copies, sent, lost>>

-----------------------------------------------------------------------------
(* repeator: a message goes to every address.  It is not decoded.               *)

repeator_run ==
    /\ \/ Receive("repeator", "copy", {"good", "other", "noise", "short"}) /\ copies' = 0 /\ NotSent
       \/ ReceiveFails("repeator") /\ Same
       \/ Leave("repeator") /\ Same

repeator_send ==
    /\ At("repeator", "copy") /\ UNCHANGED <<retries, opened, cont>>
    /\ \/ copies < Len(Outs) /\ SendTo(Outs[copies + 1]) /\ copies' = copies + 1 /\ Goes("copy")
       \/ copies = Len(Outs) /\ NoFault /\ Goes("loop") /\ UNCHANGED <<copies, sent, lost>>

-----------------------------------------------------------------------------
(* The emitters read lines.  A file that cannot be opened is never at its end.  *)

ReadsLine(s, wanted) ==
    \/ opened /\ Receive(s, "copy", wanted) /\ copies' = 0 /\ NotSent
    \/ At(s, "loop") /\ (stop \/ (opened /\ inbox = <<>>)) /\ NoFault /\ Goes("ended") /\ Same

\* Each copy of a line has a connection of its own; if there is none the program ends.
\* stop_request is looked at after each copy.
tcp_emitter_line ==
    \/ ReadsLine("tcpemitter", {"good", "other"})
    \/ /\ At("tcpemitter", "copy") /\ UNCHANGED <<retries, opened, cont>>
       /\ \/ /\ copies < retries /\ SendTo(Out1)
             /\ copies' = copies + 1 /\ Goes(IF stop THEN "loop" ELSE "copy")
          \/ copies < retries /\ Fault /\ Goes("ended") /\ UNCHANGED <<copies, sent, lost>>
          \/ copies = retries /\ NoFault /\ Goes("loop") /\ UNCHANGED <<copies, sent, lost>>

\* A line is Packet.MessageType:{...}.  parseLine() hands json2pb() what begins with the
\* colon, which is no JSON: no line is ever encoded.
JsonOf(class) == IF class = "good" THEN ":{}" ELSE ""
parseLine(class) == JsonOf(class) = "{}"

messageemitter_line == ReadsLine("messageemitter", {c \in {"good", "noise"} : parseLine(c)})

\* A read() that fails (a signal interrupts it, say) gives a length of -1, for which no
\* string can be made.  With -o (here retries = 1) the input is opened once more, for
\* reading, and every write fails.
pkt2js_run ==
    \/ opened /\ Receive("pkt2js", "copy", {"good"}) /\ Same
    \/ At("pkt2js", "loop") /\ opened /\ ~stop /\ Fault /\ Goes("crashed") /\ Same
    \/ At("pkt2js", "loop") /\ (stop \/ ~opened \/ inbox = <<>>) /\ NoFault /\ Goes("ended") /\ Same
    \/ /\ At("pkt2js", "copy") /\ Goes("loop") /\ UNCHANGED <<retries, opened, cont, copies>>
       /\ \/ retries = 0 /\ SendTo(Out1)
          \/ retries > 0 /\ NoFault /\ lost' = lost \cup {<<Out1, msg.id>>} /\ UNCHANGED sent

GateStep ==
    \/ run_stream \/ run_stream_copy \/ run_socket \/ run_socket_send
    \/ pkt2gateway_main \/ pkt2gateway_send \/ repeator_run \/ repeator_send
    \/ tcp_emitter_line \/ messageemitter_line \/ pkt2js_run

-----------------------------------------------------------------------------

\* How often one address may get a message.
Times == IF sink \in {"message2gateway-stream", "pkt2gateway", "tcpemitter"} THEN retries ELSE 1

CountOf(a, id) == Cardinality({i \in 1..Len(sent[a]) : sent[a][i] = id})

\* The messages that have been dealt with: taken, and not in hand.
Settled ==
    {m \in ToSet(Inboxes[sink]) : m.class = "good" /\ m \notin ToSet(inbox) /\ (pc # "copy" \/ m # msg)}

(***************************************************************************)
(* Every address gets the messages in the order they came in, each as often as it   *)
(* is to be sent and no more, and one that has been dealt with less often only if    *)
(* a send to that very address failed.  (message2gateway-impl.cpp 100-112,          *)
(* pkt2gateway.cpp 159-176, repeator.cpp 146-188, tcpemitterline.cpp 60-93)        *)
(***************************************************************************)
PassedOnInOrder ==
    sink \in Gates =>
        \A a \in ToSet(Outs) :
            /\ \A i, j \in 1..Len(sent[a]) : i < j => sent[a][i] <= sent[a][j]
            /\ \A m \in Messages : CountOf(a, m.id) <= Times
            /\ sink \in {"message2gateway-stream", "message2gateway-socket", "repeator"} =>
                  \A m \in Settled : a = Out1 \/ sink = "repeator" =>
                      CountOf(a, m.id) = Times \/ <<a, m.id>> \in lost
=============================================================================
