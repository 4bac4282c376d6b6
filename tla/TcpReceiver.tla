----------------------------- MODULE TcpReceiver -----------------------------
(***************************************************************************)
(* tcpreceiver: one connection at a time is accepted, read once, decoded in   *)
(* place and sent to the packet bus.  The buffer of the packet stays the same *)
(* from one connection to the next.  Signals and retries are in Service.       *)
(***************************************************************************)
EXTENDS Huffman

CONSTANTS
    Decoders,   \* what the command line may make of the decoder
    Packets,    \* what a station may want to send: sequences of bytes
    TcpBuffer,  \* config->buffer_size
    MaxConns    \* bound: how many connections are accepted

ASSUME DecodersAssumption == TcpBuffer \in Nat /\ \A d \in Decoders : d.offset \in Nat

\* The tables are trees: the path to a leaf is no part of the path to another one.
ASSUME TreesAssumption == \A d \in Decoders : d.mode # 0 => IsPrefixCode(d.tree.code)

ASSUME PacketsAssumption == \A packet \in Packets : packet \in Seq(Byte)

VARIABLES
    tpc,     \* "start", "loop", "accept", "decode", "send", "ended", or where it stays for good: "hung", "aborted"
    tdec,    \* the decoder, with its table
    tdata,   \* the bytes at packet.data()
    tsize,   \* what read() returned
    tlength, \* packet.length
    tconn,   \* the last connection: what the station meant, and what read() took of it
    tcount,  \* how many connections were accepted, for the bound
    tsent,   \* the last packet put on the bus, with its connection and decoder, if any
    tstop    \* config->stop_request

tcpVars == <<tpc, tdec, tdata, tsize, tlength, tconn, tcount, tsent, tstop>>

NoConn == [packet |-> <<>>, how |-> "none", bytes |-> <<>>]
Zeros == [j \in 1..TcpBuffer |-> 0]

TcpInit(d) ==
    /\ tpc = "start"
    /\ tdec = d
    /\ tdata = Zeros
    /\ tsize = 0
    /\ tlength = 0
    /\ tconn = NoConn
    /\ tcount = 0
    /\ tsent = <<>>
    /\ tstop = 0

\* What the station puts on the wire: d.codes are the codes it has, those of the tree
\* or those of the file that the tree was made of; escape and EOF code are the same.
OnWire(d, packet) ==
    IF d.mode = 0 THEN packet
    ELSE encode_buffer2buffer(d.codes, d.esc, IF d.eof = Wild THEN NoCode ELSE d.eof, d.offset, packet)

\* The encoder has a code, or the escape code, for every byte of it.
Sendable(d, packet) ==
    d.mode = 0 \/ (/\ Len(packet) >= 2 * d.offset
                   /\ \A j \in 1..Len(packet) : Encodable(d.codes, packet[j]))

-----------------------------------------------------------------------------
\* START: the decoder is made again, with all that its constructor leaves unset;
\* the packet is a new one.  Opening the sockets may fail.
tcp_receiever_nano ==
    /\ tpc = "start"
    /\ tstop' = 0
    /\ tdec' \in {d \in Decoders : d.config = tdec.config}
    /\ tdata' = Zeros
    /\ tlength' = 0
    /\ tpc' \in {"loop", "ended"}
    /\ UNCHANGED <<tsize, tconn, tcount, tsent>>

\* while (!config->stop_request)
TcpLoop ==
    /\ tpc = "loop"
    /\ tpc' = CASE tstop = 0 -> "accept" [] tstop = 1 -> "ended" [] tstop = 2 -> "start"
    /\ UNCHANGED <<tdec, tdata, tsize, tlength, tconn, tcount, tsent, tstop>>

\* accept() fails or is interrupted.
TcpNotAccepted ==
    /\ tpc = "accept"
    /\ tpc' = "loop"
    /\ UNCHANGED <<tdec, tdata, tsize, tlength, tconn, tcount, tsent, tstop>>

\* read() into the buffer: what it does not reach stays.
Over(data, bytes) == [j \in 1..Len(data) |-> IF j <= Len(bytes) THEN bytes[j] ELSE data[j]]

\* One read(): it takes all that the station sent, or the first part of it, or it
\* meets the end, or it fails.  The wire carries bytes.
TcpRead ==
    /\ tpc = "accept"
    /\ tcount < MaxConns
    /\ tcount' = tcount + 1
    /\ \E packet \in Packets, how \in {"all", "part", "nothing", "fails"} :
          LET wire == OnWire(tdec, packet)
              bytes == CASE how = "all" -> wire
                         [] how = "part" -> SubSeq(wire, 1, Len(wire) \div 2)
                         [] OTHER -> <<>>
          IN /\ Sendable(tdec, packet) /\ wire \in Seq(Byte)
             /\ Len(bytes) <= TcpBuffer
             /\ tconn' = [packet |-> packet, how |-> how, bytes |-> bytes]
             /\ tdata' = Over(tdata, bytes)
             /\ tsize' = IF how = "fails" THEN -1 ELSE Len(bytes)
    /\ tpc' = "decode"
    /\ UNCHANGED <<tdec, tlength, tsent, tstop>>

\* Wrong on purpose: the length is only ever raised.
TcpDecode_Longest ==
    /\ tpc = "decode"
    /\ LET done == decode_buffer2buffer(tdec, tdata, tsize)
           length == IF done.length > tlength THEN done.length ELSE tlength
       IN /\ tdata' = done.buffer
          /\ tlength' = length
          /\ tpc' = CASE done.how = "hangs" -> "hung"
                      [] done.how = "returns" -> IF length \in Nat \ {0} THEN "send" ELSE "loop"
                      [] OTHER -> "aborted"
    /\ UNCHANGED <<tdec, tsize, tconn, tcount, tsent, tstop>>

\* decode_buffer2buffer(), setLength() and the test of the length.
TcpDecode ==
    /\ tpc = "decode"
    /\ LET done == decode_buffer2buffer(tdec, tdata, tsize)
       IN /\ tdata' = done.buffer
          /\ tlength' = done.length
          /\ tpc' = CASE done.how = "hangs" -> "hung"
                      [] done.how = "returns" -> IF done.length \in Nat \ {0} THEN "send" ELSE "loop"
                      [] OTHER -> "aborted"
    /\ UNCHANGED <<tdec, tsize, tconn, tcount, tsent, tstop>>

\* nn_send(): a failure is written to the log and the packet is lost.
TcpSend ==
    /\ tpc = "send"
    /\ tsent' \in {tsent, <<[of |-> tconn, dec |-> tdec, payload |-> SubSeq(tdata, 1, tlength)]>>}
    /\ tpc' = "loop"
    /\ UNCHANGED <<tdec, tdata, tsize, tlength, tconn, tcount, tstop>>

\* stop() and reload(), from a signal handler.
TcpSignal ==
    /\ tpc \notin {"ended", "aborted"}
    /\ tstop = 0
    /\ tstop' \in {1, 2}
    /\ UNCHANGED <<tpc, tdec, tdata, tsize, tlength, tconn, tcount, tsent>>

TcpStep == tcp_receiever_nano \/ TcpLoop \/ TcpNotAccepted \/ TcpRead \/ TcpDecode \/ TcpSend
TcpNext == TcpStep \/ TcpSignal

-----------------------------------------------------------------------------
(* Properties.                                                              *)

\* A decoder that depends on nothing left unset: the EOF code is configured and
\* belongs to a symbol of the table, and so does the escape code if there is one.  The
\* tree has the codes of the station, which a file of codes does not ensure:
\* buildTreeFromCodes() makes codes of its own.
Determined(d) ==
    d.mode = 0 \/ (/\ d.goes
                   /\ d.eof \notin {NoCode, Wild} /\ d.eof \in Range(d.tree.code)
                   /\ d.esc = <<>> \/ d.esc \in Range(d.tree.code)
                   /\ d.codes = d.tree.code)

\* The bytes of the packet that the decoder can tell apart: none is the escape or
\* the EOF symbol, each has a code.
Plain(d, packet) ==
    \A j \in 1..Len(packet) :
        packet[j] \in DOMAIN d.tree.code /\ d.tree.code[packet[j]] # d.eof

\* What arrives is what the station sent, unless it is longer than the buffer once it is
\* decompressed.  Compression with an EOF code adds one
\* zero byte, which decompress_stream() counts with the EOF symbol.  The whole chain
\* is meant: table, compress_buffer(), the bits of the stream, decompress_stream(),
\* the move into the buffer that earlier packets have used, setLength().
PayloadIsPacket ==
    \A j \in 1..Len(tsent) :
        LET d == tsent[j].dec
            c == tsent[j].of
        IN (Determined(d) /\ c.how = "all" /\ d.valid_sizes = {}
                /\ (d.mode = 0 \/ (Plain(d, c.packet) /\ Len(c.packet) < TcpBuffer)))
           => tsent[j].payload = IF d.mode = 0 THEN c.packet ELSE Append(c.packet, 0)

\* get_varint() is not told how much was read: with neither an EOF code nor a size, the
\* length descriptor must end within it.
LengthKnown(d, bytes) ==
    (d.mode # 0 /\ d.force = 0 /\ d.eof = NoCode)
        => \E j \in 1..(Len(bytes) - d.offset) : j < 8 /\ bytes[d.offset + j] < More

\* Whatever one read() took, no byte of an earlier connection gets into a payload,
\* though the buffer is never cleared: the payload is what a receiver just started
\* would have sent.
NoLeftovers ==
    \A j \in 1..Len(tsent) :
        LET d == tsent[j].dec
            c == tsent[j].of
            alone == decode_buffer2buffer(d, Over(Zeros, c.bytes), Len(c.bytes))
        IN (LengthKnown(d, c.bytes) /\ Len(tsent[j].payload) <= TcpBuffer)
           => tsent[j].payload = SubSeq(alone.buffer, 1, alone.length)

\* Every byte of the packet has a code, or there is an escape code to put before it;
\* without one the encoder writes a zero byte among the codes.
Known(d, packet) ==
    d.mode = 0 \/ d.esc # <<>> \/ \A j \in 1..Len(packet) : packet[j] \in DOMAIN d.tree.code

\* A packet that was read as a whole neither stops the loop nor ends the program,
\* if the decoder is determined.
WholePacketIsServed ==
    (tpc \in {"hung", "aborted"} /\ Determined(tdec) /\ Known(tdec, tconn.packet))
        => tconn.how # "all"

=============================================================================
