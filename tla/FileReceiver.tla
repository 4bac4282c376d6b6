----------------------------- MODULE FileReceiver -----------------------------
(***************************************************************************)
(* freceiver: a file of bytes, of lines of hex digits or of one number a line  *)
(* is cut into packets, which are sent to the packet bus or, with a mode of    *)
(* output, decoded and printed.  Without the name of a file std::cin is read,  *)
(* which START neither opens again nor rewinds.                              *)
(*                                                                          *)
(* A file is a sequence of units: a byte, or a line, which for hex digits is   *)
(* a sequence of bytes.  What std::cin will ever bring is a file as well.      *)
(***************************************************************************)
EXTENDS Integers, Sequences, SequencesExt

CONSTANTS
    Jobs,        \* command lines and files: file_mode, mode, packet_size, stdin, file
    FileBuffer,  \* config->buffer_size
    MaxReloads   \* bound: how many signals are delivered

ASSUME FileBounds == FileBuffer \in Nat /\ MaxReloads \in Nat
ASSUME JobsAssumption ==
    \A job \in Jobs :
        /\ job.file_mode \in {"hex", "int", "bin"} /\ job.packet_size \in Nat
        /\ job.stdin \in BOOLEAN /\ job.print \in BOOLEAN
        /\ job.file \in (IF job.file_mode = "hex" THEN Seq(Seq(Nat)) ELSE Seq(Nat))

VARIABLES
    fpc,     \* "start", "loop", "send", "print", "ended", "failed", "aborted"
    fjob,    \* the command line and the file
    frest,   \* what of the file is not read yet
    finput,  \* "whole", "cut": the stream ended before its time, "bad": badbit is set
    fpacket, \* packet.data(), up to packet.length
    fout,    \* the packets sent or printed since the input was opened, and whether that went well
    fstop,   \* config->stop_request
    fsignals

fileVars == <<fpc, fjob, frest, finput, fpacket, fout, fstop, fsignals>>

FileInit(job) ==
    /\ fpc = "start"
    /\ fjob = job
    /\ frest = IF job.stdin THEN job.file ELSE <<>>
    /\ finput = "whole"
    /\ fpacket = <<>>
    /\ fout = <<>>
    /\ fstop = 0
    /\ fsignals = 0

-----------------------------------------------------------------------------
AtMost(n, len) == IF n > 0 /\ n < len THEN n ELSE len

\* A line of hex digits: what exceeds the packet is left out.
readLine(size, rest) ==
    IF rest = <<>> THEN [r |-> 0, packet |-> <<>>, rest |-> rest]
    ELSE LET r == AtMost(size, Len(Head(rest)))
         IN [r |-> r, packet |-> SubSeq(Head(rest), 1, r), rest |-> Tail(rest)]

\* Numbers: the line that shows that the packet is full is read and dropped.
readNumbers(size, rest) ==
    LET r == AtMost(size + 1, Len(rest))
        n == AtMost(size, Len(rest))
    IN IF size = 0 THEN [r |-> Len(rest), packet |-> rest, rest |-> <<>>]
       ELSE [r |-> r, packet |-> SubSeq(rest, 1, n), rest |-> SubSeq(rest, r + 1, Len(rest))]

\* Wrong on purpose: the byte that fills the packet is left to the next one as well.
readBytes_Twice(size, rest) ==
    LET r == AtMost(size, Len(rest))
    IN [r |-> r, packet |-> SubSeq(rest, 1, r), rest |-> SubSeq(rest, r + (IF r > 1 THEN 0 ELSE 1), Len(rest))]

readBytes(size, rest) ==
    LET r == AtMost(size, Len(rest))
    IN [r |-> r, packet |-> SubSeq(rest, 1, r), rest |-> SubSeq(rest, r + 1, Len(rest))]

\* Nothing more is read from a stream with badbit.
readData(input, mode, size, rest) ==
    CASE input = "bad" -> [r |-> -1, packet |-> <<>>, rest |-> rest]
      [] input # "bad" /\ mode = "hex" -> readLine(size, rest)
      [] input # "bad" /\ mode = "int" -> readNumbers(size, rest)
      [] input # "bad" /\ mode = "bin" -> readBytes(size, rest)

\* After n units readData() reads no further.
Enough(mode, size, n) ==
    \/ mode = "hex" /\ n > 0
    \/ mode = "int" /\ size > 0 /\ n > size
    \/ mode = "bin" /\ size > 0 /\ n >= size

\* A line of which the last characters are missing: fewer bytes, or a smaller number.
Parts(mode, line) ==
    CASE mode = "hex" -> {SubSeq(line, 1, n) : n \in 0..Len(line)}
      [] mode = "int" -> 0..line
      [] mode = "bin" -> {}

\* What readData() has when read(2) fails before it has enough: whole units.
Before(mode, size, rest) ==
    {SubSeq(rest, 1, n) : n \in {m \in 0..Len(rest) : ~Enough(mode, size, m)}}

\* What it has when a signal interrupts the wait for std::cin: getc() returns EOF, so
\* that the line it was in the middle of ends there.
Broken(mode, size, rest) ==
    Before(mode, size, rest) \cup
    UNION {{Append(SubSeq(rest, 1, n - 1), part) : part \in Parts(mode, rest[n])} :
               n \in {m \in 1..Len(rest) : ~Enough(mode, size, m - 1)}}

\* START of fileReceieve(), and the beginning of filePrint().  A file that cannot be
\* opened is read like an empty one.
FileStart ==
    /\ fpc = "start"
    /\ fstop' = 0
    /\ IF fjob.stdin THEN UNCHANGED <<frest, finput, fout>>
       ELSE /\ fout' = <<>>
            /\ \/ frest' = fjob.file /\ finput' = "whole"
               \/ frest' = <<>> /\ finput' = "cut"
    /\ fpacket' = <<>>
    /\ fpc' = "loop"
    /\ UNCHANGED <<fjob, fsignals>>

\* nn_setsockopt() or nn_connect() fails; after the former a binary stream is deleted,
\* std::cin as well.
FileNotOpened ==
    /\ fpc = "start"
    /\ ~fjob.print
    /\ fstop' = 0
    /\ fpc' \in (IF fjob.stdin /\ fjob.file_mode = "bin" THEN {"failed", "aborted"} ELSE {"failed"})
    /\ UNCHANGED <<fjob, frest, finput, fpacket, fout, fsignals>>

\* The loop has ended; only fileReceieve() looks at the request again.
Leave(stop) == IF stop = 2 /\ ~fjob.print THEN "start" ELSE "ended"

FileLeave ==
    /\ fpc = "loop"
    /\ fstop # 0
    /\ fpc' = Leave(fstop)
    /\ UNCHANGED <<fjob, frest, finput, fpacket, fout, fstop, fsignals>>

\* fileReceieve() goes round again for -1 and copies a packet longer than the buffer
\* all the same.
Receives(got, stop) ==
    IF got.r = 0 THEN fpc' = Leave(stop) /\ UNCHANGED fpacket
    ELSE /\ fpacket' = got.packet
         /\ fpc' \in CASE got.packet = <<>> -> {"loop"}
                       [] got.packet # <<>> /\ Len(got.packet) > FileBuffer -> {"send", "aborted"}
                       [] got.packet # <<>> /\ Len(got.packet) <= FileBuffer -> {"send"}

\* filePrint(): -1 or a short packet ends it, one that is too long is passed over.
Prints(got, stop) ==
    IF got.r <= 0 \/ Len(got.packet) < fjob.packet_size THEN fpc' = Leave(stop) /\ UNCHANGED fpacket
    ELSE /\ fpacket' = got.packet
         /\ fpc' = IF Len(got.packet) > FileBuffer \/ got.packet = <<>> THEN "loop" ELSE "print"

\* What becomes of one call of readData() that finds data.
Takes(data, stop) ==
    LET got == readData(finput, fjob.file_mode, fjob.packet_size, data)
    IN IF fjob.print THEN Prints(got, stop) ELSE Receives(got, stop)

Reading == fpc = "loop" /\ fstop = 0

FileRead ==
    /\ Reading
    /\ Takes(frest, 0)
    /\ frest' = readData(finput, fjob.file_mode, fjob.packet_size, frest).rest
    /\ UNCHANGED <<fjob, finput, fout, fstop, fsignals>>

\* read(2) fails on a file: what was read goes on, the stream is bad.
FileReadFails ==
    /\ Reading
    /\ ~fjob.stdin
    /\ finput = "whole"
    /\ \E data \in Before(fjob.file_mode, fjob.packet_size, frest) : Takes(data, 0)
    /\ frest' = <<>>
    /\ finput' = "bad"
    /\ UNCHANGED <<fjob, fout, fstop, fsignals>>

\* A signal comes while readData() waits for std::cin, which is at its end from then on.
FileInterrupted ==
    /\ Reading
    /\ fjob.stdin
    /\ finput = "whole"
    /\ fsignals < MaxReloads
    /\ fsignals' = fsignals + 1
    /\ \E stop \in {1, 2} :
          /\ fstop' = stop
          /\ \E data \in Broken(fjob.file_mode, fjob.packet_size, frest) : Takes(data, stop)
    /\ frest' = <<>>
    /\ finput' = "cut"
    /\ UNCHANGED <<fjob, fout>>

\* nn_send(); a failure is only logged.
FileSend ==
    /\ fpc = "send"
    /\ \E ok \in BOOLEAN : fout' = Append(fout, [packet |-> fpacket, ok |-> ok])
    /\ fpc' = "loop"
    /\ UNCHANGED <<fjob, frest, finput, fpacket, fstop, fsignals>>

\* parsePacket() finds a message and it is printed, or it finds none.
FilePrinted ==
    /\ fpc = "print"
    /\ \E ok \in BOOLEAN : fout' = Append(fout, [packet |-> fpacket, ok |-> ok])
    /\ fpc' = "loop"
    /\ UNCHANGED <<fjob, frest, finput, fpacket, fstop, fsignals>>

FileSignal ==
    /\ fpc \notin {"ended", "failed", "aborted"}
    /\ fsignals < MaxReloads
    /\ fsignals' = fsignals + 1
    /\ fstop' \in {1, 2}
    /\ UNCHANGED <<fpc, fjob, frest, finput, fpacket, fout>>

FileReads == FileRead \/ FileReadFails \/ FileInterrupted
FileStep == FileStart \/ FileNotOpened \/ FileLeave \/ FileReads \/ FileSend \/ FilePrinted
FileNext == FileStep \/ FileSignal

-----------------------------------------------------------------------------
(* Properties.                                                              *)

\* Packet j of a file: packet_size bytes of it, or, of a file of numbers, so many numbers,
\* of which the one after them is left out; the last may have fewer, and with a size of 0
\* there is only one.  Of lines, as much of line j as fits.  Nothing after the end.
Cut(job, j) ==
    LET file == job.file
        size == job.packet_size
        Part(from) == SubSeq(file, from + 1, IF from + size < Len(file) THEN from + size ELSE Len(file))
    IN CASE job.file_mode = "hex" -> IF j > Len(file) THEN <<>> ELSE SubSeq(file[j], 1, AtMost(size, Len(file[j])))
         [] job.file_mode # "hex" /\ size = 0 -> IF j = 1 THEN file ELSE <<>>
         [] job.file_mode = "bin" /\ size > 0 -> Part((j - 1) * size)
         [] job.file_mode = "int" /\ size > 0 -> Part((j - 1) * (size + 1))

\* Of a packet that was cut short, the beginning; of numbers from std::cin the last one
\* may have lost digits.
Beginning(job, packet, whole) ==
    /\ Len(packet) <= Len(whole)
    /\ \A i \in 1..Len(packet) :
          \/ packet[i] = whole[i]
          \/ job.stdin /\ job.file_mode = "int" /\ i = Len(packet) /\ packet[i] <= whole[i]

\* Packet j as it should be, or, if it is the last and the input ended before its time,
\* the beginning of it.
RightPacket(packet, j, last) ==
    \/ packet = Cut(fjob, j)
    \/ finput # "whole" /\ last /\ Beginning(fjob, packet, Cut(fjob, j))

\* The packets are the input, cut in its order: none is missing, comes twice or has bytes
\* of another.  A reload begins a file again and goes on with std::cin where it was.  At
\* the end of the input, or of its lines before the first that is empty, all of it has
\* been given to nn_send(), unless read(2) failed, a signal interrupted the wait for
\* std::cin or the file could not be opened: then the last packet may be cut short and
\* nothing follows it.
FileIsSent ==
    ~fjob.print =>
        /\ \A j \in 1..Len(fout) : RightPacket(fout[j].packet, j, j = Len(fout))
        /\ fpc = "send" => RightPacket(fpacket, Len(fout) + 1, TRUE)
        /\ (fpc = "ended" /\ fstop = 0 /\ finput = "whole") => Cut(fjob, Len(fout) + 1) = <<>>

=============================================================================
