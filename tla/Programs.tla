------------------------------- MODULE Programs -------------------------------
(***************************************************************************)
(* The run() functions of the pkt2 programs have one skeleton,               *)
(*                                                                          *)
(*    START: stop_request = 0; open sockets and files, read .proto files;    *)
(*           while (!stop_request) { wait for input; handle it; }            *)
(*           close; if (stop_request == 2) goto START; return                *)
(*                                                                          *)
(* and differ in the points below.  The module Service gives the skeleton    *)
(* its behaviour.                                                           *)
(*                                                                          *)
(*   clears      START resets stop_request                                  *)
(*   interrupted what the program does when a signal interrupts its wait:    *)
(*               "stop"   sees EINTR, sets stop_request to 1 and leaves      *)
(*               "retry"  goes back to the test of the loop                 *)
(*               "resume" the library repeats the read, it is not told       *)
(*               "eof"    std::cin takes it for the end of its input         *)
(*               "abort"  takes the -1 of read() for a length and dies       *)
(*   again       a request of 2 leads back to START                         *)
(*   input       "bus" never ends; "file" may reach its end, and so may       *)
(*               "stdin", which is not opened again after that              *)
(*   callback    a thread of a library may ask for a reload                  *)
(*   loaded      init() of the loader starts it, and check() starts it again  *)
(*                                                                          *)
(* stop() and reload() beside each run() are the same in all of them: they    *)
(* set stop_request to 1 and to 2, wherever run() is.                        *)
(*                                                                          *)
(* Each program has its own main(), runner() and handlers too, in a source    *)
(* file of its own.  They differ in what main says:                          *)
(*                                                                          *)
(*   initialises the constructor of Config sets stop_request to 0            *)
(*   checks      main() tries the database and exits if it is not there       *)
(*   clears      runner() resets stop_request before its loop                *)
(***************************************************************************)

Mains == [initialises : BOOLEAN, checks : BOOLEAN, clears : BOOLEAN]

Shape == [clears : BOOLEAN, interrupted : {"stop", "retry", "resume", "eof", "abort"},
          again : BOOLEAN, input : {"bus", "file", "stdin"}, callback : BOOLEAN, loaded : BOOLEAN,
          main : Mains]

-----------------------------------------------------------------------------

Plain == [initialises |-> TRUE, checks |-> FALSE, clears |-> FALSE]

handlerline_main == Plain
handlerlmdb_main == Plain
handler_fcm_main == Plain
handler_google_sheets_main == Plain
pkt2receiver_main == Plain
message2gateway_main == Plain
tcpreceiver_main == Plain
mqtt_receiver_main == Plain
freceiver_main == Plain
tcpemitter_main == Plain
messageemitter_main == Plain
pkt2sheet_main == Plain
js2sheet_main == Plain
handlerpq_main == [Plain EXCEPT !.checks = TRUE]
pkt2dumppq_main == [Plain EXCEPT !.checks = TRUE]
pkt2dumpfcm_main == [Plain EXCEPT !.checks = TRUE]
repeator_main == [Plain EXCEPT !.initialises = FALSE, !.clears = TRUE]

-----------------------------------------------------------------------------

BusHandler ==
    [clears |-> TRUE, interrupted |-> "stop", again |-> TRUE, input |-> "bus",
     callback |-> FALSE, loaded |-> TRUE, main |-> Plain]

handlerline == [BusHandler EXCEPT !.main = handlerline_main]
handlerpq == [BusHandler EXCEPT !.main = handlerpq_main]
\* init() looks for it under the name handlerfcm.
handler_fcm == [BusHandler EXCEPT !.main = handler_fcm_main]
handler_google_sheets == [BusHandler EXCEPT !.main = handler_google_sheets_main]
pkt2receiver == [BusHandler EXCEPT !.main = pkt2receiver_main]

\* run() of lmdbwriter.cpp has the label START but no goto.
handlerlmdb == [BusHandler EXCEPT !.again = FALSE, !.main = handlerlmdb_main]

repeator == [BusHandler EXCEPT !.main = repeator_main]

\* accept() fails and the loop goes on.
tcpreceiver == [BusHandler EXCEPT !.interrupted = "retry", !.main = tcpreceiver_main]

\* The main thread waits in sleep(1), which a signal ends.  When the connection to the
\* broker is lost, the library calls cb_connection_lost() in a thread of its own.
mqtt_receiver == [BusHandler EXCEPT !.interrupted = "retry", !.callback = TRUE, !.main = mqtt_receiver_main]

\* Lines or bytes of a file: std::ifstream repeats an interrupted read by itself.
freceiver == [BusHandler EXCEPT !.interrupted = "resume", !.input = "file", !.main = freceiver_main]

\* The same from std::cin, which is not opened, closed or cleared of its end.
freceiver_stdin == [freceiver EXCEPT !.interrupted = "eof", !.input = "stdin"]

-----------------------------------------------------------------------------
(* What follows is started by hand: the loader does not know it.            *)

Tool == [BusHandler EXCEPT !.loaded = FALSE]

\* The dumpers take every failed nn_recv for a packet that is too small.
pkt2dumppq == [Tool EXCEPT !.interrupted = "retry", !.main = pkt2dumppq_main]
pkt2dumpfcm == [Tool EXCEPT !.interrupted = "retry", !.main = pkt2dumpfcm_main]

\* run_socket(): a failed nn_recv is logged.
message2gateway == [Tool EXCEPT !.interrupted = "retry", !.main = message2gateway_main]

\* run_stream() has no START: it neither resets the request nor looks at it again.
message2gateway_file == [message2gateway EXCEPT
    !.clears = FALSE, !.again = FALSE, !.interrupted = "resume", !.input = "file"]
message2gateway_stdin == [message2gateway_file EXCEPT !.interrupted = "eof", !.input = "stdin"]

tcpemitter == [Tool EXCEPT !.interrupted = "resume", !.input = "file", !.main = tcpemitter_main]
tcpemitter_stdin == [tcpemitter EXCEPT !.interrupted = "eof", !.input = "stdin"]
messageemitter == [Tool EXCEPT !.interrupted = "resume", !.input = "file", !.main = messageemitter_main]
messageemitter_stdin == [messageemitter EXCEPT !.interrupted = "eof", !.input = "stdin"]

\* Programs that call read() and never reset stop_request.
pkt2sheet == [Tool EXCEPT !.clears = FALSE, !.interrupted = "abort", !.input = "file", !.main = pkt2sheet_main]
js2sheet == [Tool EXCEPT !.clears = FALSE, !.interrupted = "abort", !.input = "file", !.main = js2sheet_main]

-----------------------------------------------------------------------------

\* The ten kinds of program that init() of the loader starts.
LoadedPrograms == {tcpreceiver, mqtt_receiver, freceiver, freceiver_stdin, pkt2receiver, handlerline,
    handlerlmdb, handlerpq, handler_fcm, handler_google_sheets, repeator}

OtherPrograms == {pkt2dumppq, pkt2dumpfcm, message2gateway, message2gateway_file, message2gateway_stdin,
    tcpemitter, tcpemitter_stdin, messageemitter, messageemitter_stdin, pkt2sheet, js2sheet}

AllPrograms == LoadedPrograms \cup OtherPrograms
=============================================================================
