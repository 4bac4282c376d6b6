-------------------------------- MODULE Service --------------------------------
(***************************************************************************)
(* The life of one program of the pipeline: main(), runner() with its        *)
(* retries, run() with its START label, and the handlers of SIGINT and       *)
(* SIGHUP, which run between any two steps of the main thread.  Line numbers *)
(* in the map are those of handlerline.cpp and linewriter.cpp; the other     *)
(* programs differ as module Programs says.                                 *)
(*                                                                          *)
(* Supervised adds the loader: pkt2 starts a program that has ended again,   *)
(* if it is one of those that init() starts.                                *)
(***************************************************************************)
EXTENDS Integers, Programs

CONSTANTS
    Candidates,  \* the programs looked at, a subset of AllPrograms
    Retries,     \* config->retries
    Supervised,  \* the program was started by pkt2, if pkt2 starts its kind
    MaxSignals,  \* bound: how many SIGINT and SIGHUP are delivered
    MaxFailures, \* bound: how often opening sockets or files fails
    MaxLost      \* bound: how often the connection to a broker is lost

\* Nothing but the constructor or runner() resets the request of a new process, and a
\* program that a callback may ask for a reload goes back to START and resets it.
Sound(p) == (p.main.initialises \/ p.main.clears) /\ (p.callback => p.clears /\ p.again)

ASSUME CandidatesAssumption == Candidates \subseteq {p \in Shape : Sound(p)}
ASSUME RetriesAssumption == Retries \in Nat
ASSUME SupervisedAssumption == Supervised \in BOOLEAN
ASSUME ServiceBounds == MaxSignals \in Nat /\ MaxFailures \in Nat /\ MaxLost \in Nat

VARIABLES
    prog,         \* the program, chosen once
    pc,           \* where its main thread is
    stop_request, \* config->stop_request
    n,            \* runner()'s count of retries
    calls,        \* how often runner() has called run() since the process began
    fresh,        \* START has read the .proto files since the last SIGHUP
    delivered,    \* how many signals came so far
    last,         \* 0, or what the last signal or callback asked for: 1 stop, 2 reload
    stoppedAt,    \* where the main thread was when the last SIGINT came
    failures,     \* how often run() could not open its sockets or files
    lost,         \* how often the connection was lost
    finished      \* the input of the program has come to its end

vars == <<prog, pc, stop_request, n, calls, fresh, delivered, last, stoppedAt, failures, lost, finished>>

\* Places of the main thread.  "ready" is between the test of the loop and the
\* blocking call, "waiting" in it, "interrupted" after it returned with EINTR.
Places == {"main", "runner", "start", "open", "loop", "ready", "waiting", "interrupted",
           "work", "close", "again", "returned", "sleep", "ended", "aborted"}

Over == pc \in {"ended", "aborted"}

\* stop_request in a new process: anything if Config() does not set it.
AtFirst(p) == IF p.main.initialises THEN {0} ELSE 0..2

Init ==
    /\ prog \in Candidates
    /\ pc = "main"
    /\ stop_request \in AtFirst(prog)
    /\ n = 0
    /\ calls = 0
    /\ fresh = TRUE
    /\ delivered = 0
    /\ last = 0
    /\ stoppedAt = "main"
    /\ failures = 0
    /\ lost = 0
    /\ finished = FALSE

-----------------------------------------------------------------------------
(* The main thread.                                                         *)

\* main() finds no database and exits: nothing is retried.
NoDatabase ==
    /\ pc = "main"
    /\ prog.main.checks
    /\ failures < MaxFailures
    /\ failures' = failures + 1
    /\ pc' = "ended"
    /\ UNCHANGED <<prog, stop_request, n, calls, fresh, delivered, last, stoppedAt, lost, finished>>

\* main() calls runner(); that of repeator resets the request first.
EnterRunner ==
    /\ pc = "main"
    /\ stop_request' = IF prog.main.clears THEN 0 ELSE stop_request
    /\ pc' = "runner"
    /\ UNCHANGED <<prog, n, calls, fresh, delivered, last, stoppedAt, failures, lost, finished>>

\* while (!config->stop_request) reslt = run(config);
RunnerTest ==
    /\ pc = "runner"
    /\ IF stop_request = 0
       THEN pc' = "start" /\ calls' = calls + 1
       ELSE pc' = "ended" /\ UNCHANGED calls
    /\ UNCHANGED <<prog, stop_request, n, fresh, delivered, last, stoppedAt, failures, lost, finished>>

\* Wrong on purpose: the request survives START.
Start_KeepsRequest ==
    /\ pc = "start"
    /\ pc' = "open"
    /\ UNCHANGED <<prog, stop_request, n, calls, fresh, delivered, last, stoppedAt, failures, lost, finished>>

\* START: config->stop_request = 0;
Start ==
    /\ pc = "start"
    /\ stop_request' = IF prog.clears THEN 0 ELSE stop_request
    /\ pc' = "open"
    /\ UNCHANGED <<prog, n, calls, fresh, delivered, last, stoppedAt, failures, lost, finished>>

\* Wrong on purpose: the .proto files are read on the first pass only.
Open_Once ==
    /\ pc = "open"
    /\ pc' = "loop"
    /\ UNCHANGED <<prog, stop_request, n, calls, fresh, delivered, last, stoppedAt, failures, lost, finished>>


\* Sockets and files are opened, the .proto files read.
Open ==
    /\ pc = "open"
    /\ fresh' = TRUE
    /\ pc' = "loop"
    /\ UNCHANGED <<prog, stop_request, n, calls, delivered, last, stoppedAt, failures, lost, finished>>

\* One of these fails: run() returns an error code at once.
OpenFails ==
    /\ pc = "open"
    /\ failures < MaxFailures
    /\ failures' = failures + 1
    /\ pc' = "returned"
    /\ UNCHANGED <<prog, stop_request, n, calls, fresh, delivered, last, stoppedAt, lost, finished>>

\* while (!config->stop_request)
LoopTest ==
    /\ pc = "loop"
    /\ pc' = IF stop_request = 0 THEN "ready" ELSE "close"
    /\ UNCHANGED <<prog, stop_request, n, calls, fresh, delivered, last, stoppedAt, failures, lost, finished>>

\* nn_recv(), accept() or read() is called with nothing to read.  Standard input that
\* has come to its end stays there.
Block ==
    /\ pc = "ready"
    /\ pc' = IF prog.input = "stdin" /\ finished THEN "close" ELSE "waiting"
    /\ UNCHANGED <<prog, stop_request, n, calls, fresh, delivered, last, stoppedAt, failures, lost, finished>>

\* A message, connection or line arrives.
Arrive ==
    /\ pc = "waiting"
    /\ pc' = "work"
    /\ UNCHANGED <<prog, stop_request, n, calls, fresh, delivered, last, stoppedAt, failures, lost, finished>>

\* The end of the input file: the loop is left.
InputEnds ==
    /\ pc = "waiting"
    /\ prog.input # "bus"
    /\ finished' = TRUE
    /\ pc' = "close"
    /\ UNCHANGED <<prog, stop_request, n, calls, fresh, delivered, last, stoppedAt, failures, lost>>

\* The message is decoded, filtered and handed over; every outcome goes back to
\* the test of the loop.
Work ==
    /\ pc = "work"
    /\ pc' = "loop"
    /\ UNCHANGED <<prog, stop_request, n, calls, fresh, delivered, last, stoppedAt, failures, lost, finished>>

\* The blocking call has returned with EINTR.
Interrupted ==
    /\ pc = "interrupted"
    /\ \/ /\ prog.interrupted = "stop"
          /\ stop_request' = 1
          /\ pc' = "close"
          /\ UNCHANGED finished
       \/ /\ prog.interrupted = "retry"
          /\ pc' = "loop"
          /\ UNCHANGED <<stop_request, finished>>
       \/ /\ prog.interrupted = "eof"
          /\ finished' = TRUE
          /\ pc' = "close"
          /\ UNCHANGED stop_request
       \/ /\ prog.interrupted = "abort"
          /\ pc' = "aborted"
          /\ UNCHANGED <<stop_request, finished>>
    /\ UNCHANGED <<prog, n, calls, fresh, delivered, last, stoppedAt, failures, lost>>

\* Buffers, files and sockets are closed.
Close ==
    /\ pc = "close"
    /\ pc' = "again"
    /\ UNCHANGED <<prog, stop_request, n, calls, fresh, delivered, last, stoppedAt, failures, lost, finished>>

\* if (config->stop_request == 2) goto START;
Again ==
    /\ pc = "again"
    /\ pc' = IF prog.again /\ stop_request = 2 THEN "start" ELSE "returned"
    /\ UNCHANGED <<prog, stop_request, n, calls, fresh, delivered, last, stoppedAt, failures, lost, finished>>

\* Wrong on purpose: one retry less.
Returned_Early ==
    /\ pc = "returned"
    /\ pc' = IF n + 1 >= Retries THEN "ended" ELSE "sleep"
    /\ UNCHANGED <<prog, stop_request, n, calls, fresh, delivered, last, stoppedAt, failures, lost, finished>>

\* if (n >= config->retries) break;
Returned ==
    /\ pc = "returned"
    /\ pc' = IF n >= Retries THEN "ended" ELSE "sleep"
    /\ UNCHANGED <<prog, stop_request, n, calls, fresh, delivered, last, stoppedAt, failures, lost, finished>>

\* SLEEP(config->retry_delay); n++;
Sleep ==
    /\ pc = "sleep"
    /\ n' = n + 1
    /\ pc' = "runner"
    /\ UNCHANGED <<prog, stop_request, calls, fresh, delivered, last, stoppedAt, failures, lost, finished>>

-----------------------------------------------------------------------------
(* Signals.  One that meets the blocking call ends it, unless the library   *)
(* repeats the call.                                                        *)

Wake == IF pc = "waiting" /\ prog.interrupted # "resume" THEN "interrupted" ELSE pc

Sigint ==
    /\ ~Over
    /\ delivered < MaxSignals
    /\ delivered' = delivered + 1
    /\ stop_request' = 1
    /\ last' = 1
    /\ stoppedAt' = pc
    /\ pc' = Wake
    /\ UNCHANGED <<prog, n, calls, fresh, failures, lost, finished>>

Sighup ==
    /\ ~Over
    /\ delivered < MaxSignals
    /\ delivered' = delivered + 1
    /\ stop_request' = 2
    /\ last' = 2
    /\ fresh' = FALSE
    /\ pc' = Wake
    /\ UNCHANGED <<prog, n, calls, stoppedAt, failures, lost, finished>>

\* cb_connection_lost(), in a thread of the MQTT library, from the moment the client is
\* connected until it is destroyed; it writes over any other request.
ConnectionLost ==
    /\ prog.callback
    /\ pc \in {"loop", "ready", "waiting", "interrupted", "work", "close"}
    /\ lost < MaxLost
    /\ lost' = lost + 1
    /\ stop_request' = 2
    /\ last' = 2
    /\ UNCHANGED <<prog, pc, n, calls, fresh, delivered, stoppedAt, failures, finished>>

\* check() of the loader finds the process gone and starts it again, if it is of one of
\* the kinds that init() has put into its list.
Restart ==
    /\ Supervised
    /\ prog.loaded
    /\ Over
    /\ pc' = "main"
    /\ stop_request' \in AtFirst(prog)
    /\ n' = 0
    /\ calls' = 0
    /\ last' = 0
    /\ finished' = FALSE
    /\ UNCHANGED <<prog, fresh, delivered, stoppedAt, failures, lost>>

-----------------------------------------------------------------------------

Main == NoDatabase \/ EnterRunner \/ RunnerTest \/ Start \/ Open \/ OpenFails \/ LoopTest \/ Block
            \/ Interrupted \/ Work \/ Close \/ Again \/ Returned \/ Sleep

Next == Main \/ Arrive \/ InputEnds \/ Sigint \/ Sighup \/ ConnectionLost \/ Restart

Spec == Init /\ [][Next]_vars

\* The operating system runs the program and the loader, and the bus is not
\* silent for ever: without traffic a request that comes just before nn_recv()
\* blocks is never seen.
FairSpec ==
    /\ Spec
    /\ WF_vars(Main)
    /\ WF_vars(Arrive)
    /\ WF_vars(Restart)

-----------------------------------------------------------------------------

TypeOK ==
    /\ prog \in Candidates
    /\ pc \in Places
    /\ stop_request \in 0..2
    /\ n \in 0..Retries
    /\ calls \in 0..(Retries + 1)
    /\ fresh \in BOOLEAN
    /\ delivered \in 0..MaxSignals
    /\ last \in 0..2
    /\ stoppedAt \in Places
    /\ failures \in 0..MaxFailures
    /\ lost \in 0..MaxLost
    /\ finished \in BOOLEAN

(***************************************************************************)
(* A program that got no signal ends only when its input has come to its     *)
(* end, run() has failed more often than config->retries allows, or main()    *)
(* wants a database that is not there: neither a message nor an error of a    *)
(* single pass ends it, nor the memory in which its Config happens to lie.    *)
(* (main() and runner(), handlerline.cpp 48-140, repeator.cpp 220-312)        *)
(***************************************************************************)
EndsForAReason ==
    Over => delivered > 0 \/ finished \/ failures > Retries \/ (prog.main.checks /\ failures > 0)

(***************************************************************************)
(* A SIGINT ends the program wherever it meets the main thread, unless a      *)
(* reload is asked for afterwards, by SIGHUP or because the connection to the *)
(* broker is lost.  There is one gap only: between the test of runner(), or   *)
(* the goto, and the first statement of run(), which erases the request (in   *)
(* repeator, runner() does that too, before its loop).                       *)
(* (runner() and stop(), handlerline.cpp 48-63, linewriter.cpp 45-46, 176-191)*)
(***************************************************************************)
Gap == {place \in {"start"} : prog.clears} \cup {place \in {"main"} : prog.main.clears}


(***************************************************************************)
(* README: after "kill -1" the programs start over and read the .proto files *)
(* again, themselves or in the process that the loader starts in their place. *)
(* Of a program the loader does not start, it can only be said that it ends   *)
(* if it does not.                                                          *)
(***************************************************************************)
ReloadRereads == (last = 2 /\ ~fresh) ~> (fresh \/ last = 1 \/ (Over /\ ~prog.loaded))

(***************************************************************************)
(* The same for a program that SIGHUP meets in the blocking call, which is   *)
(* where it nearly always is.                                               *)
(***************************************************************************)
ReloadOfWaiting ==
    (pc = "interrupted" /\ last = 2 /\ ~fresh) ~> (fresh \/ last = 1)

(***************************************************************************)
(* Whatever it is asked for, a program that resets the request at START, or   *)
(* does not go back there, comes back to waiting for input or ends: no        *)
(* sequence of requests makes it run from START to START for ever.  (The two  *)
(* programs that go back and do not reset it do just that after one SIGHUP.) *)
(***************************************************************************)
ReturnsToWait == prog.clears \/ ~prog.again => []<>(pc = "waiting" \/ Over)

=============================================================================
