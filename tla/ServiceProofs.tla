----------------------------- MODULE ServiceProofs -----------------------------
(***************************************************************************)
(* Proofs about Service, for every set of programs and every number of        *)
(* retries, signals and failures.                                           *)
(*                                                                          *)
(* EndsForAReason is not inductive: that a program which got no signal ends   *)
(* only after more than Retries failures needs the count of failures at each  *)
(* place of the main thread, and that no request is pending.                 *)
(***************************************************************************)
EXTENDS Service, TLAPS

\* runner() has made one call of run() per retry, and one more while in run().
CallsCounted ==
    /\ pc = "main" => n = 0
    /\ pc \in {"main", "runner"} => calls = n
    /\ pc = "ended" => calls \in {n, n + 1}
    /\ pc \notin {"main", "runner", "ended"} => calls = n + 1
    /\ pc = "sleep" => n < Retries

\* A request that no signal made: that of a lost connection, which leads to START again.
Reconnects == prog.callback /\ stop_request = 2

\* Without a signal and with input left, every pass of runner() so far failed.
Undisturbed ==
    delivered = 0 /\ ~finished =>
        /\ pc \notin {"interrupted", "aborted"}
        /\ pc \in {"close", "again"} => Reconnects
        /\ failures >= n
        /\ pc \in {"returned", "sleep"} => failures > n
        /\ pc = "ended" => failures > Retries \/ (prog.main.checks /\ failures > 0)

\* Nothing is requested and no wait is broken off before the first signal, unless the
\* connection to the broker is lost.
NoRequestYet ==
    delivered = 0 =>
        /\ pc = "main" => stop_request \in AtFirst(prog)
        /\ pc \in {"runner", "open", "returned", "sleep"} => stop_request = 0
        /\ pc \notin {"main", "ended"} => stop_request = 0 \/ Reconnects
        /\ pc # "interrupted"

IInv == TypeOK /\ CallsCounted /\ Undisturbed /\ NoRequestYet

USE RetriesAssumption, SupervisedAssumption, ServiceBounds

\* A Config that is not initialised holds some value of the type.
LEMMA AtFirstTypes == ASSUME NEW p PROVE AtFirst(p) \subseteq 0..2
  BY DEF AtFirst

\* What a program must be like to be looked at.
LEMMA CandidateShape ==
    ASSUME NEW p \in Candidates
    PROVE  /\ p.main.initialises \/ p.main.clears
           /\ p.callback => p.clears /\ p.again
  <1>1. Sound(p)
    BY CandidatesAssumption
  <1> QED BY <1>1 DEF Sound

\* runner() begins without a request.
LEMMA ClearAtRunner ==
    ASSUME prog \in Candidates, stop_request \in AtFirst(prog)
    PROVE  (IF prog.main.clears THEN 0 ELSE stop_request) = 0
  <1>1. CASE prog.main.clears
    BY <1>1
  <1>2. CASE ~prog.main.clears
    <2>1. prog.main.initialises
      BY <1>2, CandidateShape
    <2> QED BY <1>2, <2>1 DEF AtFirst
  <1> QED BY <1>1, <1>2

LEMMA InitIInv == Init => IInv
  <1> SUFFICES ASSUME Init PROVE IInv
    OBVIOUS
  <1>a. prog \in Candidates /\ pc \in Places /\ fresh \in BOOLEAN /\ finished \in BOOLEAN
    BY DEF Init, Places
  <1>b. /\ stop_request \in 0..2 /\ last \in 0..2 /\ stoppedAt \in Places /\ lost \in 0..MaxLost
        /\ n \in 0..Retries /\ calls \in 0..(Retries + 1)
        /\ delivered \in 0..MaxSignals /\ failures \in 0..MaxFailures
    BY AtFirstTypes DEF Init, Places
  <1>1. TypeOK
    BY <1>a, <1>b DEF TypeOK
  <1>2. CallsCounted /\ Undisturbed /\ NoRequestYet
    BY DEF Init, CallsCounted, Undisturbed, NoRequestYet
  <1> QED BY <1>1, <1>2 DEF IInv

\* A signal leaves the main thread where it is or ends its wait.
LEMMA WakeTypes == pc \in Places => Wake \in Places
  BY DEF Wake, Places

LEMMA StepTypeOK == IInv /\ [Next]_vars => TypeOK'
  <1> SUFFICES ASSUME IInv, [Next]_vars PROVE TypeOK'
    OBVIOUS
  <1> USE DEF IInv, TypeOK, CallsCounted, Places
  <1>0. CASE NoDatabase   BY <1>0 DEF NoDatabase
  <1>1. CASE EnterRunner  BY <1>1 DEF EnterRunner
  <1>2. CASE RunnerTest   BY <1>2 DEF RunnerTest
  <1>3. CASE Start        BY <1>3 DEF Start
  <1>4. CASE Open         BY <1>4 DEF Open
  <1>5. CASE OpenFails    BY <1>5 DEF OpenFails
  <1>6. CASE LoopTest     BY <1>6 DEF LoopTest
  <1>7. CASE Block        BY <1>7 DEF Block
  <1>8. CASE Interrupted
    <2>1. finished' \in BOOLEAN  BY <1>8 DEF Interrupted
    <2>2. stop_request' \in 0..2 /\ pc' \in Places  BY <1>8 DEF Interrupted
    <2>3. UNCHANGED <<prog, n, calls, fresh, delivered, last, stoppedAt, failures, lost>>
      BY <1>8 DEF Interrupted
    <2> QED  BY <2>1, <2>2, <2>3
  <1>9. CASE Work         BY <1>9 DEF Work
  <1>10. CASE Close       BY <1>10 DEF Close
  <1>11. CASE Again       BY <1>11 DEF Again
  <1>12. CASE Returned    BY <1>12 DEF Returned
  <1>13. CASE Sleep       BY <1>13 DEF Sleep
  <1>14. CASE Arrive      BY <1>14 DEF Arrive
  <1>15. CASE InputEnds   BY <1>15 DEF InputEnds
  <1>16. CASE Sigint
    <2>1. pc' \in Places /\ stoppedAt' \in Places  BY <1>16, WakeTypes DEF Sigint
    <2>2. delivered' \in 0..MaxSignals  BY <1>16 DEF Sigint
    <2>3. UNCHANGED <<prog, n, calls, fresh, failures, lost, finished>> /\ stop_request' = 1 /\ last' = 1
      BY <1>16 DEF Sigint
    <2> QED  BY <2>1, <2>2, <2>3
  <1>17. CASE Sighup
    <2>1. pc' \in Places  BY <1>17, WakeTypes DEF Sighup
    <2>2. delivered' \in 0..MaxSignals  BY <1>17 DEF Sighup
    <2>3. fresh' \in BOOLEAN  BY <1>17 DEF Sighup
    <2>4. /\ UNCHANGED <<prog, n, calls, stoppedAt, failures, lost, finished>>
          /\ stop_request' = 2 /\ last' = 2
      BY <1>17 DEF Sighup
    <2> QED  BY <2>1, <2>2, <2>3, <2>4
  <1>20. CASE ConnectionLost  BY <1>20 DEF ConnectionLost
  <1>18. CASE Restart
    <2>1. finished' \in BOOLEAN /\ pc' \in Places  BY <1>18 DEF Restart
    <2>2. /\ stop_request' \in 0..2 /\ n' = 0 /\ calls' = 0 /\ last' = 0
          /\ UNCHANGED <<prog, fresh, delivered, stoppedAt, failures, lost>>
      BY <1>18, AtFirstTypes DEF Restart
    <2> QED  BY <2>1, <2>2
  <1>19. CASE UNCHANGED vars  BY <1>19 DEF vars
  <1> QED
    BY <1>0, <1>1, <1>2, <1>3, <1>4, <1>5, <1>6, <1>7, <1>8, <1>9, <1>10, <1>11, <1>12, <1>13,
       <1>14, <1>15, <1>16, <1>17, <1>18, <1>19, <1>20 DEF Next, Main

LEMMA StepCounts ==
    IInv /\ [Next]_vars =>
        CallsCounted' /\ Undisturbed' /\ NoRequestYet'
  <1> SUFFICES ASSUME IInv, [Next]_vars
               PROVE CallsCounted' /\ Undisturbed' /\ NoRequestYet'
    OBVIOUS
  <1> USE DEF IInv, TypeOK, CallsCounted, Undisturbed, NoRequestYet, Reconnects
  <1>0. CASE NoDatabase
    <2>1. /\ pc = "main" /\ pc' = "ended" /\ failures' = failures + 1 /\ prog.main.checks
          /\ UNCHANGED <<prog, stop_request, n, calls, delivered, finished>>
      BY <1>0 DEF NoDatabase
    <2>2. failures' > 0 /\ prog'.main.checks
      BY <2>1
    <2>3. CallsCounted'
      BY <2>1
    <2> QED BY <2>1, <2>2, <2>3
  <1>1. CASE EnterRunner
    <2>1. /\ pc = "main" /\ pc' = "runner"
          /\ stop_request' = IF prog.main.clears THEN 0 ELSE stop_request
          /\ UNCHANGED <<prog, n, calls, delivered, failures, finished>>
      BY <1>1 DEF EnterRunner
    <2>2. delivered = 0 => stop_request' = 0
      BY <2>1, ClearAtRunner
    <2> QED BY <2>1, <2>2
  <1>2. CASE RunnerTest   BY <1>2 DEF RunnerTest
  <1>3. CASE Start
    <2>1. /\ pc = "start" /\ pc' = "open" /\ stop_request' = IF prog.clears THEN 0 ELSE stop_request
          /\ UNCHANGED <<prog, n, calls, delivered, failures, finished>>
      BY <1>3 DEF Start
    <2>2. prog.callback => prog.clears
      BY CandidateShape
    <2>3. delivered = 0 => stop_request' = 0
      BY <2>1, <2>2
    <2> QED BY <2>1, <2>3
  <1>4. CASE Open         BY <1>4 DEF Open
  <1>5. CASE OpenFails    BY <1>5 DEF OpenFails
  <1>6. CASE LoopTest     BY <1>6 DEF LoopTest
  <1>7. CASE Block        BY <1>7 DEF Block
  <1>8. CASE Interrupted
    <2>1. /\ pc = "interrupted" /\ pc' \in {"close", "loop", "aborted"}
          /\ UNCHANGED <<n, calls, delivered, failures>>
      BY <1>8 DEF Interrupted
    <2>2. calls = n + 1 /\ delivered # 0
      BY <2>1
    <2> QED  BY <2>1, <2>2
  <1>9. CASE Work         BY <1>9 DEF Work
  <1>10. CASE Close       BY <1>10 DEF Close
  <1>11. CASE Again
    <2>1. /\ pc = "again" /\ pc' = IF prog.again /\ stop_request = 2 THEN "start" ELSE "returned"
          /\ UNCHANGED <<prog, stop_request, n, calls, delivered, failures, finished>>
      BY <1>11 DEF Again
    <2>2. prog.callback => prog.again
      BY CandidateShape
    <2>3. CASE pc' = "start"
      BY <2>1, <2>3
    <2>4. CASE pc' = "returned"
      <3>1. delivered # 0 \/ finished
        BY <2>1, <2>2, <2>4
      <3>2. delivered = 0 => stop_request' = 0
        BY <2>1, <2>2, <2>4
      <3> QED BY <2>1, <2>4, <3>1, <3>2
    <2> QED BY <2>1, <2>3, <2>4
  <1>12. CASE Returned    BY <1>12 DEF Returned
  <1>13. CASE Sleep       BY <1>13 DEF Sleep
  <1>14. CASE Arrive      BY <1>14 DEF Arrive
  <1>15. CASE InputEnds   BY <1>15 DEF InputEnds
  <1>16. CASE Sigint      BY <1>16 DEF Sigint, Wake, Over, Places
  <1>17. CASE Sighup      BY <1>17 DEF Sighup, Wake, Over, Places
  <1>20. CASE ConnectionLost  BY <1>20 DEF ConnectionLost
  <1>18. CASE Restart     BY <1>18 DEF Restart
  <1>19. CASE UNCHANGED vars  BY <1>19 DEF vars
  <1> QED
    BY <1>0, <1>1, <1>2, <1>3, <1>4, <1>5, <1>6, <1>7, <1>8, <1>9, <1>10, <1>11, <1>12, <1>13,
       <1>14, <1>15, <1>16, <1>17, <1>18, <1>19, <1>20 DEF Next, Main

LEMMA Inductive == Spec => []IInv
  <1>1. IInv /\ [Next]_vars => IInv'
    BY StepTypeOK, StepCounts DEF IInv
  <1> QED BY InitIInv, <1>1, PTL DEF Spec

(***************************************************************************)
(* runner() calls run() at most config->retries + 1 times, whatever signals  *)
(* and failures come, and every variable keeps its range.                    *)
(***************************************************************************)
THEOREM ServiceTypes == Spec => []TypeOK
  BY Inductive, PTL DEF IInv

(***************************************************************************)
(* A program without a signal ends only at the end of its input, after more   *)
(* than config->retries failures of run(), or in main() without its database. *)
(***************************************************************************)
THEOREM NoEndWithoutReason == Spec => []EndsForAReason
  <1>1. IInv => EndsForAReason
    BY DEF IInv, TypeOK, Undisturbed, Reconnects, EndsForAReason, Over
  <1> QED BY Inductive, <1>1, PTL
=============================================================================
