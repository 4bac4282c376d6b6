--------------------------- MODULE SupervisorProofs ---------------------------
(***************************************************************************)
(* For every number of entries, every set of identifiers, and whatever       *)
(* forks fail, executables are missing or identifiers are recycled: pkt2     *)
(* never loses a child, and when it has ended it has asked all of them to.   *)
(***************************************************************************)
EXTENDS Supervisor, TLAPS

\* What is known of the children pkt2 has not asked to stop, place by place.
\* Before START there are none; start() has passed over their entries; stop()
\* has not reached them yet.
Placed ==
    /\ pc \in {"load", "done"} => \A p \in Pids : Alive(p) => proc[p].asked
    /\ pc = "start" => \A p \in Pids : Alive(p) /\ ~proc[p].asked => proc[p].of < i
    /\ pc = "stop" => \A p \in Pids : Alive(p) /\ ~proc[p].asked => i <= proc[p].of

IInv == TypeOK /\ NoOrphans /\ Placed

USE NAssumption, PidsAssumption, MissingAssumption, FlagsAssumption, BoundsAssumption,
    StrangersAssumption

LEMMA InitIInv == Init => IInv
<1> SUFFICES ASSUME Init PROVE IInv
    OBVIOUS
<1>1. NoProc \in Proc /\ Stranger \in Proc
    BY DEF NoProc, Stranger, Proc, ProcState
<1>2. \A p \in Pids : proc[p] \in Proc /\ ~Alive(p)
    BY <1>1 DEF Init, Alive, NoProc, Stranger
<1>3. proc \in [Pids -> Proc]
    BY <1>2 DEF Init
<1>4. TypeOK
    BY <1>3 DEF Init, TypeOK, Descr
<1>5. QED
    BY <1>2, <1>4 DEF Init, IInv, NoOrphans, Placed

\* Starting an entry none of whose processes is alive and unasked loses nobody.
LEMMA StartKeeps ==
  ASSUME TypeOK, NoOrphans, NEW d \in Descr, d <= size, StartDescriptor(d), gen' = gen, size' = size,
         \A p \in Pids : Alive(p) /\ ~proc[p].asked => proc[p].of # d
  PROVE  /\ pid' \in [Descr -> Pids \cup {0, -1}]
         /\ start_count' \in [Descr -> Nat]
         /\ proc' \in [Pids -> Proc]
         /\ NoOrphans'
         /\ \A p \in Pids : Alive(p)' /\ ~proc'[p].asked =>
               \/ Alive(p) /\ ~proc[p].asked /\ proc'[p].of = proc[p].of
               \/ proc'[p].of = d
<1>1. CASE pid' = [pid EXCEPT ![d] = -1] /\ UNCHANGED <<start_count, proc>>
  BY <1>1 DEF TypeOK, NoOrphans, Alive
<1>2. ASSUME NEW p \in FreePids,
             pid' = [pid EXCEPT ![d] = p],
             start_count' = [start_count EXCEPT ![d] = @ + 1],
             proc' = [proc EXCEPT ![p] =
                [state |-> "forked", of |-> d, born |-> gen, asked |-> FALSE, heeds |-> FALSE]]
      PROVE  /\ pid' \in [Descr -> Pids \cup {0, -1}]
             /\ start_count' \in [Descr -> Nat]
             /\ proc' \in [Pids -> Proc]
             /\ NoOrphans'
             /\ \A q \in Pids : Alive(q)' /\ ~proc'[q].asked =>
                   \/ Alive(q) /\ ~proc[q].asked /\ proc'[q].of = proc[q].of
                   \/ proc'[q].of = d
  <2>1. p \in Pids /\ ~Alive(p)
    BY <1>2 DEF FreePids, Unused, Alive
  <2>2. [state |-> "forked", of |-> d, born |-> gen, asked |-> FALSE, heeds |-> FALSE] \in Proc
    BY DEF TypeOK, Proc, ProcState, Descr
  <2>3. /\ pid' \in [Descr -> Pids \cup {0, -1}]
        /\ start_count' \in [Descr -> Nat]
        /\ proc' \in [Pids -> Proc]
    BY <1>2, <2>1, <2>2 DEF TypeOK
  <2>4. /\ proc'[p].of = d /\ proc'[p].born = gen
        /\ \A q \in Pids \ {p} : proc'[q] = proc[q]
    BY <1>2, <2>1 DEF TypeOK
  <2>5. pid'[d] = p /\ \A e \in Descr \ {d} : pid'[e] = pid[e]
    BY <1>2 DEF TypeOK
  <2>6. NoOrphans'
    <3> SUFFICES ASSUME NEW q \in Pids, Alive(q)', ~proc'[q].asked
                 PROVE  proc'[q].of \in 1..size /\ proc'[q].born = gen /\ pid'[proc'[q].of] = q
      BY DEF NoOrphans
    <3>1. CASE q = p
      BY <2>4, <2>5, <3>1 DEF TypeOK, Descr
    <3>2. CASE q # p
      <4>1. Alive(q) /\ ~proc[q].asked /\ proc'[q] = proc[q]
        BY <2>4, <3>2 DEF Alive
      <4>2. proc[q].of \in 1..size /\ proc[q].of # d /\ proc[q].of \in Descr /\ proc[q].born = gen /\ pid[proc[q].of] = q
        BY <4>1 DEF NoOrphans, TypeOK, Descr
      <4>3. QED
        BY <2>5, <4>1, <4>2
    <3>3. QED
      BY <3>1, <3>2
  <2>7. QED
    BY <2>3, <2>4, <2>6 DEF Alive
<1>3. QED
  BY <1>1, <1>2 DEF StartDescriptor

\* kill(target, SIGINT) changes nothing but the two signal marks.
LEMMA InterruptKeeps ==
  ASSUME proc \in [Pids -> Proc], NEW target, proc' = IF target # 0 THEN Interrupted(target) ELSE proc
  PROVE  /\ proc' \in [Pids -> Proc]
         /\ \A p \in Pids : Alive(p)' /\ ~proc'[p].asked =>
               /\ Alive(p) /\ ~proc[p].asked /\ target # p
               /\ proc'[p].of = proc[p].of /\ proc'[p].born = proc[p].born
<1>1. CASE target = 0
  BY <1>1 DEF Alive
<1>2. CASE target # 0
  <2>1. \A p \in Pids : proc'[p] \in Proc
    BY <1>2 DEF Interrupted, Proc
  <2>2. proc' \in [Pids -> Proc]
    BY <1>2, <2>1 DEF Interrupted
  <2>3. ASSUME NEW p \in Pids, Alive(p)', ~proc'[p].asked
        PROVE  /\ Alive(p) /\ ~proc[p].asked /\ target # p
               /\ proc'[p].of = proc[p].of /\ proc'[p].born = proc[p].born
    <3>1. CASE (target = p \/ target = -1) /\ proc[p].state \in {"forked", "running", "stranger"}
      BY <1>2, <2>3, <3>1 DEF Interrupted, Proc
    <3>2. CASE ~((target = p \/ target = -1) /\ proc[p].state \in {"forked", "running", "stranger"})
      BY <1>2, <2>3, <3>2 DEF Interrupted, Proc, Alive
    <3>3. QED
      BY <3>1, <3>2
  <2>4. QED
    BY <2>2, <2>3
<1>3. QED
  BY <1>1, <1>2

\* Nobody is born, moved or un-asked.
Fewer ==
    \A p \in Pids : Alive(p)' =>
        Alive(p) /\ proc'[p].of = proc[p].of /\ proc'[p].born = proc[p].born
                 /\ proc'[p].asked = proc[p].asked

LEMMA ReapFewer ==
  ASSUME proc \in [Pids -> Proc], proc' = Reaped
  PROVE  proc' \in [Pids -> Proc] /\ Fewer
  BY DEF Reaped, Proc, ProcState, Fewer, Alive

LEMMA FewerKeeps ==
  ASSUME IInv, Fewer, TypeOK', pc' \in {pc, "killed"}, UNCHANGED <<i, size, pid, gen>>
  PROVE  IInv'
  BY DEF IInv, Fewer, NoOrphans, Placed

LEMMA NextIInv == IInv /\ [Next]_vars => IInv'
<1> SUFFICES ASSUME IInv, [Next]_vars PROVE IInv'
    OBVIOUS
<1> USE DEF IInv
<1>1. CASE LoadFails
    BY <1>1 DEF LoadFails, TypeOK, NoOrphans, Placed, Alive
<1>2. CASE LoadInit
  <2>1. TypeOK'
    BY <1>2 DEF LoadInit, TypeOK, Descr
  <2>2. \A p \in Pids : Alive(p)' => proc[p].asked'
    BY <1>2 DEF LoadInit, Placed, Alive
  <2>3. QED
    BY <1>2, <2>1, <2>2 DEF LoadInit, NoOrphans, Placed
<1>3. CASE StartLoop
  <2>1. i \in Descr /\ \A p \in Pids : Alive(p) /\ ~proc[p].asked => proc[p].of # i
    BY <1>3 DEF StartLoop, TypeOK, Descr, Placed, Proc
  <2>2. /\ pid' \in [Descr -> Pids \cup {0, -1}]
        /\ start_count' \in [Descr -> Nat]
        /\ proc' \in [Pids -> Proc]
        /\ NoOrphans'
        /\ \A p \in Pids : Alive(p)' /\ ~proc'[p].asked =>
              \/ Alive(p) /\ ~proc[p].asked /\ proc'[p].of = proc[p].of
              \/ proc'[p].of = i
    BY <1>3, <2>1, StartKeeps DEF StartLoop
  <2>3. TypeOK'
    BY <1>3, <2>2 DEF StartLoop, TypeOK, Descr
  <2>4. \A p \in Pids : Alive(p)' /\ ~proc'[p].asked => proc'[p].of < i + 1
    <3> SUFFICES ASSUME NEW p \in Pids, Alive(p)', ~proc'[p].asked PROVE proc'[p].of < i + 1
      OBVIOUS
    <3>1. CASE Alive(p) /\ ~proc[p].asked /\ proc'[p].of = proc[p].of
      <4>1. proc[p].of < i /\ proc[p].of \in 1..size
        BY <1>3, <3>1 DEF StartLoop, Placed, NoOrphans
      <4>2. QED
        BY <2>1, <3>1, <4>1 DEF Descr
    <3>2. CASE proc'[p].of = i
      BY <2>1, <3>2 DEF Descr
    <3>3. QED
      BY <2>2, <3>1, <3>2
  <2>5. Placed'
    BY <1>3, <2>4 DEF StartLoop, Placed
  <2>6. QED
    BY <2>2, <2>3, <2>5
<1>4. CASE ClearRequest
    BY <1>4 DEF ClearRequest, TypeOK, NoOrphans, Placed, Alive
<1>5. CASE LoopTest
  <2>1. TypeOK' /\ NoOrphans'
    BY <1>5 DEF LoopTest, TypeOK, NoOrphans, Alive
  <2>2. \A p \in Pids : Alive(p)' /\ ~proc'[p].asked => i' <= proc'[p].of
    BY <1>5 DEF LoopTest, NoOrphans, Alive, Descr
  <2>3. QED
    BY <1>5, <2>1, <2>2 DEF LoopTest, Placed
<1>6. CASE CheckLoop
  <2>1. CASE IsRunning(i) /\ UNCHANGED <<pid, start_count, proc>>
    <3>1. TypeOK'
      BY <1>6, <2>1 DEF CheckLoop, TypeOK
    <3>2. QED
      BY <1>6, <2>1, <3>1 DEF CheckLoop, NoOrphans, Placed, Alive
  <2>2. CASE ~IsRunning(i) /\ StartDescriptor(i)
    <3>1. i \in Descr
      BY <1>6 DEF CheckLoop, TypeOK, Descr
    <3>2. \A p \in Pids : Alive(p) /\ ~proc[p].asked => proc[p].of # i
      BY <2>2 DEF NoOrphans, IsRunning, Alive, Gone
    <3>3. /\ pid' \in [Descr -> Pids \cup {0, -1}]
          /\ start_count' \in [Descr -> Nat]
          /\ proc' \in [Pids -> Proc]
          /\ NoOrphans'
      BY <1>6, <2>2, <3>1, <3>2, StartKeeps DEF CheckLoop
    <3>4. QED
      BY <1>6, <3>3 DEF CheckLoop, TypeOK, Placed, Descr
  <2>3. QED
    BY <1>6, <2>1, <2>2 DEF CheckLoop
<1>7. CASE Sleep
    BY <1>7 DEF Sleep, TypeOK, NoOrphans, Placed, Alive
<1>8. CASE StopLoop
  <2>1. i \in Descr
    BY <1>8 DEF StopLoop, TypeOK, Descr
  <2>2. /\ proc' \in [Pids -> Proc]
        /\ \A p \in Pids : Alive(p)' /\ ~proc'[p].asked =>
              /\ Alive(p) /\ ~proc[p].asked /\ pid[i] # p
              /\ proc'[p].of = proc[p].of /\ proc'[p].born = proc[p].born
    BY <1>8, <2>1, InterruptKeeps DEF StopLoop, TypeOK
  <2>3. TypeOK'
    BY <1>8, <2>2 DEF StopLoop, TypeOK
  <2>4. NoOrphans'
    BY <1>8, <2>2 DEF StopLoop, NoOrphans
  <2>5. \A p \in Pids : Alive(p)' /\ ~proc'[p].asked => i + 1 <= proc'[p].of
    <3> SUFFICES ASSUME NEW p \in Pids, Alive(p)', ~proc'[p].asked PROVE i + 1 <= proc'[p].of
      OBVIOUS
    <3>1. Alive(p) /\ ~proc[p].asked /\ pid[i] # p /\ proc'[p].of = proc[p].of
      BY <2>2
    <3>2. i <= proc[p].of /\ proc[p].of # i /\ proc[p].of \in 1..size
      BY <1>8, <3>1 DEF StopLoop, Placed, NoOrphans
    <3>3. QED
      BY <2>1, <3>1, <3>2 DEF Descr
  <2>6. Placed'
    BY <1>8, <2>5 DEF StopLoop, Placed
  <2>7. QED
    BY <2>3, <2>4, <2>6
<1>9. CASE AfterStop
    BY <1>9 DEF AfterStop, TypeOK, NoOrphans, Placed, Alive, Descr
<1>10. CASE HandleSigint
    BY <1>10 DEF HandleSigint, TypeOK, NoOrphans, Placed, Alive
<1>11. CASE HandleSigterm
  <2>1. proc' \in [Pids -> Proc] /\ Fewer
    BY <1>11, ReapFewer DEF HandleSigterm, TypeOK
  <2>2. TypeOK'
    BY <1>11, <2>1 DEF HandleSigterm, TypeOK
  <2>3. QED
    BY <1>11, <2>1, <2>2, FewerKeeps DEF HandleSigterm
<1>12. CASE HandleSighup
    BY <1>12 DEF HandleSighup, TypeOK, NoOrphans, Placed, Alive
<1>13. CASE HandleSigchld
  <2>1. proc' \in [Pids -> Proc] /\ Fewer
    BY <1>13, ReapFewer DEF HandleSigchld, TypeOK
  <2>2. TypeOK'
    BY <1>13, <2>1 DEF HandleSigchld, TypeOK
  <2>3. QED
    BY <1>13, <2>1, <2>2, FewerKeeps DEF HandleSigchld
<1>14. ASSUME NEW p \in Pids, ChildExec(p) PROVE IInv'
  <2>1. proc' \in [Pids -> Proc] /\ Fewer
    BY <1>14 DEF ChildExec, TypeOK, Fewer, Alive, Proc, ProcState
  <2>2. TypeOK'
    BY <1>14, <2>1 DEF ChildExec, TypeOK
  <2>3. QED
    BY <1>14, <2>1, <2>2, FewerKeeps DEF ChildExec
<1>15. ASSUME NEW p \in Pids, ChildExecFails(p) PROVE IInv'
  <2>1. proc' \in [Pids -> Proc] /\ Fewer
    BY <1>15 DEF ChildExecFails, TypeOK, Fewer, Alive, Proc, ProcState
  <2>2. TypeOK'
    BY <1>15, <2>1 DEF ChildExecFails, TypeOK
  <2>3. QED
    BY <1>15, <2>1, <2>2, FewerKeeps DEF ChildExecFails
<1>16. ASSUME NEW p \in Pids, ChildExits(p) PROVE IInv'
  <2>1. proc' \in [Pids -> Proc] /\ Fewer
    BY <1>16 DEF ChildExits, TypeOK, Fewer, Alive, Proc, ProcState
  <2>2. TypeOK'
    BY <1>16, <2>1 DEF ChildExits, TypeOK
  <2>3. QED
    BY <1>16, <2>1, <2>2, FewerKeeps DEF ChildExits
<1>17. ASSUME NEW p \in Pids, StrangerStarts(p) PROVE IInv'
  <2>0. /\ proc' \in [Pids -> Proc] /\ proc'[p].state = "stranger"
        /\ \A q \in Pids \ {p} : proc'[q] = proc[q]
    <3> DEFINE s == [proc[p] EXCEPT !.state = "stranger", !.asked = FALSE, !.heeds = FALSE]
    <3>1. proc \in [Pids -> Proc]
      BY DEF TypeOK
    <3>2. proc[p] \in Proc
      BY <3>1
    <3>3. s \in Proc /\ s.state = "stranger"
      BY <3>2 DEF Proc, ProcState
    <3>4. proc' = [proc EXCEPT ![p] = s]
      BY <1>17, <3>1, <3>2 DEF StrangerStarts, Proc
    <3> HIDE DEF s
    <3>5. QED
      BY <3>1, <3>3, <3>4
  <2>1. proc' \in [Pids -> Proc] /\ Fewer
    <3> SUFFICES ASSUME NEW q \in Pids, Alive(q)'
                 PROVE  Alive(q) /\ proc'[q].of = proc[q].of /\ proc'[q].born = proc[q].born
                                 /\ proc'[q].asked = proc[q].asked
      BY <2>0 DEF Fewer
    <3>1. q # p
      BY <2>0 DEF Alive
    <3>2. proc'[q] = proc[q]
      BY <2>0, <3>1
    <3>3. QED
      BY <3>2 DEF Alive
  <2>2. TypeOK'
    BY <1>17, <2>1 DEF StrangerStarts, TypeOK
  <2>3. pc' \in {pc, "killed"} /\ UNCHANGED <<i, size, pid, gen>>
    BY <1>17 DEF StrangerStarts
  <2>4. QED
    BY <2>1, <2>2, <2>3, FewerKeeps
<1>18. CASE UNCHANGED vars
    BY <1>18 DEF vars, TypeOK, NoOrphans, Placed, Alive
<1>19. QED
    BY <1>1, <1>2, <1>3, <1>4, <1>5, <1>6, <1>7, <1>8, <1>9, <1>10, <1>11, <1>12, <1>13, <1>14,
       <1>15, <1>16, <1>17, <1>18 DEF Next, Main, Handlers

\* A live child that pkt2 has not asked to stop is always the one its
\* descriptor holds.
THEOREM NeverLosesAChild == Spec => []NoOrphans
<1>1. IInv => NoOrphans
    BY DEF IInv
<1>2. QED
    BY InitIInv, NextIInv, <1>1, PTL DEF Spec

\* pkt2 never ends without having sent SIGINT to every child that is alive.
THEOREM AsksAllBeforeEnd == Spec => []AllAskedWhenDone
<1>1. IInv => AllAskedWhenDone
    BY DEF IInv, Placed, AllAskedWhenDone
<1>2. QED
    BY InitIInv, NextIInv, <1>1, PTL DEF Spec

\* Type correctness.
THEOREM TypeCorrect == Spec => []TypeOK
<1>1. IInv => TypeOK
    BY DEF IInv
<1>2. QED
    BY InitIInv, NextIInv, <1>1, PTL DEF Spec

-----------------------------------------------------------------------------
(***************************************************************************)
(* Whom kill() reaches.  The identifiers in the descriptors are those of      *)
(* children of the configuration in force, whoever has them now.            *)
(***************************************************************************)
HoldsOurs == \A d \in Descr : pid[d] \in Pids => WasOurs(pid[d])

LEMMA InitHoldsOurs == Init => HoldsOurs
<1>1. 0 \notin Pids
    OBVIOUS
<1>2. QED
    BY <1>1 DEF Init, HoldsOurs

\* A step that forks nobody and replaces no identifier keeps what is held.
LEMMA HeldKeeps ==
  ASSUME HoldsOurs, UNCHANGED <<pid, size, gen>>,
         \A p \in Pids : proc'[p].of = proc[p].of /\ proc'[p].born = proc[p].born
  PROVE  HoldsOurs'
  BY DEF HoldsOurs, WasOurs

\* A fork gives its identifier to a child of the configuration in force.
LEMMA StartHolds ==
  ASSUME TypeOK, HoldsOurs, NEW d \in Descr, d <= size, StartDescriptor(d), UNCHANGED <<size, gen>>
  PROVE  HoldsOurs'
<1>1. CASE pid' = [pid EXCEPT ![d] = -1] /\ UNCHANGED <<start_count, proc>>
  <2>1. -1 \notin Pids
    OBVIOUS
  <2>2. QED
    BY <1>1, <2>1 DEF TypeOK, HoldsOurs, WasOurs
<1>2. ASSUME NEW p \in FreePids,
             pid' = [pid EXCEPT ![d] = p],
             proc' = [proc EXCEPT ![p] =
                [state |-> "forked", of |-> d, born |-> gen, asked |-> FALSE, heeds |-> FALSE]]
      PROVE  HoldsOurs'
  <2>1. p \in Pids
    BY <1>2 DEF FreePids, Unused
  <2>2. /\ proc'[p].of = d /\ proc'[p].born = gen
        /\ \A q \in Pids \ {p} : proc'[q] = proc[q]
    BY <1>2, <2>1 DEF TypeOK
  <2>3. pid'[d] = p /\ \A e \in Descr \ {d} : pid'[e] = pid[e]
    BY <1>2 DEF TypeOK
  <2>4. WasOurs(p)'
    BY <2>2 DEF WasOurs, Descr, TypeOK
  <2>5. QED
    BY <2>2, <2>3, <2>4 DEF HoldsOurs, WasOurs
<1>3. QED
  BY <1>1, <1>2 DEF StartDescriptor

LEMMA NextHoldsOurs ==
  ASSUME IInv, HoldsOurs, [Next]_vars
  PROVE  HoldsOurs'
<1>0. TypeOK /\ proc \in [Pids -> Proc]
    BY DEF IInv, TypeOK
<1>1. CASE StartLoop \/ CheckLoop
  <2>1. i \in Descr /\ i <= size /\ UNCHANGED <<size, gen>>
    BY <1>0, <1>1 DEF StartLoop, CheckLoop, TypeOK, Descr
  <2>2. CASE StartDescriptor(i)
    BY <1>0, <2>1, <2>2, StartHolds
  <2>3. CASE UNCHANGED <<pid, proc>>
    BY <2>1, <2>3, HeldKeeps
  <2>4. QED
    BY <1>1, <2>2, <2>3 DEF StartLoop, CheckLoop
<1>2. CASE StopLoop
  <2>1. UNCHANGED <<pid, size, gen>> /\ proc' = IF pid[i] # 0 THEN Interrupted(pid[i]) ELSE proc
    BY <1>2 DEF StopLoop
  <2>2. \A p \in Pids : proc'[p].of = proc[p].of /\ proc'[p].born = proc[p].born
    BY <1>0, <2>1 DEF Interrupted, Proc
  <2>3. QED
    BY <2>1, <2>2, HeldKeeps
<1>3. CASE LoadInit
  <2>1. 0 \notin Pids
    OBVIOUS
  <2>2. QED
    BY <1>3, <2>1 DEF LoadInit, HoldsOurs
<1>4. CASE LoadFails \/ ClearRequest \/ LoopTest \/ Sleep \/ AfterStop \/ HandleSigint \/ HandleSighup
    BY <1>4, HeldKeeps DEF LoadFails, ClearRequest, LoopTest, Sleep, AfterStop, HandleSigint, HandleSighup
<1>5. CASE HandleSigterm \/ HandleSigchld
  <2>1. UNCHANGED <<pid, size, gen>> /\ proc' = Reaped
    BY <1>5 DEF HandleSigterm, HandleSigchld
  <2>2. \A p \in Pids : proc'[p].of = proc[p].of /\ proc'[p].born = proc[p].born
    BY <1>0, <2>1 DEF Reaped, Proc
  <2>3. QED
    BY <2>1, <2>2, HeldKeeps
<1>6. ASSUME NEW p \in Pids, ChildExec(p) \/ ChildExits(p) \/ ChildExecFails(p) \/ StrangerStarts(p)
      PROVE  HoldsOurs'
  <2>1. UNCHANGED <<pid, size, gen>>
    BY <1>6 DEF ChildExec, ChildExits, ChildExecFails, StrangerStarts
  <2>2. \A q \in Pids : proc'[q].of = proc[q].of /\ proc'[q].born = proc[q].born
    BY <1>0, <1>6 DEF ChildExec, ChildExits, ChildExecFails, StrangerStarts, Proc
  <2>3. QED
    BY <2>1, <2>2, HeldKeeps
<1>7. CASE UNCHANGED vars
    BY <1>7, HeldKeeps DEF vars
<1>8. QED
    BY <1>1, <1>2, <1>3, <1>4, <1>5, <1>6, <1>7 DEF Next, Main, Handlers

\* Only stop() asks anybody, and those it asks are the ones its descriptors name.
LEMMA StepSpares ==
  ASSUME IInv, HoldsOurs, [Next]_vars, NEW p \in Pids
  PROVE  Spared(p)
<1>0. TypeOK /\ proc \in [Pids -> Proc]
    BY DEF IInv, TypeOK
<1> SUFFICES ASSUME proc[p].state = "stranger", ~proc[p].asked, proc'[p].asked
             PROVE  ForkNotMadeGood \/ WasOurs(p)
    BY DEF Spared
<1>1. CASE StopLoop
  <2>1. i \in Descr /\ i \in 1..size /\ proc' = IF pid[i] # 0 THEN Interrupted(pid[i]) ELSE proc
    BY <1>0, <1>1 DEF StopLoop, TypeOK, Descr
  <2>2. pid[i] = p \/ pid[i] = -1
    BY <1>0, <2>1 DEF Interrupted
  <2>3. CASE pid[i] = p
    BY <2>1, <2>3 DEF HoldsOurs
  <2>4. CASE pid[i] = -1
    BY <2>1, <2>4 DEF ForkNotMadeGood
  <2>5. QED
    BY <2>2, <2>3, <2>4
<1>2. CASE StartLoop \/ CheckLoop
  <2>1. CASE StartDescriptor(i)
    <3>1. PICK q \in FreePids : proc' = [proc EXCEPT ![q] =
                [state |-> "forked", of |-> i, born |-> gen, asked |-> FALSE, heeds |-> FALSE]]
      BY <2>1 DEF StartDescriptor
    <3>2. QED
      BY <1>0, <3>1
  <2>2. CASE UNCHANGED <<pid, proc>>
    BY <2>2
  <2>3. QED
    BY <1>2, <2>1, <2>2 DEF StartLoop, CheckLoop
<1>3. CASE UNCHANGED proc
    BY <1>3
<1>4. CASE LoadFails \/ LoadInit \/ ClearRequest \/ LoopTest \/ Sleep \/ AfterStop \/ HandleSigint \/ HandleSighup
    BY <1>4 DEF LoadFails, LoadInit, ClearRequest, LoopTest, Sleep, AfterStop, HandleSigint, HandleSighup
<1>5. CASE HandleSigterm \/ HandleSigchld
  <2>1. proc' = Reaped
    BY <1>5 DEF HandleSigterm, HandleSigchld
  <2>2. QED
    BY <1>0, <2>1 DEF Reaped, Proc
<1>6. ASSUME NEW q \in Pids, ChildExec(q) \/ ChildExits(q) \/ ChildExecFails(q) \/ StrangerStarts(q)
      PROVE  FALSE
    BY <1>0, <1>6 DEF ChildExec, ChildExits, ChildExecFails, StrangerStarts, Alive, Proc
<1>7. CASE UNCHANGED vars
    BY <1>7 DEF vars
<1>8. QED
    BY <1>1, <1>2, <1>4, <1>5, <1>6, <1>7 DEF Next, Main, Handlers

(***************************************************************************)
(* Whatever forks fail, whatever identifiers are given again, and over any    *)
(* crashes, restarts and reloads: stop() interrupts a process that is not a   *)
(* child of pkt2 only when a failed fork has not been made good, or the       *)
(* identifier was that of a child of the configuration in force.             *)
(***************************************************************************)
THEOREM SparesStrangers == Spec => StrangersSpared
<1>1. Init => IInv /\ HoldsOurs
    BY InitIInv, InitHoldsOurs
<1>2. IInv /\ HoldsOurs /\ [Next]_vars => IInv' /\ HoldsOurs'
    BY NextIInv, NextHoldsOurs
<1>3. IInv /\ HoldsOurs /\ [Next]_vars => [\A p \in Pids : Spared(p)]_vars
    BY StepSpares
<1>4. QED
    BY <1>1, <1>2, <1>3, PTL DEF Spec, StrangersSpared

=============================================================================
