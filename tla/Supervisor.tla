------------------------------ MODULE Supervisor ------------------------------
(***************************************************************************)
(* The loader pkt2 (pkt2.cpp, pkt2-impl.cpp).  It starts one child process  *)
(* per entry of its configuration, looks once a second at /proc to find     *)
(* the children that have gone and starts them again, and on SIGINT, SIGTERM *)
(* or SIGHUP sends SIGINT to all of them.                                   *)
(*                                                                          *)
(* The supervisor has one thread; its signal handlers interrupt it between  *)
(* any two of the steps below.  The kernel (fork, exec, kill, waitpid,       *)
(* /proc) is modelled from how the code uses it.                            *)
(***************************************************************************)
EXTENDS Integers, FiniteSets

CONSTANTS
    N,           \* bound: the largest number of entries of a configuration
    Pids,        \* process identifiers the kernel can hand out
    Strangers,   \* identifiers of processes that are not children of pkt2
    Missing,     \* entries whose executable cannot be executed
    ForkMayFail, \* fork() may return -1
    Recycle,     \* the kernel may hand out the identifier of a reaped process
    MaxGen,      \* bound: how many times the configuration is (re)loaded
    MaxSignals,  \* bound: how many SIGINT, SIGTERM and SIGHUP are delivered
    MaxCrashes   \* bound: how many children end without being asked to

ASSUME NAssumption == N \in Nat
ASSUME PidsAssumption == Pids \subseteq Nat \ {0}
ASSUME StrangersAssumption == Strangers \subseteq Pids
ASSUME MissingAssumption == Missing \subseteq 1..N
ASSUME FlagsAssumption == ForkMayFail \in BOOLEAN /\ Recycle \in BOOLEAN
ASSUME BoundsAssumption == MaxGen \in Nat /\ MaxSignals \in Nat /\ MaxCrashes \in Nat

VARIABLES
    pc,           \* where the only thread of pkt2 is
    i,            \* index of the loops of start(), check() and stop()
    stop_request, \* config->stop_request: 0, 1 (stop) or 2 (reload)
    size,         \* descriptors.size(): entries of the configuration in force
    pid,          \* descriptors[d].pid: 0 before start(), -1 after a failed fork
    start_count,  \* descriptors[d].start_count
    gen,          \* how many times START has been passed
    proc,         \* kernel: what became of every process identifier
    delivered,    \* how many signals pkt2 got so far
    lastSignal,   \* what the last of them asked for: 1 stop, 2 reload
    crashes       \* how many children ended by themselves so far

vars == <<pc, i, stop_request, size, pid, start_count, gen, proc, delivered, lastSignal, crashes>>

Descr == 1..N

(***************************************************************************)
(* The kernel's process table.  of is the entry the last child with this     *)
(* identifier ran for, 0 if there was none; born the generation forking it; *)
(* asked tells whether pkt2 has sent it SIGINT, heeds whether that signal    *)
(* met the child's own handler.  A SIGINT that arrives between fork and      *)
(* exec runs the handler inherited from pkt2, which sets a flag in the       *)
(* child's copy of config and is forgotten at exec.                         *)
(***************************************************************************)
ProcState == {"unused", "forked", "running", "zombie", "reaped", "stranger"}
Proc == [state : ProcState, of : 0..N, born : 0..MaxGen, asked : BOOLEAN, heeds : BOOLEAN]
NoProc == [state |-> "unused", of |-> 0, born |-> 0, asked |-> FALSE, heeds |-> FALSE]
Stranger == [state |-> "stranger", of |-> 0, born |-> 0, asked |-> FALSE, heeds |-> FALSE]

Alive(p) == proc[p].state \in {"forked", "running"}

Gone(p) == proc[p].state \in {"unused", "zombie", "reaped"}

\* Identifiers fork() may return.  The kernel hands them out in increasing
\* order; once its counter has wrapped it may return one that was reaped.
Unused == {p \in Pids : proc[p].state = "unused"}
FreePids ==
    {p \in Unused : \A q \in Unused : p <= q}
        \cup {p \in Pids : Recycle /\ proc[p].state = "reaped"}

-----------------------------------------------------------------------------

Init ==
    /\ pc = "load"
    /\ i = 1
    /\ stop_request = 0
    /\ size = 0
    /\ pid = [d \in Descr |-> 0]
    /\ start_count = [d \in Descr |-> 0]
    /\ gen = 0
    /\ proc = [p \in Pids |-> IF p \in Strangers THEN Stranger ELSE NoProc]
    /\ delivered = 0
    /\ lastSignal = 0
    /\ crashes = 0

\* load() fails: pkt2() returns ERRCODE_CONFIG and run() leaves its loop.
LoadFails ==
    /\ pc = "load"
    /\ pc' = "done"
    /\ UNCHANGED <<i, stop_request, size, pid, start_count, gen, proc, delivered, lastSignal, crashes>>

\* load() succeeds; init() replaces the descriptors by new ones, with no pid, as
\* many as the configuration now has.
LoadInit ==
    /\ pc = "load"
    /\ gen < MaxGen
    /\ gen' = gen + 1
    /\ size' \in 0..N
    /\ pid' = [d \in Descr |-> 0]
    /\ start_count' = [d \in Descr |-> 0]
    /\ i' = 1
    /\ pc' = "start"
    /\ UNCHANGED <<stop_request, proc, delivered, lastSignal, crashes>>

\* ProcessDescriptor::start(): start_program() stores what fork() returned in
\* pid, -1 included; only a successful fork is counted.
StartDescriptor(d) ==
    \/ /\ ForkMayFail
       /\ pid' = [pid EXCEPT ![d] = -1]
       /\ UNCHANGED <<start_count, proc>>
    \/ \E p \in FreePids :
          /\ pid' = [pid EXCEPT ![d] = p]
          /\ start_count' = [start_count EXCEPT ![d] = @ + 1]
          /\ proc' = [proc EXCEPT ![p] =
                [state |-> "forked", of |-> d, born |-> gen, asked |-> FALSE, heeds |-> FALSE]]

\* One round of the loop of ProcessDescriptors::start().
StartLoop ==
    /\ pc = "start"
    /\ i <= size
    /\ StartDescriptor(i)
    /\ i' = i + 1
    /\ UNCHANGED <<pc, stop_request, size, gen, delivered, lastSignal, crashes>>

\* The loop of start() is over: pkt2() clears stop_request before it watches.
ClearRequest ==
    /\ pc = "start"
    /\ i > size
    /\ stop_request' = 0
    /\ pc' = "loop"
    /\ UNCHANGED <<i, size, pid, start_count, gen, proc, delivered, lastSignal, crashes>>

\* Wrong on purpose: the index of the loop of check() is not reset.
LoopTest_KeepsIndex ==
    /\ pc = "loop"
    /\ pc' = IF stop_request = 0 THEN "check" ELSE "stop"
    /\ i' = IF stop_request = 0 THEN i ELSE 1
    /\ UNCHANGED <<stop_request, size, pid, start_count, gen, proc, delivered, lastSignal, crashes>>

\* Wrong on purpose: only a reload ends the loop.
LoopTest_ReloadOnly ==
    /\ pc = "loop"
    /\ pc' = IF stop_request # 2 THEN "check" ELSE "stop"
    /\ i' = 1
    /\ UNCHANGED <<stop_request, size, pid, start_count, gen, proc, delivered, lastSignal, crashes>>

\* while (!config->stop_request)
LoopTest ==
    /\ pc = "loop"
    /\ pc' = IF stop_request = 0 THEN "check" ELSE "stop"
    /\ i' = 1
    /\ UNCHANGED <<stop_request, size, pid, start_count, gen, proc, delivered, lastSignal, crashes>>

\* Wrong on purpose: a child that has not reached exec yet does not count.
IsRunning_AfterExec(d) == pid[d] \in Pids /\ ~Gone(pid[d]) /\ proc[pid[d]].state # "forked"

\* is_running(): /proc/<pid> exists and its cmdline is not empty.  The cmdline
\* of a zombie is empty, that of any process that has the identifier is not.
IsRunning(d) == pid[d] \in Pids /\ ~Gone(pid[d])

\* One round of the loop of check().
CheckLoop ==
    /\ pc = "check"
    /\ i <= size
    /\ \/ /\ IsRunning(i)
          /\ UNCHANGED <<pid, start_count, proc>>
       \/ /\ ~IsRunning(i)
          /\ StartDescriptor(i)
    /\ i' = i + 1
    /\ UNCHANGED <<pc, stop_request, size, gen, delivered, lastSignal, crashes>>

\* check() is over; SLEEP(1).
Sleep ==
    /\ pc = "check"
    /\ i > size
    /\ pc' = "loop"
    /\ UNCHANGED <<i, stop_request, size, pid, start_count, gen, proc, delivered, lastSignal, crashes>>

\* kill(target, SIGINT): -1 stands for every process but the caller.
Interrupted(target) ==
    [p \in Pids |->
        IF (target = p \/ target = -1) /\ proc[p].state \in {"forked", "running", "stranger"}
        THEN [proc[p] EXCEPT !.asked = TRUE, !.heeds = @ \/ proc[p].state # "forked"]
        ELSE proc[p]]

\* Wrong on purpose: kill(-1, SIGINT) for every entry.
StopLoop_Everybody ==
    /\ pc = "stop"
    /\ i <= size
    /\ proc' = IF pid[i] # 0 THEN Interrupted(-1) ELSE proc
    /\ i' = i + 1
    /\ UNCHANGED <<pc, stop_request, size, pid, start_count, gen, delivered, lastSignal, crashes>>

\* One round of the loop of stop(): stop_process() unless the pid is 0.
StopLoop ==
    /\ pc = "stop"
    /\ i <= size
    /\ proc' = IF pid[i] # 0 THEN Interrupted(pid[i]) ELSE proc
    /\ i' = i + 1
    /\ UNCHANGED <<pc, stop_request, size, pid, start_count, gen, delivered, lastSignal, crashes>>

\* Wrong on purpose: the last entry is not stopped.
AfterStop_OneTooFew ==
    /\ pc = "stop"
    /\ i >= size
    /\ pc' = IF stop_request = 2 THEN "load" ELSE "done"
    /\ UNCHANGED <<i, stop_request, size, pid, start_count, gen, proc, delivered, lastSignal, crashes>>

\* stop() is over: a reload goes back to START, anything else returns, and
\* run() ends because stop_request is not zero.
AfterStop ==
    /\ pc = "stop"
    /\ i > size
    /\ pc' = IF stop_request = 2 THEN "load" ELSE "done"
    /\ UNCHANGED <<i, stop_request, size, pid, start_count, gen, proc, delivered, lastSignal, crashes>>

-----------------------------------------------------------------------------
(* Signal handlers of pkt2.  They may run between any two steps above.      *)

Reaped == [p \in Pids |->
    IF proc[p].state = "zombie" THEN [proc[p] EXCEPT !.state = "reaped"] ELSE proc[p]]

\* SIGINT: stopNWait() -> stop().
HandleSigint ==
    /\ pc \notin {"done", "killed"}
    /\ delivered < MaxSignals
    /\ delivered' = delivered + 1
    /\ stop_request' = 1
    /\ lastSignal' = 1
    /\ UNCHANGED <<pc, i, size, pid, start_count, gen, proc, crashes>>

\* SIGTERM: the same, then it collects the children that have exited.
HandleSigterm ==
    /\ pc \notin {"done", "killed"}
    /\ delivered < MaxSignals
    /\ delivered' = delivered + 1
    /\ stop_request' = 1
    /\ lastSignal' = 1
    /\ proc' = Reaped
    /\ UNCHANGED <<pc, i, size, pid, start_count, gen, crashes>>

\* SIGHUP: reload().
HandleSighup ==
    /\ pc \notin {"done", "killed"}
    /\ delivered < MaxSignals
    /\ delivered' = delivered + 1
    /\ stop_request' = 2
    /\ lastSignal' = 2
    /\ UNCHANGED <<pc, i, size, pid, start_count, gen, proc, crashes>>

\* SIGCHLD: waitpid() until no exited child is left.
HandleSigchld ==
    /\ pc \notin {"done", "killed"}
    /\ \E p \in Pids : proc[p].state = "zombie"
    /\ proc' = Reaped
    /\ UNCHANGED <<pc, i, stop_request, size, pid, start_count, gen, delivered, lastSignal, crashes>>

-----------------------------------------------------------------------------
(* The children, and the other processes of the machine.                    *)

\* execv() replaces the image of the child.
ChildExec(p) ==
    /\ proc[p].state = "forked"
    /\ proc[p].of \notin Missing
    /\ proc' = [proc EXCEPT ![p].state = "running"]
    /\ UNCHANGED <<pc, i, stop_request, size, pid, start_count, gen, delivered, lastSignal, crashes>>

\* execv() fails.  The child calls kill(*retval, SIGKILL), and in the child
\* *retval is what fork() returned there: 0, its whole process group, to which
\* pkt2 and all its children belong.
ChildExecFails(p) ==
    /\ proc[p].state = "forked"
    /\ proc[p].of \in Missing
    /\ proc' = [q \in Pids |-> IF Alive(q) THEN [proc[q] EXCEPT !.state = "reaped"] ELSE proc[q]]
    /\ pc' = IF pc = "done" THEN pc ELSE "killed"
    /\ UNCHANGED <<i, stop_request, size, pid, start_count, gen, delivered, lastSignal, crashes>>

\* A child ends, because it was asked to or by itself.
ChildExits(p) ==
    /\ proc[p].state = "running"
    /\ \/ proc[p].heeds /\ UNCHANGED crashes
       \/ ~proc[p].heeds /\ crashes < MaxCrashes /\ crashes' = crashes + 1
    /\ proc' = [proc EXCEPT ![p].state = "zombie"]
    /\ UNCHANGED <<pc, i, stop_request, size, pid, start_count, gen, delivered, lastSignal>>

\* Another process of the machine gets the identifier of a reaped child; of
\* and born still tell whose it was.
StrangerStarts(p) ==
    /\ Recycle
    /\ proc[p].state = "reaped"
    /\ proc' = [proc EXCEPT ![p].state = "stranger", ![p].asked = FALSE, ![p].heeds = FALSE]
    /\ UNCHANGED <<pc, i, stop_request, size, pid, start_count, gen, delivered, lastSignal, crashes>>

-----------------------------------------------------------------------------

Main == LoadFails \/ LoadInit \/ StartLoop \/ ClearRequest \/ LoopTest
            \/ CheckLoop \/ Sleep \/ StopLoop \/ AfterStop

Handlers == HandleSigint \/ HandleSigterm \/ HandleSighup \/ HandleSigchld

Next ==
    \/ Main
    \/ Handlers
    \/ \E p \in Pids : ChildExec(p) \/ ChildExecFails(p) \/ ChildExits(p) \/ StrangerStarts(p)

Spec == Init /\ [][Next]_vars

\* pkt2 is always scheduled again; a child that was forked reaches exec, and
\* one whose own handler got SIGINT ends.
FairSpec ==
    /\ Spec
    /\ WF_vars(Main)
    /\ \A p \in Pids : /\ WF_vars(ChildExec(p) \/ ChildExecFails(p))
                      /\ WF_vars(proc[p].heeds /\ ChildExits(p))

-----------------------------------------------------------------------------

TypeOK ==
    /\ pc \in {"load", "start", "loop", "check", "stop", "done", "killed"}
    /\ i \in 1..(N + 1)
    /\ stop_request \in 0..2
    /\ size \in 0..N
    /\ pid \in [Descr -> Pids \cup {0, -1}]
    /\ start_count \in [Descr -> Nat]
    /\ gen \in 0..MaxGen
    /\ proc \in [Pids -> Proc]
    /\ delivered \in 0..MaxSignals
    /\ lastSignal \in 0..2
    /\ crashes \in 0..MaxCrashes

(***************************************************************************)
(* No child is ever lost: a live child that pkt2 has not asked to stop       *)
(* belongs to the configuration in force and is the process its descriptor  *)
(* holds.  Restarting an entry in check() must therefore never overwrite    *)
(* the identifier of a live child, whatever exits, failed forks, reaping    *)
(* and recycling of identifiers came before.  (pkt2-impl.cpp 1521-1534)     *)
(***************************************************************************)
NoOrphans ==
    \A p \in Pids : Alive(p) /\ ~proc[p].asked =>
        /\ proc[p].of \in 1..size
        /\ proc[p].born = gen
        /\ pid[proc[p].of] = p

(***************************************************************************)
(* When pkt2 has ended, every child that is still alive was sent SIGINT: no   *)
(* way out of pkt2(), not even a reload whose load() fails, skips stop().    *)
(* (pkt2-impl.cpp 1551-1573)                                                *)
(***************************************************************************)
AllAskedWhenDone ==
    pc = "done" => \A p \in Pids : Alive(p) => proc[p].asked

(***************************************************************************)
(* Two things only bring the SIGINT of stop() to a process that is not a      *)
(* child of pkt2: an entry whose last fork failed and was not made good by    *)
(* check(), whose -1 is then the target of kill(), and the identifier of a    *)
(* child of the configuration in force, given to another process after that  *)
(* child was reaped.  What was forked before a reload, or has nothing to do   *)
(* with pkt2, is spared.  (pkt2-impl.cpp 80, 94-97, 1536-1543)               *)
(***************************************************************************)
ForkNotMadeGood == \E d \in 1..size : pid[d] = -1

WasOurs(p) == proc[p].of \in 1..size /\ proc[p].born = gen

Spared(p) ==
    proc[p].state = "stranger" /\ ~proc[p].asked /\ proc'[p].asked => ForkNotMadeGood \/ WasOurs(p)

StrangersSpared == [][\A p \in Pids : Spared(p)]_vars

(***************************************************************************)
(* A child that has gone while pkt2 watches is started again, unless pkt2 is *)
(* asked to stop or to reload.  (check(), README 956-958)                   *)
(***************************************************************************)
GoneIsRestarted ==
    \A d \in Descr :
        (pc \in {"loop", "check"} /\ stop_request = 0 /\ d <= size /\ ~IsRunning(d))
            ~> (IsRunning(d) \/ stop_request # 0)

(***************************************************************************)
(* A stop request that finds pkt2 watching or stopping its children, and is  *)
(* not followed by another signal, ends pkt2: check(), with its restarts,    *)
(* cannot put it off for ever.                                              *)
(***************************************************************************)
StopEndsWatch ==
    (pc \in {"loop", "check", "stop"} /\ stop_request = 1)
        ~> (pc \in {"done", "killed"} \/ lastSignal = 2)

=============================================================================
