----------------------------- MODULE MCSupervisor -----------------------------
(* Instances of Supervisor for TLC.                                         *)
EXTENDS Supervisor

\* Two entries.  Every reload needs two identifiers and every crash one more.
MCPids == 1..6
=============================================================================
