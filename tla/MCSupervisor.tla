----------------------------- MODULE MCSupervisor -----------------------------
(* Supervisor for TLC: its configurations give the policies and intervals.  *)
EXTENDS Supervisor

=============================================================================
