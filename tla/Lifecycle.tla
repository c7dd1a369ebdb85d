------------------------------ MODULE Lifecycle ------------------------------
(***************************************************************************)
(* The rig lifecycle vocabulary of internal/core/state.go: the thirteen    *)
(* states a rig can be recorded in, and the three questions the rest of    *)
(* the program asks about one.                                             *)
(***************************************************************************)

LifecycleState ==
  {"IDLE", "SEARCHING", "SELECTED", "CREATING", "PROVISIONED",
   "BOOTSTRAPPING", "READY", "DEGRADED", "STOPPED", "DRAINING",
   "DESTROYED", "FAILED", "ORPHANED"}

\* The cost rule: assume yes until the provider proves otherwise.
Billable(s) == s \notin {"IDLE", "SEARCHING", "SELECTED", "DESTROYED"}

\* A live resource at the provider is the normal situation for this state.
ExpectsInstance(s) ==
  s \in {"CREATING", "PROVISIONED", "BOOTSTRAPPING", "READY", "DEGRADED",
         "DRAINING", "STOPPED"}

=============================================================================
