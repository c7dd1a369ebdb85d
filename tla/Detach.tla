------------------------------- MODULE Detach -------------------------------
(***************************************************************************)
(* larri up -d and larri resume -d: a launcher starts the process that is   *)
(* to hold the rig, waits at a pipe for its one report, and passes a Ctrl-C *)
(* on.  The child takes the rig as Holder says, beside other processes that *)
(* want it; of the machines a bring-up may try it rents one.               *)
(***************************************************************************)
EXTENDS Holder

CONSTANTS
  Child,
  Commands  \* which of "up" and "resume" is run

ASSUME DetachAssumption == Child \in Procs /\ Commands \subseteq {"up", "resume"}

VARIABLES
  command,
  stage,    \* where the child is
  rig,      \* "none", "billing", "ended", or "kept": its teardown failed
  report,   \* the pipe: "none" yet, "ok", "error", or "closed" without either
  launcher, \* where the launcher is
  signal,   \* a SIGTERM was sent to the child
  killed    \* observer: the child was killed

child == <<command, stage, rig, report, signal>>
dvars == <<vars, child, launcher, killed>>

DetachTypeOK ==
  /\ TypeOK
  /\ command \in Commands
  /\ stage \in {"none", "taking", "working", "cleaning", "serving", "ending", "failing", "exiting", "gone"}
  /\ rig \in {"none", "billing", "ended", "kept"}
  /\ report \in {"none", "ok", "error", "closed"}
  /\ launcher \in {"idle", "waiting", "failed", "ready", "gone"}
  /\ signal \in BOOLEAN /\ killed \in BOOLEAN

DetachInit ==
  /\ Init /\ command \in Commands /\ stage = "none" /\ report = "none"
  /\ rig = (IF command = "up" THEN "none" ELSE "billing")
  /\ launcher = "idle" /\ signal = FALSE /\ killed = FALSE

-----------------------------------------------------------------------------
(* The launcher                                                            *)

\* spawnDetached.
Spawns ==
  /\ launcher = "idle" /\ Opens(Child)
  /\ launcher' = "waiting" /\ stage' = "taking"
  /\ UNCHANGED <<command, rig, report, signal, killed>>

\* A Ctrl-C is passed on once, and the report waited for as before.
Interrupts ==
  /\ launcher = "waiting" /\ ~signal
  /\ signal' = TRUE
  /\ UNCHANGED <<vars, command, stage, rig, report, launcher, killed>>

\* A failure is told here with --json; without it finishDetached first lets the
\* child end, for three minutes.
ReadsReport ==
  /\ launcher = "waiting" /\ report # "none"
  /\ launcher' = IF report = "ok" THEN "ready" ELSE "failed"
  /\ UNCHANGED <<vars, child, killed>>

\* The terminal is closed; the child ignores the hang-up.
HangsUp ==
  /\ launcher = "waiting" /\ launcher' = "gone"
  /\ UNCHANGED <<vars, child, killed>>

-----------------------------------------------------------------------------
(* The child                                                               *)

\* Its hold: taken, or refused and told by whom.
Takes ==
  /\ stage = "taking"
  /\ Locks(Child) \/ Blocked(Child) \/ HolderOf(Child) \/ Publishes(Child) \/ PublishFails(Child)
  /\ stage' = CASE proc'[Child] = "holding" -> "working"
                [] proc'[Child] = "idle" /\ ask'[Child].pc \in {"none", "answered"} -> "failing"
                [] OTHER -> "taking"
  /\ UNCHANGED <<command, rig, report, launcher, signal, killed>>

\* A create, also one under way when the signal comes.
Rents ==
  /\ stage = "working" /\ rig = "none" /\ rig' = "billing"
  /\ UNCHANGED <<vars, command, stage, report, launcher, signal, killed>>

\* Mutant of Fails: the error is on its way before the teardown.
FailsAndTells ==
  /\ stage = "working" /\ stage' = "failing"
  /\ UNCHANGED <<vars, command, rig, report, launcher, signal, killed>>

\* The bring-up, or the reconnection, fails, or notices that it is to stop:
\* what was rented is torn down, what was adopted is left.
Fails ==
  /\ stage = "working" /\ stage' = "cleaning"
  /\ UNCHANGED <<vars, command, rig, report, launcher, signal, killed>>

Cleans ==
  /\ stage = "cleaning" /\ stage' = "failing" /\ Releases(Child)
  /\ IF command = "up" /\ rig = "billing" THEN rig' \in {"ended", "kept"} ELSE UNCHANGED rig
  /\ UNCHANGED <<command, report, launcher, signal, killed>>

\* readyKey.
ReportsReady ==
  /\ stage = "working" /\ rig = "billing"
  /\ stage' = "serving" /\ report' = "ok"
  /\ UNCHANGED <<vars, command, rig, launcher, signal, killed>>

\* The supervisor returns: the rig is to be ended, or there was a signal.
SuperviseEnds ==
  /\ stage = "serving" /\ stage' = "ending"
  /\ UNCHANGED <<vars, command, rig, report, launcher, signal, killed>>

\* EndServing, Down, and the deferred release.
Ends ==
  /\ stage = "ending" /\ rig = "billing" /\ rig' \in {"ended", "kept"}
  /\ UNCHANGED <<vars, command, stage, report, launcher, signal, killed>>

LetsGo ==
  /\ stage = "ending" /\ rig # "billing" /\ Releases(Child)
  /\ stage' = "exiting"
  /\ UNCHANGED <<command, rig, report, launcher, signal, killed>>

\* main, with the error of a command that failed before its report.
ReportsError ==
  /\ stage = "failing" /\ stage' = "exiting" /\ report' = "error"
  /\ UNCHANGED <<vars, command, rig, launcher, signal, killed>>

Exits ==
  /\ stage = "exiting" /\ stage' = "gone" /\ Dies(Child)
  /\ UNCHANGED <<command, rig, report, launcher, signal, killed>>

Killed ==
  /\ stage \notin {"none", "gone"} /\ Dies(Child)
  /\ stage' = "gone" /\ report' = (IF report = "none" THEN "closed" ELSE report)
  /\ killed' = TRUE
  /\ UNCHANGED <<command, rig, launcher, signal>>

-----------------------------------------------------------------------------

\* What the child does of itself, the supervision apart.
Works == Takes \/ Rents \/ Fails \/ Cleans \/ ReportsReady \/ Ends \/ LetsGo \/ ReportsError \/ Exits

Launcher == Spawns \/ Interrupts \/ ReadsReport \/ HangsUp

Others ==
  /\ \/ \E p \in Procs \ {Child} : Hold(p)
     \/ \E c \in Callers \ {Child} : HolderOf(c)
     \/ DirSynced
  /\ UNCHANGED <<child, launcher, killed>>

Reboot ==
  /\ PowerFails
  /\ launcher' = (IF launcher = "waiting" THEN "gone" ELSE launcher)
  /\ stage' = (IF stage = "none" THEN "none" ELSE "gone") /\ killed' = TRUE
  /\ UNCHANGED <<command, rig, report, signal>>

DetachNext == Launcher \/ Works \/ SuperviseEnds \/ Killed \/ Others \/ Reboot

DetachSpec == DetachInit /\ [][DetachNext]_dvars

-----------------------------------------------------------------------------
(* Properties                                                              *)

\* From its report to the end of its rig the child holds it, by name: what the
\* launcher said when it returned is what status and resume find.
ReadyIsHeld ==
  stage \in {"working", "cleaning", "serving", "ending"} => lock = Child /\ record.pid = Child

\* A failure the launcher has read, which with --json it tells at once, is
\* settled, "so larri status right after reads the outcome" (finishDetached):
\* the rig is free, and what a bring-up rented is ended or was tried to be.
FailureIsSettled ==
  launcher = "failed" =>
    lock # Child /\ (command = "up" /\ ~killed => rig # "billing")

\* "A detached holder stopped by a signal ends its rig, whichever command
\* started it" (cmdResume): unless it is killed, or the teardown fails.
SignalEndsRig ==
  signal /\ stage = "gone" /\ ~killed => rig # "billing"

\* It does so for up.
SignalEndsRented == command = "up" => SignalEndsRig

=============================================================================
