------------------------------- MODULE Watchdog -------------------------------
(***************************************************************************)
(* The dead-man switch: the watchdog script on a rented host, the          *)
(* heartbeat file it reads, and the larri process that arms it, beats, dies *)
(* and comes back.  A tick is one pass of the script (INTERVAL); what the  *)
(* script takes for evidence of work is told from the work itself.         *)
(***************************************************************************)
EXTENDS Naturals

CONSTANTS
  Deadline,   \* LARRI_DEADLINE
  MaxGrace,   \* LARRI_MAX_GRACE
  BeatEvery,  \* deadman.BeatInterval
  Slots,      \* how many watchdogs a host can be seen to run
  Faults      \* what of Arm may fail: its "kill", its "arm" command

ASSUME WatchdogAssumption ==
  /\ Deadline \in Nat /\ MaxGrace \in Nat \ {0} /\ BeatEvery \in Nat \ {0}
  /\ 1 < Deadline /\ BeatEvery < Deadline    \* MinDeadline: many intervals wide
  /\ Faults \subseteq {"kill", "arm"}

VARIABLES
  larri,    \* the process: "kill" and "arm" are its two commands, then "here"
  beating,  \* its beat loop runs
  due,      \* ticks until it beats again
  sending,  \* a beat is on its way
  link,     \* commands reach the host
  age,      \* ticks since the heartbeat file was touched
  wd,       \* the watchdogs
  log,      \* the runtime's log exists
  busy,     \* the GPU computes, or a connection to the runtime is open
  stopped,  \* why a watchdog stopped the runtime
  steady, since, idle  \* observers: ticks for which larri has been beating over
                       \* an unbroken link, since it last armed the host, since
                       \* the host last worked

local == <<larri, beating, due, sending>>
host == <<wd, log, busy, stopped>>
vars == <<larri, beating, due, sending, link, age, wd, log, busy, stopped, steady, since, idle>>

\* Past this no clock tells the code or a property anything.
Cap == Deadline + MaxGrace + 2

\* grace counts passes; primed, grown and moved are what PREV_LOG and PREV_NET
\* come to: the log existed when they were set, it is longer than then, and the
\* network carried more than five megabytes since.
Dog == [pc : {"off", "sleep", "decide"}, slept : BOOLEAN, grace : 0..MaxGrace,
        primed : BOOLEAN, grown : BOOLEAN, moved : BOOLEAN]
Off == [pc |-> "off", slept |-> FALSE, grace |-> 0,
        primed |-> FALSE, grown |-> FALSE, moved |-> FALSE]
Armed == [Off EXCEPT !.pc = "sleep", !.primed = log]

Running == {w \in Slots : wd[w].pc # "off"}

TypeOK ==
  /\ larri \in {"kill", "arm", "here", "gone"} /\ beating \in BOOLEAN
  /\ due \in 0..BeatEvery /\ sending \in BOOLEAN /\ link \in BOOLEAN
  /\ age \in 0..Cap
  /\ wd \in [Slots -> Dog]
  /\ log \in BOOLEAN /\ busy \in BOOLEAN /\ stopped \in {"no", "idle", "grace"}
  /\ steady \in 0..Cap /\ since \in 0..Cap /\ idle \in 0..Cap

\* Serve has dialled a fresh host.
Init ==
  /\ larri = "kill" /\ beating = FALSE /\ due = 0 /\ sending = FALSE /\ link = TRUE
  /\ age = 0 /\ wd = [w \in Slots |-> Off]
  /\ log = FALSE /\ busy = FALSE /\ stopped = "no"
  /\ steady = 0 /\ since = 0 /\ idle = 0

-----------------------------------------------------------------------------
(* The larri process                                                       *)

Serving == stopped = "no"

\* Arm's first command; that it fails is not noticed.
ArmKill ==
  /\ Serving /\ larri = "kill"
  /\ \/ link /\ wd' = [w \in Slots |-> Off]
     \/ (~link \/ "kill" \in Faults) /\ UNCHANGED wd
  /\ larri' = "arm"
  /\ UNCHANGED <<beating, due, sending, link, age, log, busy, stopped, steady, since, idle>>

\* Its second: touch the heartbeat, start the script; then startBeating.
ArmInstall ==
  /\ Serving /\ larri = "arm" /\ link
  /\ \E w \in Slots \ Running : wd' = [wd EXCEPT ![w] = Armed]
  /\ larri' = "here" /\ beating' = TRUE /\ due' = BeatEvery /\ sending' = FALSE
  /\ age' = 0 /\ since' = 0 /\ steady' = 0
  /\ UNCHANGED <<link, log, busy, stopped, idle>>

\* Serve and Adopt go on without a watchdog, and without beating.
ArmFails ==
  /\ Serving /\ larri = "arm" /\ (~link \/ "arm" \in Faults)
  /\ larri' = "here" /\ beating' = FALSE /\ sending' = FALSE /\ due' = 0
  /\ UNCHANGED <<link, age, host, steady, since, idle>>

BeatDue ==
  /\ Serving /\ larri = "here" /\ beating /\ due = 0
  /\ due' = BeatEvery /\ sending' = TRUE
  /\ UNCHANGED <<larri, beating, link, age, host, steady, since, idle>>

\* Mutant of Beat: it does not touch the file.
BeatUntouched ==
  /\ Serving /\ sending /\ link
  /\ sending' = FALSE
  /\ UNCHANGED <<larri, beating, due, link, age, host, steady, since, idle>>

Beat ==
  /\ Serving /\ sending /\ link
  /\ age' = 0 /\ sending' = FALSE
  /\ UNCHANGED <<larri, beating, due, link, host, steady, since, idle>>

\* Counted and warned of; the loop goes on.
BeatMissed ==
  /\ Serving /\ sending /\ ~link
  /\ sending' = FALSE
  /\ UNCHANGED <<larri, beating, due, link, age, host, steady, since, idle>>

Crash ==
  /\ Serving /\ larri # "gone"
  /\ larri' = "gone" /\ beating' = FALSE /\ sending' = FALSE /\ due' = 0
  /\ UNCHANGED <<link, age, host, steady, since, idle>>

\* larri resume: Adopt finds the server running and arms the host again.
Adopt ==
  /\ Serving /\ larri = "gone" /\ link
  /\ larri' = "kill"
  /\ UNCHANGED <<beating, due, sending, link, age, host, steady, since, idle>>

-----------------------------------------------------------------------------
(* The script                                                              *)

LogGrew(w) == wd[w].primed /\ wd[w].grown
IoBusy(w) == wd[w].moved
Reason(w) == busy \/ LogGrew(w) \/ IoBusy(w)

Sleeps(w, grace) == wd' = [wd EXCEPT ![w].pc = "sleep", ![w].slept = FALSE, ![w].grace = grace]

\* The heartbeat is read first; within the deadline nothing else matters.
Look(w) ==
  /\ Serving /\ wd[w].pc = "sleep" /\ wd[w].slept
  /\ IF age < Deadline THEN Sleeps(w, 0) ELSE wd' = [wd EXCEPT ![w].pc = "decide"]
  /\ UNCHANGED <<local, link, age, log, busy, stopped, steady, since, idle>>

\* Mutant of Wait: a busy host is waited for without end.
WaitForever(w) ==
  /\ Serving /\ wd[w].pc = "decide" /\ Reason(w)
  /\ Sleeps(w, wd[w].grace)
  /\ UNCHANGED <<local, link, age, log, busy, stopped, steady, since, idle>>

\* Busy: another interval, while there is grace.
Wait(w) ==
  /\ Serving /\ wd[w].pc = "decide" /\ Reason(w) /\ wd[w].grace + 1 < MaxGrace
  /\ Sleeps(w, wd[w].grace + 1)
  /\ UNCHANGED <<local, link, age, log, busy, stopped, steady, since, idle>>

\* The runtime is killed and a halt attempted; the script exits.
Stop(w) ==
  /\ Serving /\ wd[w].pc = "decide" /\ (~Reason(w) \/ wd[w].grace + 1 >= MaxGrace)
  /\ stopped' = IF Reason(w) THEN "grace" ELSE "idle"
  /\ wd' = [wd EXCEPT ![w] = Off]
  /\ UNCHANGED <<local, link, age, log, busy, steady, since, idle>>

-----------------------------------------------------------------------------
(* The host's work, the network, and time                                  *)

Marks(field) == [w \in Slots |-> IF w \in Running THEN [wd[w] EXCEPT ![field] = TRUE] ELSE wd[w]]

\* The runtime starts its log, or writes to it.
Logs ==
  /\ Serving
  /\ IF log THEN wd' = Marks("grown") ELSE UNCHANGED wd
  /\ log' = TRUE /\ idle' = 0
  /\ UNCHANGED <<local, link, age, busy, stopped, steady, since>>

\* Weights download.
Downloads ==
  /\ Serving
  /\ wd' = Marks("moved") /\ idle' = 0
  /\ UNCHANGED <<local, link, age, log, busy, stopped, steady, since>>

Works ==
  /\ Serving
  /\ busy' = ~busy /\ idle' = 0
  /\ UNCHANGED <<local, link, age, wd, log, stopped, steady, since>>

LinkChanges ==
  /\ Serving
  /\ link' = ~link /\ steady' = 0
  /\ UNCHANGED <<local, age, host, since, idle>>

Up(x) == IF x < Cap THEN x + 1 ELSE x

\* A pass, a beat and its timeout come before time goes on.
Tick ==
  /\ Serving
  /\ \A w \in Running : wd[w].pc = "sleep" /\ ~wd[w].slept
  /\ larri \in {"here", "gone"} /\ ~sending /\ (beating => due > 0)
  /\ wd' = [w \in Slots |-> IF w \in Running THEN [wd[w] EXCEPT !.slept = TRUE] ELSE wd[w]]
  /\ due' = IF beating THEN due - 1 ELSE due
  /\ age' = Up(age) /\ since' = Up(since)
  /\ idle' = IF busy THEN 0 ELSE Up(idle)
  /\ steady' = IF beating /\ link THEN Up(steady) ELSE 0
  /\ UNCHANGED <<larri, beating, sending, link, log, busy, stopped>>

Next ==
  \/ ArmKill \/ ArmInstall \/ ArmFails \/ BeatDue \/ Beat \/ BeatMissed \/ Crash \/ Adopt
  \/ \E w \in Slots : Look(w) \/ Wait(w) \/ Stop(w)
  \/ Logs \/ Downloads \/ Works \/ LinkChanges \/ Tick

Spec == Init /\ [][Next]_vars

-----------------------------------------------------------------------------
(* Properties                                                              *)

\* "Firing means LARRI is gone" (deadman.go): while larri beats over a link
\* that holds, no watchdog stops the runtime, however many run and whatever
\* they counted before; one interval is enough for a beat to be read.
SparedWhileBeating == stopped # "no" => steady <= BeatEvery

\* A host armed again has its whole deadline before anything stops it: only a
\* watchdog the arming was meant to replace, and did not, can be earlier.
FreshStart == stopped # "no" /\ Running = {} => since >= Deadline

\* A busy host has all of its grace, counted from the last sign of larri; a
\* beat that comes during the pass that decides is too late (age = 0).
GraceForWork == stopped = "grace" => age = 0 \/ age + 1 >= Deadline + MaxGrace

\* However busy it looks, a host with a watchdog serves nobody for longer than
\* the deadline and the grace.
AbandonedStops == Serving /\ Running # {} => age < Deadline + MaxGrace

\* "larri absent and host idle: stopping" (script): a host that larri has left
\* and that does nothing is stopped when the deadline has passed.
IdleHostStops == Serving /\ Running # {} => age <= Deadline \/ idle <= 1

=============================================================================
