------------------------------ MODULE Supervisor ------------------------------
(***************************************************************************)
(* daemon.Supervise over a serving rig, and the proxy's idle clock it      *)
(* reads (wire.Activity): polls and health probes in real time, operator   *)
(* requests that arrive, stream and finish, model listings, the store that *)
(* another process may write, and a provider that may have lost the        *)
(* instance.  Time is counted in ticks; a deadline that is due is served   *)
(* before time goes on.  Money is counted in ticks of the rig's price.     *)
(***************************************************************************)
EXTENDS Naturals

CONSTANTS
  Timeout, IdleAction,   \* config.Idle; 0: no idle policy
  Ceiling, BudgetAction, \* config.Budget; 0: no ceiling
  Accrued,               \* what the rig may have cost before it is supervised
  Lead,                  \* SupervisePolicy.Warn
  Poll, HealthEvery,     \* PollInterval, HealthInterval
  ProbeMax, AskMax,      \* how long a probe, and a provider query, can take
  MaxOpen, MaxStream,    \* requests at once; ticks one outlasts the last arrival
  Faults                 \* what may fail: reads of the store or of the journal,
                         \* and writes of the rig

ASSUME PolicyAssumption ==
  /\ {Timeout, Ceiling, Lead, AskMax, MaxOpen, MaxStream} \subseteq Nat
  /\ {Poll, HealthEvery, ProbeMax} \subseteq Nat \ {0}
  /\ Accrued \subseteq Nat
  /\ {IdleAction, BudgetAction} \subseteq {"destroy", "warn"}
  /\ Faults \subseteq {"store", "journal", "write"}

VARIABLES
  pc,           \* "sleep" between polls, "probe", "ask" of the provider
  left,         \* ticks until the poll is due or the call times out
  open,         \* Activity.inFlight
  last,         \* ticks since Activity.lastOperator
  sinceHealth,  \* ticks since lastHealth
  failures, warnedIdle, warnedSpend,
  spent,        \* what the journal says the rig cost
  rig,          \* live.Rig.State
  stored,       \* the state in the store's snapshot
  inst,         \* the instance at the provider
  cancelled,    \* ctx is done
  term,         \* why Supervise returned
  used, notice  \* observers: ticks since the last request ran, an inference or
                \* a listing of the models, and since the idle warning that no
                \* request followed (0: none)

clock == <<left, last, sinceHealth, spent, used, notice>>
rigs == <<rig, stored>>
traffic == <<open, last, used, notice>>
vars == <<pc, left, open, last, sinceHealth, failures, warnedIdle, warnedSpend,
          spent, rig, stored, inst, cancelled, term, used, notice>>

\* The longest time between two polls.
Gap == Poll + ProbeMax + AskMax

UsedCap == Timeout + Gap + 1   \* bounds of the counters: past them nothing
SpentCap == Ceiling + Gap + 1  \* the code or a property compares changes
NoticeCap == Timeout + 1
FailureCap == 4

TypeOK ==
  /\ pc \in {"sleep", "probe", "ask"}
  /\ left \in 0..Gap /\ open \in 0..MaxOpen
  /\ last \in 0..Timeout /\ used \in 0..UsedCap /\ notice \in 0..NoticeCap
  /\ sinceHealth \in 0..HealthEvery /\ failures \in 0..FailureCap
  /\ warnedIdle \in BOOLEAN /\ warnedSpend \in BOOLEAN
  /\ spent \in Nat
  /\ rig \in {"READY", "DEGRADED", "DESTROYED"} /\ stored \in {"READY", "DEGRADED", "DESTROYED"}
  /\ inst \in {"running", "gone"} /\ cancelled \in BOOLEAN
  /\ term \in {"none", "elsewhere", "budget", "idle", "gone", "interrupt"}

Up(x, cap) == IF x < cap THEN x + 1 ELSE x

\* The readiness check that ended the bring-up carried no probe header, so the
\* idle clock runs from it; the first poll probes.
Init ==
  /\ pc = "sleep" /\ left = Poll
  /\ open = 0 /\ last = 0 /\ used = 0 /\ notice = 0
  /\ sinceHealth = HealthEvery /\ failures = 0
  /\ warnedIdle = FALSE /\ warnedSpend = FALSE
  /\ spent \in Accrued
  /\ rig = "READY" /\ stored = "READY" /\ inst = "running"
  /\ cancelled = FALSE /\ term = "none"

-----------------------------------------------------------------------------
(* One poll: ended elsewhere, budget, idle, health, in that order          *)

Due == term = "none" /\ pc = "sleep" /\ left = 0

Ends(why) == term' = why /\ UNCHANGED <<pc, clock, open, warnedIdle, warnedSpend>>

\* Activity.IdleFor.
IdleFor == IF open > 0 THEN 0 ELSE last

\* endedElsewhere read the end from the store.
Seen == stored = "DESTROYED"

\* It did not, the snapshot being unreadable or not ended.
Missed == ~Seen \/ "store" \in Faults

\* accrued: nothing, when the journal cannot be read.
Costs == {spent} \cup (IF "journal" \in Faults THEN {0} ELSE {})

\* Mutant of Breaches: a busy rig is not held to its ceiling.
BreachesIdle(cost) == Ceiling > 0 /\ cost >= Ceiling /\ open = 0
Breaches(cost) == Ceiling > 0 /\ cost >= Ceiling

NearCeiling(cost) == Ceiling > 0 /\ Ceiling <= cost + Lead

\* Mutant of Reclaims: the window is over when its warning is due.
ReclaimsEarly == Timeout > 0 /\ IdleAction = "destroy" /\ IdleFor + Lead >= Timeout
Reclaims == Timeout > 0 /\ IdleAction = "destroy" /\ IdleFor >= Timeout

\* Mutant of NearTimeout: the idle warning has no lead time.
NearTimeoutLate == Timeout > 0 /\ IdleFor >= Timeout

\* In warn mode the window itself; before a destroy, with lead time.
NearTimeout ==
  /\ Timeout > 0
  /\ \/ IdleFor >= Timeout
     \/ IdleAction = "destroy" /\ IdleFor + Lead >= Timeout

EndedElsewhere ==
  /\ Due /\ Seen
  /\ Ends("elsewhere") /\ rig' = stored
  /\ UNCHANGED <<failures, stored, inst, cancelled>>

\* The configured action is not consulted.
CeilingReached ==
  /\ Due /\ Missed /\ \E cost \in Costs : Breaches(cost)
  /\ Ends("budget")
  /\ UNCHANGED <<failures, rigs, inst, cancelled>>

IdleReclaimed ==
  /\ Due /\ Missed /\ \E cost \in Costs : ~Breaches(cost)
  /\ Reclaims
  /\ Ends("idle")
  /\ UNCHANGED <<failures, rigs, inst, cancelled>>

\* Nothing ends the rig: warn, once per stretch, and probe when it is time.
Watches ==
  /\ Due /\ Missed /\ ~Reclaims
  /\ \E cost \in Costs :
       ~Breaches(cost) /\ warnedSpend' = (warnedSpend \/ NearCeiling(cost))
  /\ IF Timeout > 0 THEN warnedIdle' = NearTimeout ELSE UNCHANGED warnedIdle
  /\ notice' = IF NearTimeout /\ ~warnedIdle THEN 1 ELSE notice
  /\ IF sinceHealth >= HealthEvery
     THEN pc' = "probe" /\ left' = ProbeMax /\ sinceHealth' = 0
     ELSE left' = Poll /\ UNCHANGED <<pc, sinceHealth>>
  /\ UNCHANGED <<open, last, used, spent, failures, rigs, inst, cancelled, term>>

-----------------------------------------------------------------------------
(* Health                                                                  *)

Sleeps == pc' = "sleep" /\ left' = Poll

\* Store.Transition, its error ignored: refused once the rig is destroyed, or
\* while its snapshot cannot be read; a failed write may leave the copy ahead.
Transition(to) ==
  \/ stored # "DESTROYED" /\ rig' = to /\ stored' = to
  \/ (stored = "DESTROYED" \/ "store" \in Faults) /\ UNCHANGED rigs
  \/ "write" \in Faults /\ rig' \in {rig, to} /\ UNCHANGED stored

\* Mutant of Steady: a probe counts as the operator's request.
SteadyMarked ==
  /\ last' = 0
  /\ UNCHANGED <<open, used, notice, sinceHealth, warnedIdle, warnedSpend, spent, inst, cancelled>>

\* The proxy counts a probe apart: it moves no clock but its own.
Steady == UNCHANGED <<traffic, sinceHealth, warnedIdle, warnedSpend, spent, inst, cancelled>>

ProbeOk ==
  /\ term = "none" /\ pc = "probe" /\ inst = "running"
  /\ IF failures > 0 /\ rig = "DEGRADED" THEN Transition("READY") ELSE UNCHANGED rigs
  /\ failures' = 0 /\ Sleeps /\ Steady /\ UNCHANGED term

\* The third failure in a row, and each one after it, is taken to the provider.
ProbeFails ==
  /\ term = "none" /\ pc = "probe"
  /\ failures' = Up(failures, FailureCap)
  /\ IF failures' >= 3 THEN pc' = "ask" /\ left' = AskMax ELSE Sleeps
  /\ Steady /\ UNCHANGED <<rigs, term>>

\* Mutant of AskGone: the provider is asked once only.
AskGoneOnce ==
  /\ term = "none" /\ pc = "ask" /\ inst = "gone" /\ ~cancelled /\ failures = 3
  /\ Ends("gone")
  /\ UNCHANGED <<failures, rigs, inst, cancelled>>

\* instanceGone: only a clean "not found" ends the rig.
AskGone ==
  /\ term = "none" /\ pc = "ask" /\ inst = "gone" /\ ~cancelled
  /\ Ends("gone")
  /\ UNCHANGED <<failures, rigs, inst, cancelled>>

\* The instance exists, or the provider cannot be reached.
AskHolds ==
  /\ term = "none" /\ pc = "ask"
  /\ IF failures = 3 THEN Transition("DEGRADED") ELSE UNCHANGED rigs
  /\ Sleeps /\ Steady /\ UNCHANGED <<failures, term>>

\* ctx is done; a poll that is due at the same time may still come first.
Interrupted ==
  /\ term = "none" /\ pc = "sleep" /\ cancelled
  /\ Ends("interrupt")
  /\ UNCHANGED <<failures, rigs, inst, cancelled>>

Supervises ==
  \/ EndedElsewhere \/ CeilingReached \/ IdleReclaimed \/ Watches
  \/ ProbeOk \/ ProbeFails \/ AskHolds \/ Interrupted

-----------------------------------------------------------------------------
(* The proxy, other processes, the provider, and time                      *)

Beside == UNCHANGED <<pc, left, sinceHealth, failures, warnedIdle, warnedSpend, spent, term>>

\* ServeHTTP: counted on arrival, in flight until the response ends.
Request ==
  /\ term = "none" /\ open < MaxOpen
  /\ open' = open + 1 /\ last' = 0 /\ used' = 0 /\ notice' = 0
  /\ Beside /\ UNCHANGED <<rigs, inst, cancelled>>

Response ==
  /\ term = "none" /\ open > 0
  /\ open' = open - 1 /\ used' = 0
  /\ Beside /\ UNCHANGED <<last, notice, rigs, inst, cancelled>>

\* GET /v1/models, answered at once: ServeHTTP does not look at the path.
ListModels ==
  /\ term = "none"
  /\ last' = 0 /\ used' = 0 /\ notice' = 0
  /\ Beside /\ UNCHANGED <<open, rigs, inst, cancelled>>

\* larri down, from another terminal.
OtherDown ==
  /\ term = "none" /\ stored # "DESTROYED"
  /\ stored' = "DESTROYED" /\ inst' = "gone"
  /\ Beside /\ UNCHANGED <<traffic, rig, cancelled>>

Vanishes ==
  /\ term = "none" /\ inst = "running"
  /\ inst' = "gone"
  /\ Beside /\ UNCHANGED <<traffic, rigs, cancelled>>

Interrupt ==
  /\ term = "none" /\ ~cancelled
  /\ cancelled' = TRUE
  /\ Beside /\ UNCHANGED <<traffic, rigs, inst>>

Tick ==
  /\ term = "none" /\ left > 0 /\ ~(pc = "sleep" /\ cancelled)
  /\ (open > 0 => last < MaxStream)
  /\ left' = left - 1
  /\ last' = Up(last, Timeout)
  /\ used' = IF open > 0 THEN 0 ELSE Up(used, UsedCap)
  /\ notice' = IF notice > 0 THEN Up(notice, NoticeCap) ELSE 0
  /\ sinceHealth' = Up(sinceHealth, HealthEvery)
  /\ spent' = IF Ceiling > 0 THEN Up(spent, SpentCap) ELSE spent
  /\ UNCHANGED <<pc, open, failures, warnedIdle, warnedSpend, rigs, inst, cancelled, term>>

Next ==
  \/ Supervises \/ AskGone
  \/ Request \/ Response \/ ListModels
  \/ OtherDown \/ Vanishes \/ Interrupt \/ Tick

Spec == Init /\ [][Next]_vars

\* The loop runs, time passes, and a provider asked again and again answers in
\* the end.
FairSpec ==
  Spec /\ WF_vars(Supervises) /\ WF_vars(Tick) /\ SF_vars(AskGone)
       /\ WF_vars(Response)

-----------------------------------------------------------------------------
(* Properties                                                              *)

\* A rig nobody sends a request to, none streaming, is reclaimed when its window
\* is over, whatever the probes, the store and the provider do: at most one gap
\* between two polls late.  A listing of the models is such a request.
ReclaimedInTime ==
  IdleAction = "destroy" /\ Timeout > 0 /\ term = "none" => used < Timeout + Gap

\* FR-SUP-08: only inference is use, and a listing of the models moves no idle
\* clock.
ListingIsNoUse == [][ListModels => UNCHANGED last]_vars

\* A rig is reclaimed only after a whole window without a request, one still
\* streaming being use however long ago it arrived.
SilentForWindow == term = "idle" => used >= Timeout

\* As far as the code gets: the window is counted from the last arrival, so what
\* that request streamed after it is missing from the silence.
SilentSinceArrival == term = "idle" => used + MaxStream >= Timeout

\* The operator is warned of an idle reclamation, after the last request and
\* with lead time to cancel it.
WarnedBeforeReclaim == term = "idle" => notice > 0 /\ notice + Gap > Lead

\* A supervised rig never costs more than its ceiling and what one gap between
\* polls adds, busy or not.
SpendBounded == Ceiling > 0 /\ term = "none" => spent < Ceiling + Gap

\* A ceiling configured to warn does not end the rig.
BudgetActionKept == term = "budget" => BudgetAction = "destroy"

\* Between probes the record says DEGRADED exactly while three probes or more
\* have failed in a row; a rig ended elsewhere says so instead.
HealthOnRecord ==
  pc = "sleep" /\ term = "none" /\ stored # "DESTROYED"
    => (stored = "DEGRADED" <=> failures >= 3)

\* What another process ended, the supervisor never writes back to life.
EndStays == [][stored = "DESTROYED" => stored' = "DESTROYED"]_vars

\* A rig ended by another process, or lost by its provider, ends its supervisor.
EndNoticed == (stored = "DESTROYED" \/ inst = "gone") ~> term # "none"

=============================================================================
