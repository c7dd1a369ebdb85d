--------------------------- MODULE SupervisorProofs ---------------------------
(***************************************************************************)
(* How late the supervisor can be, for any policy and any timing: what is  *)
(* left until the next poll bounds the silence and the spending it can     *)
(* still overlook.  And what it writes: the health record, and never over  *)
(* a rig another process ended.  And how long a rig that it reclaims was   *)
(* silent, and that the operator was warned.                               *)
(***************************************************************************)
EXTENDS Supervisor, TLAPS

\* With p and l for pc and left: something that is x now, and grows by at most
\* one a tick, is at most limit when the next poll is due.
Within(p, l, x, limit) ==
  /\ p = "sleep" => x + l <= limit
  /\ p = "probe" => x + l + AskMax + Poll <= limit
  /\ p = "ask" => x + l + Poll <= limit

TimeInv ==
  /\ pc \in {"sleep", "probe", "ask"} /\ left \in Nat /\ Within(pc, left, 0, Gap)
  /\ open \in Nat /\ last \in Nat /\ used \in Nat /\ spent \in Nat

\* Silence is never longer than the idle clock says, until the clock is full.
SilenceInv == /\ open > 0 => used = 0
              /\ last < Timeout => used <= last

IdleInv == IdleAction = "destroy" /\ Timeout > 0 /\ term = "none"
             => Within(pc, left, used + 1, Timeout + Gap)

SpendInv == Ceiling > 0 /\ term = "none" => Within(pc, left, spent + 1, Ceiling + Gap)

\* The copy and the snapshot agree until another process ends the rig, and a
\* third failure is on record once the provider has been asked.
HealthInv ==
  /\ failures \in 0..FailureCap
  /\ stored # "DESTROYED" /\ term = "none" =>
       /\ rig = stored
       /\ pc = "ask" => failures >= 3
       /\ stored = "DEGRADED" <=> failures > 3 \/ (failures = 3 /\ pc # "ask")

LEMMA Bounds ==
  /\ Timeout \in Nat /\ Ceiling \in Nat /\ AskMax \in Nat /\ Poll \in Nat /\ ProbeMax \in Nat
  /\ Gap = Poll + ProbeMax + AskMax /\ Gap \in Nat /\ Poll > 0 /\ ProbeMax > 0
BY PolicyAssumption DEF Gap

LEMMA Caps ==
  /\ UsedCap \in Nat /\ SpentCap \in Nat /\ Accrued \subseteq Nat /\ FailureCap = 4
BY PolicyAssumption DEF Gap, UsedCap, SpentCap, FailureCap

LEMMA Ups == \A x, cap \in Nat : Up(x, cap) \in Nat /\ x <= Up(x, cap) /\ Up(x, cap) <= x + 1
BY DEF Up

\* Time that passes, and calls that return early, only bring the poll nearer.
LEMMA Nearer ==
  ASSUME NEW p, NEW l \in Nat, NEW m \in Nat, NEW x \in Nat, NEW y \in Nat, NEW limit \in Nat,
         Within(p, l, x + 1, limit), (y \in {0, x, x + 1} /\ m = l - 1) \/ (y = 0 /\ m = l)
  PROVE  Within(p, m, y + 1, limit)
BY Bounds DEF Within

LEMMA Returned ==
  ASSUME NEW p \in {"probe", "ask"}, NEW l \in Nat, NEW x \in Nat, NEW limit \in Nat,
         Within(p, l, x, limit)
  PROVE  Within("sleep", Poll, x, limit) /\ (p = "probe" => Within("ask", AskMax, x, limit))
BY Bounds DEF Within

\* A poll starts the longest wait there is.
LEMMA Polled ==
  ASSUME NEW x \in Nat, NEW bound \in Nat, x < bound
  PROVE  /\ Within("sleep", Poll, x + 1, bound + Gap)
         /\ Within("probe", ProbeMax, x + 1, bound + Gap)
BY Bounds DEF Within

-----------------------------------------------------------------------------

\* The steps of the system, and what ends it told from what goes on.
LEMMA Cases ==
  ASSUME [Next]_vars
  PROVE  \/ term' # "none" /\ UNCHANGED clock /\ UNCHANGED <<pc, open, stored, failures>>
         \/ Watches \/ ProbeOk \/ ProbeFails \/ AskHolds
         \/ Request \/ Response \/ ListModels \/ OtherDown \/ Vanishes \/ Interrupt
         \/ Tick \/ UNCHANGED vars
BY DEF Next, Supervises, EndedElsewhere, CeilingReached, IdleReclaimed, AskGone,
       Interrupted, Ends, rigs

LEMMA TimeInit == Init => TimeInv
BY Bounds, Caps DEF Init, TimeInv, Within

LEMMA TimeStep == TimeInv /\ [Next]_vars => TimeInv'
<1> SUFFICES ASSUME TimeInv, [Next]_vars PROVE TimeInv'
  OBVIOUS
<1>1. CASE term' # "none" /\ UNCHANGED clock /\ UNCHANGED <<pc, open, stored, failures>>
  BY <1>1 DEF clock, TimeInv, Within
<1>2. CASE Watches
  BY <1>2, Bounds DEF Watches, TimeInv, Within, Due
<1>3. CASE ProbeOk \/ ProbeFails \/ AskHolds
  <2>1. UNCHANGED traffic /\ UNCHANGED spent
    BY <1>3 DEF ProbeOk, ProbeFails, AskHolds, Steady
  <2>2. Sleeps \/ (pc' = "ask" /\ left' = AskMax)
    BY <1>3 DEF ProbeOk, ProbeFails, AskHolds, Sleeps
  <2>3. QED
    BY <2>1, <2>2, Bounds DEF TimeInv, Within, Sleeps, traffic
<1>4. CASE Request \/ Response \/ ListModels
  BY <1>4 DEF Request, Response, ListModels, Beside, TimeInv, Within
<1>5. CASE OtherDown \/ Vanishes \/ Interrupt \/ UNCHANGED vars
  BY <1>5 DEF OtherDown, Vanishes, Interrupt, Beside, traffic, vars, TimeInv, Within
<1>6. CASE Tick
  <2>1. last' \in Nat /\ used' \in Nat /\ spent' \in Nat
    BY <1>6, Ups, Bounds, Caps DEF Tick, TimeInv
  <2>2. left' \in Nat /\ left' = left - 1 /\ pc' = pc /\ open' = open
    BY <1>6 DEF Tick, TimeInv
  <2>3. Within(pc', left', 0, Gap)
    BY <2>2, Bounds DEF TimeInv, Within
  <2>4. QED
    BY <2>1, <2>2, <2>3 DEF TimeInv
<1>7. QED
  BY <1>1, <1>2, <1>3, <1>4, <1>5, <1>6, Cases

\* Probes and requests leave the silence as it is or end it; a poll that lets the
\* rig live has seen less of it than the window.
LEMMA IdleStep ==
  TimeInv /\ SilenceInv /\ IdleInv /\ [Next]_vars => SilenceInv' /\ IdleInv'
<1> SUFFICES ASSUME TimeInv, SilenceInv, IdleInv, [Next]_vars
             PROVE  SilenceInv' /\ IdleInv'
  OBVIOUS
<1>t. TimeInv'
  BY TimeStep
<1>b. /\ left \in Nat /\ used \in Nat /\ left' \in Nat /\ used' \in Nat
      /\ Timeout + Gap \in Nat /\ used + 1 \in Nat
  <2>1. left \in Nat /\ used \in Nat /\ left' \in Nat /\ used' \in Nat
    BY <1>t DEF TimeInv
  <2>2. QED
    BY <2>1, Bounds
<1>1. CASE term' # "none" /\ UNCHANGED clock /\ UNCHANGED <<pc, open, stored, failures>>
  BY <1>1 DEF clock, SilenceInv, IdleInv
<1>2. CASE Watches
  <2>1. UNCHANGED <<open, last, used, term>>
    BY <1>2 DEF Watches
  <2>2. IdleAction = "destroy" /\ Timeout > 0 => used < Timeout
    BY <1>2, Bounds DEF Watches, Reclaims, IdleFor, TimeInv, SilenceInv
  <2>3. \/ pc' = "probe" /\ left' = ProbeMax
        \/ pc' = "sleep" /\ left' = Poll
    BY <1>2 DEF Watches, Due
  <2>4. QED
    BY <2>1, <2>2, <2>3, <1>b, Bounds, Polled DEF SilenceInv, IdleInv
<1>3. CASE ProbeOk \/ ProbeFails \/ AskHolds
  <2>1. UNCHANGED <<open, last, used, term>>
    BY <1>3 DEF ProbeOk, ProbeFails, AskHolds, Steady, traffic
  <2>2. /\ pc \in {"probe", "ask"}
        /\ \/ pc' = "sleep" /\ left' = Poll
           \/ pc = "probe" /\ pc' = "ask" /\ left' = AskMax
    BY <1>3 DEF ProbeOk, ProbeFails, AskHolds, Sleeps
  <2>3. QED
    BY <2>1, <2>2, <1>b, Returned DEF SilenceInv, IdleInv
<1>4. CASE Request \/ Response \/ ListModels
  <2>1. UNCHANGED <<pc, left, term>> /\ used' = 0
    BY <1>4 DEF Request, Response, ListModels, Beside
  <2>2. IdleInv'
    BY <2>1, <1>b, Nearer DEF IdleInv
  <2>3. SilenceInv'
    BY <2>1, <1>t DEF SilenceInv, TimeInv
  <2>4. QED
    BY <2>2, <2>3
<1>5. CASE OtherDown \/ Vanishes \/ Interrupt \/ UNCHANGED vars
  BY <1>5 DEF OtherDown, Vanishes, Interrupt, Beside, traffic, vars, SilenceInv, IdleInv
<1>6. CASE Tick
  <2>1. /\ last' < Timeout => last < Timeout /\ last' = last + 1
        /\ open' = open
        /\ used' = 0 \/ (open = 0 /\ used' \in {used, used + 1})
    BY <1>6, <1>t, Bounds DEF Tick, Up, TimeInv
  <2>2. SilenceInv'
    BY <2>1, <1>t DEF SilenceInv, TimeInv
  <2>3. UNCHANGED <<pc, term>> /\ left' = left - 1
    BY <1>6 DEF Tick
  <2>4. IdleInv'
    BY <2>1, <2>3, <1>b, Nearer DEF IdleInv
  <2>5. QED
    BY <2>2, <2>4
<1>7. QED
  BY <1>1, <1>2, <1>3, <1>4, <1>5, <1>6, Cases

\* A rig nobody sends a request to, a listing of the models included, is
\* reclaimed within one gap of its window, for every policy and timing, whatever
\* fails (Supervise, Activity.IdleFor).
THEOREM UnusedRigReclaimed == Spec => []ReclaimedInTime
<1>1. Init => TimeInv /\ SilenceInv /\ IdleInv
  BY Bounds, TimeInit DEF Init, SilenceInv, IdleInv, TimeInv, Within
<1>2. TimeInv /\ SilenceInv /\ IdleInv /\ [Next]_vars => (TimeInv /\ SilenceInv /\ IdleInv)'
  BY TimeStep, IdleStep
<1>3. TimeInv /\ IdleInv => ReclaimedInTime
  BY Bounds DEF TimeInv, IdleInv, ReclaimedInTime, Within
<1>4. QED
  BY <1>1, <1>2, <1>3, PTL DEF Spec

-----------------------------------------------------------------------------

LEMMA SpendStep ==
  ASSUME "journal" \notin Faults
  PROVE  TimeInv /\ SpendInv /\ [Next]_vars => SpendInv'
<1> SUFFICES ASSUME TimeInv, SpendInv, [Next]_vars PROVE SpendInv'
  OBVIOUS
<1>t. TimeInv'
  BY TimeStep
<1>b. /\ left \in Nat /\ spent \in Nat /\ left' \in Nat /\ spent' \in Nat
      /\ Ceiling + Gap \in Nat /\ spent + 1 \in Nat
  <2>1. left \in Nat /\ spent \in Nat /\ left' \in Nat /\ spent' \in Nat
    BY <1>t DEF TimeInv
  <2>2. QED
    BY <2>1, Bounds
<1>1. CASE term' # "none" /\ UNCHANGED clock /\ UNCHANGED <<pc, open, stored, failures>>
  BY <1>1 DEF SpendInv
<1>2. CASE Watches
  <2>1. UNCHANGED <<spent, term>> /\ (Ceiling > 0 => spent < Ceiling)
    BY <1>2, <1>b, Bounds DEF Watches, Costs, Breaches
  <2>2. \/ pc' = "probe" /\ left' = ProbeMax
        \/ pc' = "sleep" /\ left' = Poll
    BY <1>2 DEF Watches, Due
  <2>3. QED
    BY <2>1, <2>2, <1>b, Bounds, Polled DEF SpendInv
<1>3. CASE ProbeOk \/ ProbeFails \/ AskHolds
  <2>1. UNCHANGED <<spent, term>>
    BY <1>3 DEF ProbeOk, ProbeFails, AskHolds, Steady
  <2>2. /\ pc \in {"probe", "ask"}
        /\ \/ pc' = "sleep" /\ left' = Poll
           \/ pc = "probe" /\ pc' = "ask" /\ left' = AskMax
    BY <1>3 DEF ProbeOk, ProbeFails, AskHolds, Sleeps
  <2>3. QED
    BY <2>1, <2>2, <1>b, Returned DEF SpendInv
<1>4. CASE Request \/ Response \/ ListModels
  BY <1>4 DEF Request, Response, ListModels, Beside, SpendInv
<1>5. CASE OtherDown \/ Vanishes \/ Interrupt \/ UNCHANGED vars
  BY <1>5 DEF OtherDown, Vanishes, Interrupt, Beside, vars, SpendInv
<1>6. CASE Tick
  <2>1. UNCHANGED <<pc, term>> /\ left' = left - 1 /\ spent' \in {spent, spent + 1}
    BY <1>6 DEF Tick, Up
  <2>2. QED
    BY <2>1, <1>b, Nearer DEF SpendInv
<1>7. QED
  BY <1>1, <1>2, <1>3, <1>4, <1>5, <1>6, Cases

\* A rig that was under its ceiling when its supervisor started overshoots it by
\* less than one gap of its price, if the journal can be read (accrued).
THEOREM CeilingHolds ==
  ASSUME "journal" \notin Faults, \A a \in Accrued : a < Ceiling
  PROVE  Spec => []SpendBounded
<1>1. Init => TimeInv /\ SpendInv
  <2>1. Init => spent \in Nat /\ spent < Ceiling /\ pc = "sleep" /\ left = Poll
    BY Bounds, Caps DEF Init
  <2>2. QED
    BY <2>1, Bounds, TimeInit DEF SpendInv, Within
<1>2. TimeInv /\ SpendInv /\ [Next]_vars => (TimeInv /\ SpendInv)'
  BY TimeStep, SpendStep
<1>3. TimeInv /\ SpendInv => SpendBounded
  BY Bounds DEF TimeInv, SpendInv, SpendBounded, Within
<1>4. QED
  BY <1>1, <1>2, <1>3, PTL DEF Spec

-----------------------------------------------------------------------------

LEMMA HealthStep ==
  ASSUME "store" \notin Faults, "write" \notin Faults
  PROVE  HealthInv /\ [Next]_vars => HealthInv'
<1> SUFFICES ASSUME HealthInv, [Next]_vars PROVE HealthInv'
  OBVIOUS
<1> USE Caps DEF HealthInv
<1>1. CASE term' # "none" /\ UNCHANGED clock /\ UNCHANGED <<pc, open, stored, failures>>
  BY <1>1
<1>2. CASE Watches
  BY <1>2 DEF Watches, Due, rigs
<1>3. CASE ProbeOk
  BY <1>3 DEF ProbeOk, Sleeps, Transition, rigs
<1>4. CASE ProbeFails
  <2>1. failures' \in 0..4 /\ (failures' = failures + 1 \/ (failures = 4 /\ failures' = 4))
    BY <1>4 DEF ProbeFails, Up
  <2>2. QED
    BY <1>4, <2>1 DEF ProbeFails, Sleeps, rigs
<1>5. CASE AskHolds
  BY <1>5 DEF AskHolds, Sleeps, Transition, rigs
<1>6. CASE Request \/ Response \/ ListModels
  BY <1>6 DEF Request, Response, ListModels, Beside, rigs
<1>7. CASE OtherDown \/ Vanishes \/ Interrupt
  BY <1>7 DEF OtherDown, Vanishes, Interrupt, Beside, rigs
<1>8. CASE Tick \/ UNCHANGED vars
  BY <1>8 DEF Tick, rigs, vars
<1>9. QED
  BY <1>1, <1>2, <1>3, <1>4, <1>5, <1>6, <1>7, <1>8, Cases

\* While the rig's snapshot can be read and written, it says DEGRADED exactly when
\* three probes in a row have failed (Supervise, Store.Transition).
THEOREM RecordSaysHealth ==
  ASSUME "store" \notin Faults, "write" \notin Faults
  PROVE  Spec => []HealthOnRecord
<1>1. Init => HealthInv
  BY Caps DEF Init, HealthInv
<1>2. HealthInv /\ [Next]_vars => HealthInv'
  BY HealthStep
<1>3. HealthInv => HealthOnRecord
  BY Caps DEF HealthInv, HealthOnRecord
<1>4. QED
  BY <1>1, <1>2, <1>3, PTL DEF Spec

\* The supervisor never writes a rig back to life that another process ended,
\* whatever fails (guardDestroyed).
THEOREM EndedStaysEnded == Spec => EndStays
<1>1. [Next]_vars => [stored = "DESTROYED" => stored' = "DESTROYED"]_vars
  <2> SUFFICES ASSUME [Next]_vars, stored = "DESTROYED" PROVE stored' = "DESTROYED"
    OBVIOUS
  <2>1. CASE Watches \/ ProbeFails \/ Request \/ Response \/ ListModels
    BY <2>1 DEF Watches, ProbeFails, Request, Response, ListModels, rigs
  <2>2. CASE ProbeOk \/ AskHolds
    BY <2>2 DEF ProbeOk, AskHolds, Transition, rigs
  <2>3. CASE OtherDown \/ Vanishes \/ Interrupt \/ Tick \/ UNCHANGED vars
    BY <2>3 DEF OtherDown, Vanishes, Interrupt, Tick, rigs, vars
  <2>4. QED
    BY <2>1, <2>2, <2>3, Cases
<1>2. QED
  BY <1>1, PTL DEF Spec, EndStays

-----------------------------------------------------------------------------
(* What ends the rig for idleness                                          *)

\* A supervisor that has returned does nothing more.
LEMMA Over == ASSUME [Next]_vars, term # "none" PROVE UNCHANGED vars
BY DEF Next, Supervises, EndedElsewhere, CeilingReached, IdleReclaimed, Watches, Due, ProbeOk,
       ProbeFails, AskHolds, Interrupted, AskGone, Request, Response, ListModels, OtherDown,
       Vanishes, Interrupt, Tick

LEMMA EndsIdle ==
  ASSUME [Next]_vars, term = "none", term' = "idle"
  PROVE  Due /\ Reclaims /\ UNCHANGED <<clock, pc, open, warnedIdle>>
BY DEF Next, Supervises, EndedElsewhere, CeilingReached, IdleReclaimed, Watches, ProbeOk,
       ProbeFails, AskHolds, Steady, Interrupted, AskGone, Ends, Request, Response, ListModels,
       Beside, OtherDown, Vanishes, Interrupt, Tick, vars

\* The idle clock counts from an arrival, which no request outlasts by more than
\* MaxStream.
ArrivalInv ==
  /\ TimeInv
  /\ last <= Timeout /\ last <= used + MaxStream
  /\ open > 0 => last <= MaxStream
  /\ SilentSinceArrival

\* The clock of the last arrival and that of the last inference, one tick on.
LEMMA ClocksStep ==
  ASSUME NEW l \in Nat, NEW l1 \in Nat, NEW u \in Nat, NEW u1 \in Nat, NEW m \in Nat,
         NEW t \in Nat, l1 <= t, l1 <= l + 1, l <= u + m, u1 = u + 1 \/ u1 >= t
  PROVE  l1 <= u1 + m
OBVIOUS

LEMMA ClocksBusy ==
  ASSUME NEW l \in Nat, NEW l1 \in Nat, NEW u1 \in Nat, NEW m \in Nat, l1 <= l + 1, l < m
  PROVE  l1 <= m /\ l1 <= u1 + m
OBVIOUS

LEMMA ClocksFresh ==
  ASSUME NEW l1 \in Nat, NEW u1 \in Nat, NEW m \in Nat, NEW t \in Nat, l1 = 0
  PROVE  l1 <= t /\ l1 <= m /\ l1 <= u1 + m
OBVIOUS

\* The age of a warning, one tick on.
LEMMA NoticeStep ==
  ASSUME NEW l \in Nat, NEW l1 \in Nat, NEW n \in Nat, NEW n1 \in Nat, NEW t \in Nat,
         NEW g \in Nat, NEW d \in Nat, l1 <= t, l1 <= l + 1, d < t,
         n1 = n + 1 \/ n1 >= t, l + d + 1 <= t + g + n
  PROVE  l1 + d + 1 <= t + g + n1
OBVIOUS

LEMMA ArrivalStep == ASSUME ArrivalInv, [Next]_vars PROVE ArrivalInv'
<1>t. TimeInv /\ TimeInv' BY TimeStep DEF ArrivalInv
<1>n. MaxStream \in Nat /\ Timeout \in Nat /\ last \in Nat /\ used \in Nat /\ open \in Nat
  BY <1>t, PolicyAssumption DEF TimeInv
<1>1. CASE term # "none"
  BY <1>1, Over, <1>t DEF vars, ArrivalInv, SilentSinceArrival
<1>2. CASE term = "none" /\ term' = "idle"
  <2>1. open = 0 /\ last >= Timeout /\ UNCHANGED <<last, used, open>>
    BY <1>2, <1>n, EndsIdle DEF Reclaims, IdleFor, clock
  <2>2. SilentSinceArrival' BY <1>n, <2>1 DEF ArrivalInv, SilentSinceArrival
  <2> QED BY <1>t, <2>1, <2>2 DEF ArrivalInv
<1>3. CASE term = "none" /\ term' # "idle"
  <2>0. SilentSinceArrival' BY <1>3 DEF SilentSinceArrival
  <2>1. CASE UNCHANGED <<last, used, open>>
    BY <1>t, <2>0, <2>1 DEF ArrivalInv
  <2>2. CASE Request \/ ListModels
    <3>1. last' = 0 /\ last' \in Nat /\ used' \in Nat
      BY <1>t, <2>2 DEF Request, ListModels, TimeInv
    <3>2. last' <= Timeout /\ last' <= used' + MaxStream /\ (open' > 0 => last' <= MaxStream)
      BY <1>n, <3>1, ClocksFresh
    <3> QED BY <1>t, <2>0, <3>2 DEF ArrivalInv
  <2>3. CASE Response
    BY <1>t, <1>n, <2>0, <2>3 DEF Response, ArrivalInv
  <2>4. CASE Tick
    <3>1. /\ last' \in Nat /\ last' <= Timeout /\ last' <= last + 1
          /\ used' \in Nat /\ (open = 0 => used' = used + 1 \/ used' >= Timeout)
          /\ open' = open
      BY <1>t, <1>n, <2>4, Bounds, Caps DEF Tick, Up, UsedCap, ArrivalInv, TimeInv
    <3>2. open > 0 => last < MaxStream BY <2>4 DEF Tick
    <3>3. open > 0 \/ open = 0 BY <1>n
    <3>4. last' <= used' + MaxStream
      <4>1. last <= used + MaxStream BY DEF ArrivalInv
      <4>2. CASE open > 0 BY <1>n, <3>1, <3>2, <4>2, ClocksBusy
      <4>3. CASE open = 0 BY <1>n, <3>1, <4>1, <4>3, ClocksStep
      <4> QED BY <3>3, <4>2, <4>3
    <3>5. last' <= Timeout /\ (open' > 0 => last' <= MaxStream)
      <4>1. open > 0 => last' <= MaxStream BY <1>n, <3>1, <3>2
      <4> QED BY <3>1, <4>1
    <3> QED BY <1>t, <2>0, <3>4, <3>5 DEF ArrivalInv
  <2> QED
    BY <2>1, <2>2, <2>3, <2>4, Cases
    DEF clock, Watches, ProbeOk, ProbeFails, AskHolds, Steady, traffic, OtherDown, Vanishes, Interrupt, vars
<1> QED BY <1>1, <1>2, <1>3

LEMMA ArrivalInit == Init => ArrivalInv
BY TimeInit, PolicyAssumption DEF Init, ArrivalInv, SilentSinceArrival

\* A rig is reclaimed for idleness only after a window without a request, less
\* what one streamed after it arrived, whatever fails (Activity.IdleFor).
THEOREM SilentButForStream == Spec => []SilentSinceArrival
<1>1. ArrivalInv /\ [Next]_vars => ArrivalInv' BY ArrivalStep
<1>2. ArrivalInv => SilentSinceArrival BY DEF ArrivalInv
<1> QED BY <1>1, <1>2, ArrivalInit, PTL DEF Spec

\* Until it is warned of, the idle window is not so near that a poll could find it
\* over before one finds it near.  A request after the warning is noticed by the
\* next poll, long before the window is near again.
WarnInv ==
  /\ notice \in Nat
  /\ IdleAction = "destroy" /\ Timeout > 0 /\ term = "none" =>
       /\ ~warnedIdle => Within(pc, left, last + Lead + 1, Timeout + Gap)
       /\ warnedIdle /\ notice = 0 => Within(pc, left, last, Gap)
       /\ warnedIdle /\ notice > 0 => last + Lead + 1 <= Timeout + Gap + notice
  /\ WarnedBeforeReclaim

LEMMA NearerBy ==
  ASSUME NEW p, NEW l \in Nat, NEW m \in Nat, NEW x \in Nat, NEW y \in Nat, NEW limit \in Nat,
         Within(p, l, x, limit), (y <= x + 1 /\ m = l - 1) \/ (y <= x /\ m = l)
  PROVE  Within(p, m, y, limit)
BY Bounds DEF Within

LEMMA PolledBy ==
  ASSUME NEW x \in Nat, NEW bound \in Nat, x <= bound
  PROVE  /\ Within("sleep", Poll, x, bound + Gap)
         /\ Within("probe", ProbeMax, x, bound + Gap)
BY Bounds DEF Within

LEMMA WarnStep ==
  ASSUME Gap <= Lead, Gap + Lead < Timeout, MaxStream + Lead < Timeout,
         ArrivalInv, WarnInv, [Next]_vars
  PROVE  WarnInv'
<1>i. TimeInv /\ TimeInv' BY TimeStep DEF ArrivalInv
<1>t. /\ Timeout \in Nat /\ Lead \in Nat /\ Gap \in Nat /\ MaxStream \in Nat
      /\ last \in Nat /\ left \in Nat /\ last' \in Nat /\ left' \in Nat /\ notice \in Nat
      /\ open \in Nat /\ last <= Timeout /\ (open > 0 => last <= MaxStream)
      /\ Timeout + Gap \in Nat /\ last + Lead + 1 \in Nat /\ last' + Lead + 1 \in Nat
  BY <1>i, PolicyAssumption, Bounds DEF ArrivalInv, TimeInv, WarnInv
<1>1. CASE term # "none"
  BY <1>1, Over DEF vars, WarnInv, WarnedBeforeReclaim
<1>2. CASE term = "none" /\ term' = "idle"
  <2>1. /\ pc = "sleep" /\ left = 0 /\ last >= Timeout /\ IdleAction = "destroy" /\ Timeout > 0
        /\ notice' = notice
    BY <1>2, <1>t, EndsIdle DEF Due, Reclaims, IdleFor, clock
  <2>2. warnedIdle
    BY <1>2, <1>t, <2>1 DEF WarnInv, Within
  <2>3. notice > 0
    BY <1>2, <1>t, <2>1, <2>2 DEF WarnInv, Within
  <2>4. last + Lead + 1 <= Timeout + Gap + notice
    BY <1>2, <2>1, <2>2, <2>3 DEF WarnInv
  <2>5. notice + Gap > Lead BY <1>t, <2>1, <2>4
  <2> QED BY <1>2, <1>t, <2>1, <2>3, <2>5 DEF WarnInv, WarnedBeforeReclaim
<1>3. CASE term = "none" /\ term' # "idle"
  <2>0. WarnedBeforeReclaim' BY <1>3 DEF WarnedBeforeReclaim
  <2>1. CASE term' # "none" /\ UNCHANGED clock
    BY <1>t, <2>0, <2>1 DEF clock, WarnInv
  <2>2. CASE Watches
    <3>1. /\ last' = last /\ pc = "sleep" /\ left = 0 /\ term' = "none"
          /\ \/ pc' = "probe" /\ left' = ProbeMax
             \/ pc' = "sleep" /\ left' = Poll
          /\ Timeout > 0 => warnedIdle' = NearTimeout
          /\ notice' = IF NearTimeout /\ ~warnedIdle THEN 1 ELSE notice
      BY <2>2 DEF Watches, Due
    <3>2. ASSUME IdleAction = "destroy", Timeout > 0, ~NearTimeout
          PROVE  Within(pc', left', last' + Lead + 1, Timeout + Gap)
      <4>1. last + Lead + 1 <= Timeout
        BY <1>t, <3>2 DEF NearTimeout, IdleFor
      <4> QED BY <1>t, <3>1, <4>1, PolledBy
    <3>3. ASSUME IdleAction = "destroy", Timeout > 0, NearTimeout
          PROVE  notice' > 0 /\ last' + Lead + 1 <= Timeout + Gap + notice'
      <4>1. CASE ~warnedIdle
        <5>1. last + Lead + 1 <= Timeout + Gap
          BY <1>3, <1>t, <3>1, <3>3, <4>1 DEF WarnInv, Within
        <5> QED BY <1>t, <3>1, <3>3, <4>1, <5>1
      <4>2. CASE warnedIdle
        <5>1. notice = 0 => last <= Gap
          BY <1>3, <1>t, <3>1, <3>3, <4>2 DEF WarnInv, Within
        <5>2. IdleFor <= last BY <1>t DEF IdleFor
        <5>3. IdleFor \in Nat BY <1>t DEF IdleFor
        <5>4. notice > 0 BY <1>t, <3>3, <5>1, <5>2, <5>3 DEF NearTimeout
        <5> QED BY <1>3, <3>1, <3>3, <4>2, <5>4 DEF WarnInv
      <4> QED BY <4>1, <4>2
    <3>4. notice' \in Nat BY <1>t, <3>1
    <3> QED BY <1>t, <2>0, <3>1, <3>2, <3>3, <3>4 DEF WarnInv
  <2>3. CASE ProbeOk \/ ProbeFails \/ AskHolds
    <3>1. UNCHANGED <<last, notice, warnedIdle, term>>
      BY <2>3 DEF ProbeOk, ProbeFails, AskHolds, Steady, traffic
    <3>2. /\ pc \in {"probe", "ask"}
          /\ \/ pc' = "sleep" /\ left' = Poll
             \/ pc = "probe" /\ pc' = "ask" /\ left' = AskMax
      BY <2>3 DEF ProbeOk, ProbeFails, AskHolds, Sleeps
    <3> QED BY <1>t, <2>0, <3>1, <3>2, Returned DEF WarnInv
  <2>4. CASE Request \/ ListModels
    <3>1. last' = 0 /\ notice' = 0 /\ UNCHANGED <<pc, left, warnedIdle, term>>
      BY <2>4 DEF Request, ListModels, Beside
    <3>2. Within(pc', left', last', Gap) BY <1>i, <3>1 DEF TimeInv
    <3>3. Within(pc, left, last + Lead + 1, Timeout + Gap)
            => Within(pc', left', last' + Lead + 1, Timeout + Gap)
      BY <1>t, <3>1, NearerBy
    <3> QED BY <2>0, <3>1, <3>2, <3>3 DEF WarnInv
  <2>5. CASE UNCHANGED <<pc, left, last, notice, warnedIdle, term>>
    BY <2>0, <2>5 DEF WarnInv
  <2>6. CASE Tick
    <3>1. /\ UNCHANGED <<pc, warnedIdle, term>> /\ left' = left - 1 /\ left > 0
          /\ last' <= last + 1 /\ last' <= Timeout
          /\ notice' \in Nat /\ (notice = 0 <=> notice' = 0)
          /\ notice > 0 => notice' = notice + 1 \/ notice' >= Timeout
      <4>1. UNCHANGED <<pc, warnedIdle, term>> /\ left' = left - 1 /\ left > 0
        BY <2>6 DEF Tick
      <4>2. last' <= last + 1 /\ last' <= Timeout BY <2>6, <1>t DEF Tick, Up
      <4>3. notice' = IF notice > 0 THEN Up(notice, Timeout + 1) ELSE 0 BY <2>6 DEF Tick, NoticeCap
      <4>4. notice' \in Nat /\ (notice = 0 <=> notice' = 0)
            /\ (notice > 0 => notice' = notice + 1 \/ notice' >= Timeout)
        BY <1>t, <4>3 DEF Up
      <4> QED BY <4>1, <4>2, <4>4
    <3>2. Within(pc, left, last + Lead + 1, Timeout + Gap)
            => Within(pc', left', last' + Lead + 1, Timeout + Gap)
      BY <1>t, <3>1, NearerBy
    <3>3. Within(pc, left, last, Gap) => Within(pc', left', last', Gap)
      BY <1>t, <3>1, NearerBy
    <3>4. notice > 0 /\ last + Lead + 1 <= Timeout + Gap + notice
            => last' + Lead + 1 <= Timeout + Gap + notice'
      <4>1. Lead < Timeout BY <1>t
      <4> QED BY <1>t, <3>1, <4>1, NoticeStep
    <3>5. notice' > 0 => notice > 0 BY <1>t, <3>1
    <3> QED BY <2>0, <3>1, <3>2, <3>3, <3>4, <3>5 DEF WarnInv
  <2> QED
    BY <2>1, <2>2, <2>3, <2>4, <2>5, <2>6, Cases
    DEF Response, Beside, OtherDown, Vanishes, Interrupt, traffic, vars
<1> QED BY <1>1, <1>2, <1>3

\* The operator is warned before an idle reclamation, after the last request and
\* with the lead time less a gap between two polls, whatever the probes and
\* the provider do: where the lead is no shorter than a gap, and the
\* window leaves room for the lead and a gap, or for the lead and what a request
\* streams (Supervise).
THEOREM WarnedInTime ==
  ASSUME Gap <= Lead, Gap + Lead < Timeout, MaxStream + Lead < Timeout
  PROVE  Spec => []WarnedBeforeReclaim
<1>1. Init => ArrivalInv /\ WarnInv
  <2>1. ASSUME Init PROVE Within(pc, left, last + Lead + 1, Timeout + Gap)
    BY <2>1, Bounds, PolicyAssumption DEF Init, Within
  <2>2. Init => notice = 0 /\ warnedIdle = FALSE /\ WarnedBeforeReclaim
    BY DEF Init, WarnedBeforeReclaim
  <2> QED BY <2>1, <2>2, ArrivalInit DEF WarnInv
<1>2. ArrivalInv /\ WarnInv /\ [Next]_vars => (ArrivalInv /\ WarnInv)'
  BY ArrivalStep, WarnStep
<1>3. WarnInv => WarnedBeforeReclaim BY DEF WarnInv
<1> QED BY <1>1, <1>2, <1>3, PTL DEF Spec

=============================================================================
