------------------------------ MODULE PartsProofs ------------------------------
(***************************************************************************)
(* Of the parts that run side by side in MCParts.  Watchdog: for any        *)
(* deadline, grace and beat interval, however many watchdogs a host comes   *)
(* to run and whatever fails between larri and the host, when a watchdog    *)
(* may stop the runtime, and by when it must.  Adapter: for any account,    *)
(* page size and number of rigs, what an ended rig and an orphan are.       *)
(* Market: for any request, listing and hosts, what is rented and launched. *)
(* Cost: for any rates and any number of entries, what a journal comes to.  *)
(* Weights: for any repositories and orders, what a server is started on.   *)
(***************************************************************************)
EXTENDS Watchdog, Adapter, Market, Weights, Cost, FiniteSetTheorems, WellFoundedInduction, TLAPS

-----------------------------------------------------------------------------
(* Watchdog                                                                *)

\* What a watchdog's place in its pass and its grace say of the heartbeat's
\* age: p, s, g and a are its pc, slept and grace, and the age.
Counted(p, s, g, a) ==
  /\ g < MaxGrace
  /\ p = "sleep" /\ ~s => /\ a + 1 <= Deadline + g
                          /\ g = 0 \/ a = 0 \/ Deadline + g <= a + 1
  /\ p = "sleep" /\ s => /\ a <= Deadline + g
                         /\ g = 0 \/ a <= 1 \/ Deadline + g <= a
  /\ p = "decide" => /\ a <= Deadline + g
                     /\ a = 0 \/ Deadline + g <= a

CountInv == \A w \in Running : Counted(wd[w].pc, wd[w].slept, wd[w].grace, age)

\* A host armed since has at least the watchdog it was armed with.
FreshInv ==
  /\ age <= since
  /\ \A w \in Slots :
       wd[w].pc = "decide" /\ stopped = "no" => Deadline <= since \/ \E v \in Running : v # w

\* While larri beats (b), the next beat falls due, or has been sent (d, s),
\* before the link has held (t) or the file has aged (a) for long.
OnTime(b, d, s, t, a) ==
  /\ t <= BeatEvery \/ a <= BeatEvery
  /\ b /\ s => d = BeatEvery
  /\ b /\ ~s => t + d <= BeatEvery \/ a + d <= BeatEvery

BeatInv ==
  /\ link \/ steady = 0
  /\ OnTime(beating, due, sending, steady, age)
  /\ \A w \in Slots : wd[w].pc = "decide" => steady <= BeatEvery

WatchdogInv == TypeOK /\ CountInv /\ FreshInv /\ BeatInv /\ SparedWhileBeating /\ FreshStart /\ GraceForWork

LEMMA Bounds ==
  /\ Deadline \in Nat /\ MaxGrace \in Nat /\ 0 < MaxGrace /\ BeatEvery \in Nat /\ 0 < BeatEvery
  /\ 1 < Deadline /\ BeatEvery < Deadline
  /\ Cap \in Nat /\ Cap = Deadline + MaxGrace + 2
BY WatchdogAssumption DEF Cap

LEMMA Ups ==
  ASSUME NEW x \in 0..Cap
  PROVE  Up(x) \in 0..Cap /\ (Up(x) = x + 1 \/ (Up(x) = x /\ x = Cap))
BY Bounds DEF Up

-----------------------------------------------------------------------------
(* What the clocks do, of a watchdog's count and of the beats              *)

LEMMA CountStarts == ASSUME NEW a \in Nat, a = 0 PROVE Counted("sleep", FALSE, 0, a)
BY Bounds DEF Counted

LEMMA CountTouched ==
  ASSUME NEW p, NEW s, NEW g \in Nat, NEW a \in Nat, NEW b \in Nat, Counted(p, s, g, a), b = 0
  PROVE  Counted(p, s, g, b)
BY Bounds DEF Counted

LEMMA CountSlept ==
  ASSUME NEW g \in Nat, NEW a \in Nat, NEW b \in Nat, Counted("sleep", FALSE, g, a),
         b = a + 1 \/ (b = a /\ a = Cap)
  PROVE  Counted("sleep", TRUE, g, b)
BY Bounds DEF Counted

LEMMA CountLooked ==
  ASSUME NEW g \in Nat, NEW a \in Nat, Counted("sleep", TRUE, g, a)
  PROVE  IF a < Deadline THEN Counted("sleep", FALSE, 0, a) ELSE Counted("decide", TRUE, g, a)
BY Bounds DEF Counted

LEMMA CountWaits ==
  ASSUME NEW g \in Nat, NEW s, NEW a \in Nat, Counted("decide", s, g, a), g + 1 < MaxGrace
  PROVE  Counted("sleep", FALSE, g + 1, a)
BY Bounds DEF Counted

LEMMA CountSlot ==
  ASSUME NEW p, NEW s, NEW t, NEW g \in Nat, NEW a \in Nat, Counted(p, s, g, a),
         p = "decide" \/ s = t
  PROVE  Counted(p, t, g, a)
BY DEF Counted

LEMMA BeatCut ==
  ASSUME NEW b, NEW s, NEW d \in 0..BeatEvery, NEW t, NEW a \in Nat, OnTime(b, d, s, t, a)
  PROVE  OnTime(b, d, s, 0, a)
BY Bounds DEF OnTime

LEMMA BeatPassed ==
  ASSUME NEW b \in BOOLEAN, NEW d \in Nat, NEW e \in Nat, NEW t \in Nat, NEW u \in Nat,
         NEW a \in Nat, NEW c \in Nat, OnTime(b, d, FALSE, t, a),
         b => d > 0 /\ e = d - 1,
         c = a + 1 \/ c = a, u = 0 \/ (b /\ (u = t + 1 \/ u = t)), d <= BeatEvery
  PROVE  OnTime(b, e, FALSE, u, c)
BY Bounds DEF OnTime

-----------------------------------------------------------------------------
(* The steps of the system                                                 *)

\* What a step does to the watchdogs: nothing a count depends on.
SameDogs ==
  /\ wd' \in [Slots -> Dog]
  /\ \A w \in Slots : wd'[w].pc = wd[w].pc /\ wd'[w].slept = wd[w].slept /\ wd'[w].grace = wd[w].grace

LEMMA MarksSame ==
  ASSUME TypeOK, NEW f \in {"grown", "moved"}, wd' = Marks(f)
  PROVE  SameDogs
BY DEF TypeOK, Marks, Running, SameDogs, Dog

\* Steps of larri's and of the host's that leave the counts alone.
Quiet == ArmFails \/ BeatDue \/ BeatMissed \/ Crash \/ Adopt \/ Logs \/ Downloads \/ Works \/ LinkChanges

LEMMA QuietSame ==
  ASSUME TypeOK, Quiet
  PROVE  SameDogs /\ stopped = "no" /\ UNCHANGED <<age, since, stopped>>
<1>1. CASE Logs
  BY <1>1, MarksSame DEF Logs, Serving, SameDogs, TypeOK, Dog, local
<1>2. CASE Downloads
  BY <1>2, MarksSame DEF Downloads, Serving, local
<1>3. CASE ArmFails \/ BeatDue \/ BeatMissed \/ Crash \/ Adopt \/ Works \/ LinkChanges
  BY <1>3 DEF ArmFails, BeatDue, BeatMissed, Crash, Adopt, Works, LinkChanges, Serving, SameDogs,
              TypeOK, Dog, local, host
<1> QED BY <1>1, <1>2, <1>3 DEF Quiet

LEMMA QuietTypes ==
  ASSUME TypeOK, Quiet
  PROVE  /\ larri' \in {"kill", "arm", "here", "gone"} /\ beating' \in BOOLEAN
         /\ due' \in 0..BeatEvery /\ sending' \in BOOLEAN /\ link' \in BOOLEAN
         /\ log' \in BOOLEAN /\ busy' \in BOOLEAN
         /\ steady' \in 0..Cap /\ idle' \in 0..Cap
<1>1. 0 \in 0..BeatEvery /\ 0 \in 0..Cap /\ BeatEvery \in 0..BeatEvery BY Bounds
<1> QED
  BY <1>1 DEF Quiet, ArmFails, BeatDue, BeatMissed, Crash, Adopt, Logs, Downloads, Works,
              LinkChanges, TypeOK, local, host

LEMMA OffDog == Off \in Dog /\ (TypeOK => Armed \in Dog)
<1>1. Off \in Dog BY Bounds DEF Off, Dog
<1>2. ASSUME log \in BOOLEAN PROVE Armed \in Dog BY <1>1, <1>2 DEF Armed, Dog
<1> QED BY <1>1, <1>2 DEF TypeOK

LEMMA QuietBeats ==
  ASSUME TypeOK, BeatInv, Quiet
  PROVE  OnTime(beating, due, sending, steady, age)' /\ steady' \in 0..Cap /\ steady' <= steady /\ (link \/ steady = 0)'
<1> USE Bounds DEF TypeOK
<1>1. CASE Logs \/ Downloads \/ Works
  BY <1>1 DEF Logs, Downloads, Works, local, BeatInv, OnTime
<1>2. CASE ArmFails \/ Crash
  BY <1>2 DEF ArmFails, Crash, BeatInv, OnTime
<1>3. CASE Adopt
  BY <1>3 DEF Adopt, BeatInv, OnTime
<1>4. CASE BeatDue
  BY <1>4 DEF BeatDue, BeatInv, OnTime
<1>5. CASE BeatMissed
  BY <1>5 DEF BeatMissed, BeatInv, OnTime
<1>6. CASE LinkChanges
  <2>1. steady' = 0 /\ UNCHANGED <<beating, due, sending, age>> BY <1>6 DEF LinkChanges, local
  <2>2. OnTime(beating, due, sending, 0, age) BY BeatCut DEF BeatInv
  <2>3. 0 \in 0..Cap /\ 0 <= steady OBVIOUS
  <2> QED BY <2>1, <2>2, <2>3 DEF OnTime
<1> QED BY <1>1, <1>2, <1>3, <1>4, <1>5, <1>6 DEF Quiet

LEMMA InitInv == Init => WatchdogInv
<1> SUFFICES ASSUME Init PROVE WatchdogInv OBVIOUS
<1>0. Off \in Dog BY Bounds DEF Off, Dog
<1>1. TypeOK
  <2>1. 0 \in 0..BeatEvery /\ 0 \in 0..Cap BY Bounds
  <2>2. wd \in [Slots -> Dog] BY <1>0 DEF Init
  <2> QED BY <2>1, <2>2 DEF Init, TypeOK
<1>2. Running = {} BY DEF Init, Running, Off
<1>3. CountInv /\ FreshInv BY <1>2 DEF Init, CountInv, FreshInv, Off
<1>4. OnTime(beating, due, sending, steady, age) BY Bounds DEF Init, OnTime
<1>5. BeatInv BY <1>4 DEF Init, BeatInv, Off
<1>6. SparedWhileBeating /\ FreshStart /\ GraceForWork
  BY DEF Init, SparedWhileBeating, FreshStart, GraceForWork
<1> QED BY <1>1, <1>3, <1>5, <1>6 DEF WatchdogInv

LEMMA TypeStep == ASSUME TypeOK, [Next]_vars PROVE TypeOK'
<1>0. 0 \in 0..BeatEvery /\ 0 \in 0..Cap /\ BeatEvery \in 0..BeatEvery BY Bounds
<1> USE <1>0 DEF TypeOK
<1>1. CASE Quiet
  <2>1. wd' \in [Slots -> Dog] /\ UNCHANGED <<age, since, stopped>> BY <1>1, QuietSame DEF SameDogs
  <2> QED BY <1>1, <2>1, QuietTypes
<1>2. CASE ArmKill
  <2>1. wd' \in [Slots -> Dog] BY <1>2, OffDog DEF ArmKill
  <2> QED BY <1>2, <2>1 DEF ArmKill
<1>3. CASE ArmInstall
  <2>1. wd' \in [Slots -> Dog] BY <1>3, OffDog DEF ArmInstall
  <2> QED BY <1>3, <2>1 DEF ArmInstall
<1>4. CASE Beat
  BY <1>4 DEF Beat, host
<1>5. ASSUME NEW w \in Slots, Look(w) \/ Wait(w) \/ Stop(w) PROVE TypeOK'
  <2>1. wd' \in [Slots -> Dog]
    BY <1>5, OffDog, Bounds DEF Look, Wait, Stop, Sleeps, Dog
  <2> QED BY <1>5, <2>1 DEF Look, Wait, Stop, local
<1>6. CASE Tick
  <2>0. \A w \in Slots : (IF w \in Running THEN [wd[w] EXCEPT !.slept = TRUE] ELSE wd[w]) \in Dog
    BY DEF Dog
  <2>1. wd' \in [Slots -> Dog] BY <1>6, <2>0 DEF Tick
  <2>2. due' \in 0..BeatEvery BY <1>6, Bounds DEF Tick
  <2>3. age' \in 0..Cap /\ since' \in 0..Cap /\ idle' \in 0..Cap /\ steady' \in 0..Cap
    BY <1>6, Ups DEF Tick
  <2> QED BY <1>6, <2>1, <2>2, <2>3 DEF Tick
<1>7. CASE UNCHANGED vars
  BY <1>7 DEF vars
<1> QED BY <1>1, <1>2, <1>3, <1>4, <1>5, <1>6, <1>7 DEF Next, Quiet

LEMMA CountStep == ASSUME TypeOK, CountInv, [Next]_vars PROVE CountInv'
<1> USE DEF CountInv, Running
<1>0. \A w \in Slots : wd[w].grace \in Nat /\ age \in 0..Cap /\ age \in Nat
  BY Bounds DEF TypeOK, Dog
<1>1. CASE Quiet
  BY <1>1, QuietSame DEF SameDogs
<1>2. CASE ArmKill
  BY <1>2 DEF ArmKill, Off
<1>3. CASE ArmInstall
  <2>1. PICK v \in Slots : wd' = [wd EXCEPT ![v] = Armed] BY <1>3 DEF ArmInstall
  <2>2. age' = 0 BY <1>3 DEF ArmInstall
  <2>3. ASSUME NEW w \in Running' PROVE Counted(wd'[w].pc, wd'[w].slept, wd'[w].grace, age')
    <3>1. CASE w = v BY <3>1, <2>1, <2>2, CountStarts DEF Armed, Off, TypeOK
    <3>2. CASE w # v BY <3>2, <2>1, <2>2, <2>3, <1>0, CountTouched DEF TypeOK
    <3> QED BY <3>1, <3>2
  <2> QED BY <2>3
<1>4. CASE Beat
  BY <1>4, <1>0, CountTouched DEF Beat, host
<1>5. ASSUME NEW v \in Slots, Look(v) PROVE CountInv'
  <2>1. Counted("sleep", TRUE, wd[v].grace, age) BY <1>5 DEF Look, TypeOK, Dog
  <2>2. IF age < Deadline THEN Counted("sleep", FALSE, 0, age) ELSE Counted("decide", TRUE, wd[v].grace, age)
    BY <2>1, <1>0, CountLooked
  <2>3. CASE age < Deadline BY <1>5, <2>2, <2>3 DEF Look, Sleeps, TypeOK, Dog
  <2>4. CASE ~(age < Deadline)
    <3>1. wd' = [wd EXCEPT ![v].pc = "decide"] /\ UNCHANGED age BY <1>5, <2>4 DEF Look
    <3>2. wd[v].slept = TRUE BY <1>5 DEF Look, TypeOK, Dog
    <3> QED BY <3>1, <3>2, <2>2, <2>4 DEF TypeOK, Dog
  <2> QED BY <2>3, <2>4
<1>6. ASSUME NEW v \in Slots, Wait(v) PROVE CountInv'
  <2>1. Counted("sleep", FALSE, wd[v].grace + 1, age) BY <1>6, <1>0, CountWaits DEF Wait
  <2> QED BY <1>6, <2>1 DEF Wait, Sleeps, TypeOK, Dog
<1>7. ASSUME NEW v \in Slots, Stop(v) PROVE CountInv'
  BY <1>7 DEF Stop, Off, TypeOK
<1>8. CASE Tick
  <2>1. age' = age + 1 \/ (age' = age /\ age = Cap) BY <1>0, <1>8, Ups DEF Tick, TypeOK
  <2>2. age' \in Nat BY <2>1, Bounds DEF TypeOK
  <2>3. ASSUME NEW w \in Running' PROVE Counted(wd'[w].pc, wd'[w].slept, wd'[w].grace, age')
    <3>1. w \in Running /\ wd[w].pc = "sleep" /\ wd[w].slept = FALSE
      BY <1>8, <2>3 DEF Tick, TypeOK, Dog
    <3>2. wd'[w].pc = "sleep" /\ wd'[w].slept = TRUE /\ wd'[w].grace = wd[w].grace
      BY <1>8, <3>1 DEF Tick, TypeOK, Dog
    <3> QED BY <3>1, <3>2, <2>1, <2>2, <1>0, CountSlept
  <2> QED BY <2>3
<1>9. CASE UNCHANGED vars
  BY <1>9 DEF vars
<1> QED BY <1>1, <1>2, <1>3, <1>4, <1>5, <1>6, <1>7, <1>8, <1>9 DEF Next, Quiet

LEMMA FreshStep == ASSUME TypeOK, FreshInv, FreshStart, [Next]_vars PROVE FreshInv' /\ FreshStart'
<1> USE DEF FreshInv, FreshStart, Running
<1>0. age \in 0..Cap /\ since \in 0..Cap BY DEF TypeOK
<1>1. CASE Quiet
  BY <1>1, QuietSame DEF SameDogs
<1>2. CASE ArmKill
  BY <1>2 DEF ArmKill, Off, Serving
<1>3. CASE ArmInstall
  <2>1. PICK v \in Slots \ Running : wd' = [wd EXCEPT ![v] = Armed] BY <1>3 DEF ArmInstall
  <2>2. wd'[v].pc = "sleep" BY <2>1 DEF TypeOK, Armed, Off
  <2>3. \A w \in Slots : w # v => wd'[w] = wd[w] BY <2>1 DEF TypeOK
  <2>4. age' = 0 /\ since' = 0 /\ stopped' = "no" BY <1>3 DEF ArmInstall, Serving
  <2> QED BY <2>2, <2>3, <2>4
<1>4. CASE Beat
  BY <1>4, <1>0 DEF Beat, host, Serving
<1>5. ASSUME NEW v \in Slots, Look(v) PROVE FreshInv' /\ FreshStart'
  <2>1. \A w \in Slots : (wd'[w].pc = "off" <=> wd[w].pc = "off")
    BY <1>5 DEF Look, Sleeps, TypeOK, Dog
  <2>2. \A w \in Slots : wd'[w].pc = "decide" => wd[w].pc = "decide" \/ (w = v /\ ~(age < Deadline))
    BY <1>5 DEF Look, Sleeps, TypeOK, Dog
  <2>3. ~(age < Deadline) => Deadline <= since BY <1>0, Bounds
  <2>4. stopped' = "no" /\ UNCHANGED <<age, since>> BY <1>5 DEF Look, Serving
  <2>5. Running' = Running BY <2>1
  <2>6. \A w \in Slots : wd'[w].pc = "decide" => Deadline <= since \/ \E u \in Running : u # w
    BY <2>2, <2>3, <1>5 DEF Look, Serving
  <2> HIDE DEF Running
  <2> QED BY <2>4, <2>5, <2>6
<1>6. ASSUME NEW v \in Slots, Wait(v) PROVE FreshInv' /\ FreshStart'
  BY <1>6 DEF Wait, Sleeps, TypeOK, Dog, Serving
<1>7. ASSUME NEW v \in Slots, Stop(v) PROVE FreshInv' /\ FreshStart'
  <2>1. stopped = "no" /\ UNCHANGED <<age, since>> /\ wd[v].pc = "decide" /\ wd'[v].pc = "off" /\
        \A w \in Slots : w # v => wd'[w] = wd[w]
    BY <1>7 DEF Stop, Off, TypeOK, Serving
  <2>2. Deadline <= since \/ \E w \in Slots : w # v /\ wd'[w].pc # "off" BY <2>1
  <2>3. Deadline <= since \/ Running' # {} BY <2>2
  <2>4. stopped' # "no" BY <1>7 DEF Stop
  <2> QED BY <2>1, <2>3, <2>4
<1>8. CASE Tick
  <2>1. age' <= since' BY <1>0, <1>8, Bounds DEF Tick, Up
  <2>2. \A w \in Slots : wd'[w].pc # "decide" BY <1>8 DEF Tick, TypeOK, Dog
  <2> QED BY <1>8, <2>1, <2>2 DEF Tick, Serving
<1>9. CASE UNCHANGED vars
  BY <1>9 DEF vars
<1> QED BY <1>1, <1>2, <1>3, <1>4, <1>5, <1>6, <1>7, <1>8, <1>9 DEF Next, Quiet

LEMMA TickClocks ==
  ASSUME TypeOK, Tick
  PROVE  /\ age \in Nat /\ age' \in Nat /\ (age' = age + 1 \/ age' = age)
         /\ steady \in Nat /\ steady' \in Nat
         /\ (steady' = 0 \/ (beating /\ (steady' = steady + 1 \/ steady' = steady)))
         /\ due \in 0..BeatEvery /\ due' \in Nat /\ (beating => due > 0 /\ due' = due - 1)
<1>1. Up(age) \in 0..Cap /\ (Up(age) = age + 1 \/ Up(age) = age) BY Ups DEF TypeOK
<1>2. Up(steady) \in 0..Cap /\ (Up(steady) = steady + 1 \/ Up(steady) = steady) BY Ups DEF TypeOK
<1>3. due \in 0..BeatEvery /\ age \in 0..Cap /\ steady \in 0..Cap BY DEF TypeOK
<1> QED BY <1>1, <1>2, <1>3, Bounds DEF Tick

LEMMA BeatStep ==
  ASSUME TypeOK, BeatInv, SparedWhileBeating, [Next]_vars
  PROVE  BeatInv' /\ SparedWhileBeating'
<1> USE DEF BeatInv, SparedWhileBeating
<1>0. age \in 0..Cap /\ steady \in 0..Cap /\ due \in 0..BeatEvery /\ beating \in BOOLEAN /\ sending \in BOOLEAN
  BY DEF TypeOK
<1>1. CASE Quiet
  <2>1. steady' \in Nat /\ steady \in Nat /\ steady' <= steady BY <1>0, <1>1, QuietBeats, Bounds
  <2>2. steady <= BeatEvery => steady' <= BeatEvery BY <2>1, Bounds
  <2> QED BY <1>1, <2>2, QuietBeats, QuietSame DEF SameDogs
<1>2. CASE ArmKill
  BY <1>2 DEF ArmKill, Off, Serving
<1>3. CASE ArmInstall
  <2>1. OnTime(TRUE, BeatEvery, FALSE, 0, 0) BY Bounds DEF OnTime
  <2>2. beating' = TRUE /\ due' = BeatEvery /\ sending' = FALSE /\ steady' = 0 /\ age' = 0 /\ stopped' = "no"
    BY <1>3 DEF ArmInstall, Serving
  <2>3. OnTime(beating, due, sending, steady, age)' BY <2>1, <2>2
  <2>4. 0 <= BeatEvery BY Bounds
  <2> QED BY <2>2, <2>3, <2>4
<1>4. CASE Beat
  <2>1. OnTime(beating, due, FALSE, steady, 0) BY <1>0, <1>4, Bounds DEF OnTime, Beat
  <2> QED BY <1>4, <2>1 DEF Beat, host, Serving
<1>5. ASSUME NEW v \in Slots, Look(v) PROVE BeatInv' /\ SparedWhileBeating'
  <2>1. \A w \in Slots : wd'[w].pc = "decide" => wd[w].pc = "decide" \/ ~(age < Deadline)
    BY <1>5 DEF Look, Sleeps, TypeOK, Dog
  <2>2. ~(age < Deadline) => steady <= BeatEvery BY <1>0, Bounds DEF OnTime
  <2> QED BY <1>5, <2>1, <2>2 DEF Look, Serving, local
<1>6. ASSUME NEW v \in Slots, Wait(v) PROVE BeatInv' /\ SparedWhileBeating'
  BY <1>6 DEF Wait, Sleeps, TypeOK, Dog, Serving, local
<1>7. ASSUME NEW v \in Slots, Stop(v) PROVE BeatInv' /\ SparedWhileBeating'
  BY <1>7 DEF Stop, Off, TypeOK, Serving, local
<1>8. CASE Tick
  <2>1. OnTime(beating, due', FALSE, steady', age')
    <3>1. due \in Nat /\ due <= BeatEvery BY <1>0, Bounds
    <3>2. sending = FALSE BY <1>0, <1>8 DEF Tick
    <3>3. OnTime(beating, due, FALSE, steady, age) BY <3>2
    <3> QED BY <1>0, <1>8, <3>1, <3>3, BeatPassed, TickClocks
  <2>2. \A w \in Slots : wd'[w].pc # "decide" BY <1>8 DEF Tick, TypeOK, Dog, Running
  <2>3. sending = FALSE /\ sending' = FALSE /\ beating' = beating /\ link' = link /\ stopped' = "no"
    BY <1>0, <1>8 DEF Tick, Serving
  <2>4. link \/ steady' = 0 BY <1>8 DEF Tick
  <2> QED BY <2>1, <2>2, <2>3, <2>4
<1>9. CASE UNCHANGED vars
  BY <1>9 DEF vars
<1> QED BY <1>1, <1>2, <1>3, <1>4, <1>5, <1>6, <1>7, <1>8, <1>9 DEF Next, Quiet

LEMMA GraceStep ==
  ASSUME TypeOK, CountInv, GraceForWork, [Next]_vars
  PROVE  GraceForWork'
<1> USE DEF GraceForWork
<1>1. CASE stopped # "no"
  BY <1>1 DEF Next, vars, Serving, ArmKill, ArmInstall, ArmFails, BeatDue, Beat, BeatMissed, Crash,
              Adopt, Look, Wait, Stop, Logs, Downloads, Works, LinkChanges, Tick
<1>2. CASE stopped = "no" /\ \E w \in Slots : Stop(w)
  <2>1. PICK w \in Slots : Stop(w) BY <1>2
  <2>2. Counted("decide", wd[w].slept, wd[w].grace, age) BY <2>1 DEF Stop, CountInv, Running
  <2>3. wd[w].grace \in Nat /\ age \in Nat BY Bounds DEF TypeOK, Dog
  <2>4. CASE Reason(w)
    <3>1. wd[w].grace + 1 >= MaxGrace BY <2>1, <2>4 DEF Stop
    <3>2. age = 0 \/ age + 1 >= Deadline + MaxGrace BY <2>2, <2>3, <3>1, Bounds DEF Counted
    <3> QED BY <2>1, <3>2 DEF Stop
  <2>5. CASE ~Reason(w) BY <2>1, <2>5 DEF Stop
  <2> QED BY <2>4, <2>5
<1>3. CASE stopped = "no" /\ ~\E w \in Slots : Stop(w)
  BY <1>3 DEF Next, vars, ArmKill, ArmInstall, ArmFails, BeatDue, Beat, BeatMissed, Crash,
              Adopt, Look, Wait, Logs, Downloads, Works, LinkChanges, Tick, host
<1> QED BY <1>1, <1>2, <1>3

LEMMA NextInv == ASSUME WatchdogInv, [Next]_vars PROVE WatchdogInv'
BY TypeStep, CountStep, FreshStep, BeatStep, GraceStep DEF WatchdogInv

THEOREM InvHolds == Spec => []WatchdogInv
BY InitInv, NextInv, PTL DEF Spec

-----------------------------------------------------------------------------
(* The results                                                             *)

\* The model's types, for any number of watchdogs.
THEOREM WatchdogType == Spec => []TypeOK
<1>1. WatchdogInv => TypeOK BY DEF WatchdogInv
<1> QED BY <1>1, InvHolds, PTL

\* While larri beats over a link that holds, no watchdog stops the runtime.
THEOREM SparedHolds == Spec => []SparedWhileBeating
<1>1. WatchdogInv => SparedWhileBeating BY DEF WatchdogInv
<1> QED BY <1>1, InvHolds, PTL

\* A host armed again has its whole deadline.
THEOREM FreshHolds == Spec => []FreshStart
<1>1. WatchdogInv => FreshStart BY DEF WatchdogInv
<1> QED BY <1>1, InvHolds, PTL

\* A busy host has all of its grace.
THEOREM GraceHolds == Spec => []GraceForWork
<1>1. WatchdogInv => GraceForWork BY DEF WatchdogInv
<1> QED BY <1>1, InvHolds, PTL

\* A host with a watchdog is stopped before its deadline and grace are over,
\* however busy it looks.
THEOREM AbandonedHolds == Spec => []AbandonedStops
<1>1. ASSUME WatchdogInv, Serving, NEW w \in Running PROVE age < Deadline + MaxGrace
  <2>1. wd[w].grace \in Nat /\ age \in Nat /\ wd[w].pc \in {"sleep", "decide"} /\ wd[w].slept \in BOOLEAN
    BY <1>1, Bounds DEF WatchdogInv, TypeOK, Dog, Running
  <2>2. Counted(wd[w].pc, wd[w].slept, wd[w].grace, age) BY <1>1 DEF WatchdogInv, CountInv
  <2> QED BY <2>1, <2>2, Bounds DEF Counted
<1>2. WatchdogInv => AbandonedStops BY <1>1 DEF AbandonedStops
<1> QED BY <1>2, InvHolds, PTL

-----------------------------------------------------------------------------
(* Adapter                                                                 *)

\* A set of numbers that is not empty has a least one, and below a bound a
\* greatest: the theorems with a predicate for a parameter are not needed.
LEMMA LeastNumber ==
  ASSUME NEW T, T \subseteq Nat, T # {}
  PROVE  \E x \in T : \A y \in T : x <= y
<1>1. \E x \in T : \A y \in T : ~(<<y, x>> \in OpToRel(<, Nat))
  BY NatLessThanWellFounded, WFMin
<1>2. \A x, y \in Nat : <<y, x>> \in OpToRel(<, Nat) <=> y < x
  BY DEF OpToRel
<1>3. PICK x \in T : \A y \in T : ~(y < x) BY <1>1, <1>2
<1> QED BY <1>3

LEMMA GreatestNumber ==
  ASSUME NEW n \in Nat, NEW T, T \subseteq 0..n, T # {}
  PROVE  \E x \in T : \A y \in T : y <= x
<1> DEFINE U == {k \in Nat : \E t \in T : k = n - t}
<1>1. U \subseteq Nat /\ U # {}
  <2>1. PICK t \in T : t \in 0..n OBVIOUS
  <2>2. n - t \in U BY <2>1
  <2> QED BY <2>2
<1>2. PICK k \in U : \A j \in U : k <= j BY <1>1, LeastNumber
<1>3. PICK x \in T : k = n - x /\ x \in 0..n BY <1>2
<1>4. ASSUME NEW y \in T PROVE y <= x
  <2>1. y \in 0..n /\ n - y \in U OBVIOUS
  <2>2. k <= n - y BY <1>2, <2>1
  <2> QED BY <1>3, <2>1, <2>2
<1> QED BY <1>4

LEMMA AdapterConstants ==
  /\ Kind \in {"vastai", "runpod"} /\ Lost \notin Rigs /\ Sweep \notin Rigs
  /\ Machines \in Nat /\ PageMax \in Nat /\ 1 <= PageMax
  /\ Details \in Seq(STRING) /\ Len(Details) \in Nat /\ "ok" \notin LateAfter
  /\ \A i \in 1..Machines : i \in Nat
BY AdapterAssumption

-----------------------------------------------------------------------------
(* Labels, and pages                                                       *)

\* Labels that read back as what they name: always at Vast.ai, whose adapter
\* takes them apart, and at RunPod with nothing behind the identifier.
ReadsBack == Kind = "vastai" \/ Details = <<>>

LEMMA LabelReads ==
  ASSUME NEW r, NEW kept \in 0..Len(Details)
  PROVE  /\ DecodeLabel(EncodeLabel(r, kept)) = <<r>>
         /\ Details = <<>> => EncodeLabel(r, kept) = <<r>>
<1>1. SubSeq(Details, 1, kept) \in Seq(STRING) BY AdapterConstants
<1>2. <<r>> \in Seq({r}) /\ Len(<<r>>) = 1 OBVIOUS
<1>3. Head(<<r>> \o SubSeq(Details, 1, kept)) = r
  <2>1. (<<r>> \o SubSeq(Details, 1, kept))[1] = r BY <1>1, <1>2
  <2> QED BY <1>1, <2>1
<1>4. ASSUME Details = <<>> PROVE EncodeLabel(r, kept) = <<r>>
  <2>1. SubSeq(Details, 1, kept) = <<>> BY <1>4
  <2>2. <<r>> \o <<>> = <<r>> OBVIOUS
  <2> QED BY <2>1, <2>2 DEF EncodeLabel
<1> QED BY <1>3, <1>4 DEF DecodeLabel, EncodeLabel

\* A page reaches as far as its last machine, and there is one while any is left.
LEMMA Pages ==
  ASSUME There \subseteq 1..Machines, NEW after \in Nat
  PROVE  /\ Page(after) \subseteq {i \in There : i > after}
         /\ Page(after) = {} => {i \in There : i > after} = {}
         /\ Page(after) # {} =>
              LET last == CHOOSE i \in Page(after) : \A j \in Page(after) : j <= i
              IN /\ last \in Page(after)
                 /\ \A i \in There : i > after /\ i <= last => i \in Page(after)
<1> DEFINE rest == {i \in There : i > after}
           upto(i) == {j \in rest : j <= i}
           page == Page(after)
           last == CHOOSE i \in page : \A j \in page : j <= i
<1>c. /\ Machines \in Nat /\ PageMax \in Nat /\ 1 <= PageMax /\ 1..Machines \subseteq Nat
      /\ Kind \in {"vastai", "runpod"}
  BY AdapterConstants
<1>1. rest \subseteq 1..Machines /\ IsFiniteSet(1..Machines) /\ IsFiniteSet(rest)
  <2>1. IsFiniteSet(1..Machines) BY <1>c, FS_Interval
  <2> QED BY <2>1, FS_Subset
<1>2. page \subseteq rest BY DEF Page
<1>u. \A a, b \in Nat : a <= b => upto(a) \subseteq upto(b) BY <1>1, <1>c
<1>3. ASSUME rest # {} PROVE page # {}
  <2>1. PICK m \in rest : \A j \in rest : m <= j BY <1>1, <1>3, <1>c, LeastNumber
  <2>2. upto(m) = {m} BY <1>1, <1>c, <2>1
  <2>3. Cardinality(upto(m)) = 1 BY <2>2, FS_Singleton
  <2>4. m \in page BY <1>c, <2>1, <2>3 DEF Page
  <2> QED BY <2>4
<1>4. ASSUME page # {} PROVE last \in page /\ \A j \in page : j <= last
  <2>1. page \subseteq 0..Machines BY <1>1, <1>2, <1>c
  <2>2. \E i \in page : \A j \in page : j <= i BY <1>4, <1>c, <2>1, GreatestNumber
  <2> QED BY <2>2
<1>5. ASSUME page # {}, NEW i \in There, i > after, i <= last PROVE i \in page
  <2>1. last \in page /\ i \in rest /\ i \in Nat /\ last \in Nat
    BY <1>1, <1>2, <1>4, <1>5, <1>c
  <2>2. CASE Kind = "runpod" BY <2>1, <2>2 DEF Page
  <2>3. CASE Kind = "vastai"
    <3>0. \A b \in Nat : i <= b => upto(i) \subseteq upto(b) BY <1>u, <2>1
    <3>1. upto(i) \subseteq upto(last) BY <1>5, <2>1, <3>0
    <3>2. IsFiniteSet(upto(last)) BY <1>1, FS_Subset
    <3>3. /\ Cardinality(upto(i)) <= Cardinality(upto(last))
          /\ Cardinality(upto(i)) \in Nat /\ Cardinality(upto(last)) \in Nat
      BY <3>1, <3>2, FS_Subset, FS_CardinalityType
    <3>4. Cardinality(upto(last)) <= PageMax BY <2>1, <2>3 DEF Page
    <3>5. Cardinality(upto(i)) <= PageMax BY <1>c, <3>3, <3>4
    <3> QED BY <2>1, <2>3, <3>5 DEF Page
  <2> QED BY <1>c, <2>2, <2>3
<1> QED BY <1>2, <1>3, <1>4, <1>5

-----------------------------------------------------------------------------
(* What the account, the record and the listings know of each other        *)

RigStates == {"none", "creating", "rented", "failed", "ending", "confirming", "unconfirmed",
              "ended", "left", "closed"}
MachineStates == {"unused", "asked", "coming", "there", "gone"}
Label == Seq(Rigs \cup {Lost} \cup STRING)
Machine == [state : MachineStates, rig : Rigs \cup {Lost}, ours : BOOLEAN, label : Label]
ErrorClass == {"none", "unknown", "transient", "model", "host"}
Record == [state : RigStates, instance : 0..Machines, class : ErrorClass]
Reading == [kind : {"open", "full", "failed"}, got : SUBSET (1..Machines), lost : SUBSET (1..Machines),
            after : 0..Machines, since : SUBSET (1..Machines)]
Swept == [state : {"idle", "listing", "destroying", "over"}, orphans : SUBSET (1..Machines),
          blind : BOOLEAN, lost : SUBSET (1..Machines), wronged : SUBSET (1..Machines), missed : SUBSET (1..Machines)]

AdapterTypes ==
  /\ machine \in [1..Machines -> Machine]
  /\ rig \in [Rigs -> Record]
  /\ listing \in [Rigs \cup {Sweep} -> Reading \cup {None}]
  /\ sweep \in Swept

\* A machine of larri's carries the label of the rig it was created for, and a
\* rig has at most one: none before its create, and the one it knows from then on.
Mine(r) == {i \in 1..Machines : machine[i].ours /\ machine[i].rig = r}
Knows == {"creating", "rented", "ending", "confirming", "unconfirmed", "ended"}
OwnMachine ==
  /\ \A i \in 1..Machines :
       /\ machine[i].ours =>
            \E kept \in 0..Len(Details) : machine[i].label = EncodeLabel(machine[i].rig, kept)
       /\ machine[i].state \in {"asked", "coming"} => machine[i].ours
  /\ \A r \in Rigs :
       /\ rig[r].state = "none" => Mine(r) = {}
       /\ \A i, j \in Mine(r) : i = j
       /\ rig[r].state \in Knows => rig[r].instance \in Mine(r)

\* How far a rig's machine can be from what its record says; the record tells
\* whether there can be one, except of a machine that was denied.
Standing(state, class, m, i, denied) ==
  /\ m # "unused"
  /\ state # "creating" => m # "asked"
  /\ state = "creating" => m \in {"asked", "there", "gone"}
  /\ state \in {"rented", "ending", "confirming", "unconfirmed"} => m \in {"there", "gone"}
  /\ i \notin denied =>
       /\ m = "coming" => state = "left" \/ (state = "failed" /\ class = "unknown")
       /\ state \in {"closed", "ended"} => m = "gone"
InPlace == \A r \in Rigs : \A i \in Mine(r) : Standing(rig[r].state, rig[r].class, machine[i].state, i, misled)

\* A listing has what was there when it began and still is, as far as it got, or
\* has lost it; and one of a failed create that cannot land any more began with its
\* machine.
Been == {i \in 1..Machines : machine[i].state \in {"there", "gone"}}
Covered(l) ==
  /\ l.got \subseteq Been /\ l.since \subseteq Been
  /\ l.kind = "open" => \A i \in l.since \cap There : i <= l.after => i \in l.got \cup l.lost
  /\ l.kind = "full" => l.since \cap There \subseteq l.got \cup l.lost
Listings ==
  /\ \A a \in Rigs \cup {Sweep} : listing[a] # None => Covered(listing[a])
  /\ \A r \in Rigs : listing[r] # None => rig[r].state = "failed"
  /\ \A r \in Rigs : listing[r] # None /\ rig[r].class # "unknown" =>
       (Mine(r) \cap There) \ misled \subseteq listing[r].since

AdapterInv ==
  AdapterTypes /\ OwnMachine /\ InPlace /\ Listings /\ SweepTellsOrphans

LEMMA LabelTypes == ASSUME NEW r \in Rigs \cup {Lost}, NEW kept \in 0..Len(Details)
                    PROVE  EncodeLabel(r, kept) \in Label
<1>1. Details \in Seq(Rigs \cup {Lost} \cup STRING)
  <2>1. Details \in Seq(STRING) /\ STRING \subseteq Rigs \cup {Lost} \cup STRING BY AdapterConstants
  <2> QED BY <2>1
<1>2. SubSeq(Details, 1, kept) \in Seq(Rigs \cup {Lost} \cup STRING)
  BY <1>1, AdapterConstants
<1>3. <<r>> \in Seq(Rigs \cup {Lost} \cup STRING) OBVIOUS
<1> QED BY <1>2, <1>3 DEF EncodeLabel, Label

\* What a label of larri's is read as names its rig.
LEMMA ReadAs ==
  ASSUME ReadsBack, AdapterTypes, OwnMachine, NEW i \in 1..Machines
  PROVE  IF machine[i].ours THEN RigID(i) = <<machine[i].rig>> ELSE RigID(i) = <<>>
<1>1. CASE ~machine[i].ours BY <1>1 DEF RigID
<1>2. CASE machine[i].ours
  <2>1. PICK kept \in 0..Len(Details) : machine[i].label = EncodeLabel(machine[i].rig, kept)
    BY <1>2 DEF OwnMachine
  <2>2. /\ DecodeLabel(machine[i].label) = <<machine[i].rig>>
        /\ Details = <<>> => machine[i].label = <<machine[i].rig>>
    BY <2>1, LabelReads
  <2>3. Kind # "runpod" \/ Details = <<>> BY DEF ReadsBack
  <2> QED BY <1>2, <2>2, <2>3 DEF RigID
<1> QED BY <1>1, <1>2

\* What a machine may come to.
Advances(m, n) ==
  \/ n = m
  \/ m \in {"asked", "coming"} /\ n = "there"
  \/ m = "asked" /\ n \in {"coming", "gone"}
  \/ m = "there" /\ n = "gone"

\* A step that moves machines on, and records, in step with each other.
LEMMA KeptInStep ==
  ASSUME AdapterInv, AdapterTypes', listing' = listing, misled \subseteq misled',
         \A i \in 1..Machines :
           /\ machine'[i].ours = machine[i].ours /\ machine'[i].rig = machine[i].rig
           /\ machine'[i].label = machine[i].label
           /\ Advances(machine[i].state, machine'[i].state),
         \A r \in Rigs :
           /\ rig'[r].state = "none" => rig[r].state = "none"
           /\ rig'[r].state \in Knows => rig'[r].instance \in Mine(r)
           /\ listing[r] # None => rig'[r].state = "failed" /\ rig'[r].class = rig[r].class
           /\ \A i \in Mine(r) : Standing(rig'[r].state, rig'[r].class, machine'[i].state, i, misled')
  PROVE  OwnMachine' /\ InPlace' /\ Listings'
<1>m. \A r \in Rigs : Mine(r)' = Mine(r) BY DEF Mine
<1>1. OwnMachine'
  <2>1. \A i \in 1..Machines :
          /\ machine'[i].ours => \E kept \in 0..Len(Details) :
                                   machine'[i].label = EncodeLabel(machine'[i].rig, kept)
          /\ machine'[i].state \in {"asked", "coming"} => machine'[i].ours
    BY DEF AdapterInv, OwnMachine, Advances
  <2>2. \A r \in Rigs :
          /\ rig'[r].state = "none" => Mine(r)' = {}
          /\ \A i, j \in Mine(r)' : i = j
          /\ rig'[r].state \in Knows => rig'[r].instance \in Mine(r)'
    BY <1>m DEF AdapterInv, OwnMachine
  <2> QED BY <2>1, <2>2 DEF OwnMachine
<1>2. InPlace' BY <1>m DEF InPlace
<1>3. Listings'
  <2>t. DOMAIN machine = 1..Machines /\ DOMAIN machine' = 1..Machines BY DEF AdapterInv, AdapterTypes
  <2>1. Been \subseteq Been' /\ Been \cap There' \subseteq There
    BY <2>t DEF Been, There, Advances
  <2>2. ASSUME NEW a \in Rigs \cup {Sweep}, listing[a] # None PROVE Covered(listing[a])'
    <3>1. Covered(listing[a]) BY <2>2 DEF AdapterInv, Listings
    <3> QED BY <2>1, <3>1 DEF Covered
  <2>3. ASSUME NEW r \in Rigs, listing[r] # None, rig'[r].class # "unknown"
        PROVE  (Mine(r) \cap There') \ misled' \subseteq listing[r].since
    <3>1. (Mine(r) \cap There) \ misled \subseteq listing[r].since /\ rig[r].class # "unknown" /\ rig[r].state = "failed"
      BY <2>3 DEF AdapterInv, Listings
    <3>2. ASSUME NEW i \in Mine(r), i \in There', i \notin misled' PROVE i \in There /\ i \notin misled
      <4>1. Standing(rig[r].state, rig[r].class, machine[i].state, i, misled)
        BY DEF AdapterInv, InPlace
      <4>2. i \notin misled /\ machine[i].state \notin {"asked", "coming"} BY <2>3, <3>1, <3>2, <4>1 DEF Standing
      <4>3. machine'[i].state = "there" /\ i \in 1..Machines BY <3>2, <2>t DEF There, Mine
      <4> QED BY <2>t, <4>2, <4>3 DEF Advances, There
    <3> QED BY <3>1, <3>2
  <2> QED BY <1>m, <2>2, <2>3 DEF Listings
<1> QED BY <1>1, <1>2, <1>3

-----------------------------------------------------------------------------
(* Step by step                                                            *)

\* Where a field of one machine, or of one record, is replaced.
LEMMA MachineFields ==
  ASSUME AdapterTypes, NEW i \in 1..Machines, NEW s \in MachineStates,
         machine' = [machine EXCEPT ![i].state = s]
  PROVE  /\ machine' \in [1..Machines -> Machine]
         /\ \A j \in 1..Machines : /\ machine'[j].ours = machine[j].ours
                                   /\ machine'[j].rig = machine[j].rig
                                   /\ machine'[j].label = machine[j].label
                                   /\ machine'[j].state = IF j = i THEN s ELSE machine[j].state
BY DEF AdapterTypes, Machine

LEMMA RecordFields ==
  ASSUME AdapterTypes, NEW r \in Rigs, NEW s \in RigStates, rig' = [rig EXCEPT ![r].state = s]
  PROVE  /\ rig' \in [Rigs -> Record]
         /\ \A p \in Rigs : /\ rig'[p].instance = rig[p].instance /\ rig'[p].class = rig[p].class
                            /\ rig'[p].state = IF p = r THEN s ELSE rig[p].state
BY DEF AdapterTypes, Record

\* What AdapterInv says of what a step leaves alone.
LEMMA Facts ==
  ASSUME AdapterInv
  PROVE  /\ AdapterTypes /\ OwnMachine /\ InPlace /\ Listings
         /\ machine \in [1..Machines -> Machine] /\ rig \in [Rigs -> Record]
         /\ \A i \in 1..Machines : machine[i] \in Machine /\ machine[i].state \in MachineStates
         /\ \A r \in Rigs : /\ rig[r].state \in Knows => rig[r].instance \in Mine(r)
                            /\ \A i, j \in Mine(r) : i = j
                            /\ listing[r] # None => rig[r].state = "failed"
                            /\ \A i \in Mine(r) : /\ i \in 1..Machines
                                                  /\ Standing(rig[r].state, rig[r].class, machine[i].state, i, misled)
BY DEF AdapterInv, AdapterTypes, OwnMachine, InPlace, Listings, Mine, Machine

\* A machine moves on by itself, or because a sweep asked for it.
LEMMA MachineStep ==
  ASSUME AdapterInv, NEW i \in 1..Machines, NEW s \in MachineStates,
         \/ machine[i].state \in {"asked", "coming"} /\ s = "there"
         \/ machine[i].state = "there" /\ s = "gone",
         machine' = [machine EXCEPT ![i].state = s], UNCHANGED <<rig, listing, misled>>, sweep' \in Swept
  PROVE  AdapterTypes' /\ OwnMachine' /\ InPlace' /\ Listings'
<1>1. /\ machine' \in [1..Machines -> Machine]
      /\ \A j \in 1..Machines : /\ machine'[j].ours = machine[j].ours /\ machine'[j].rig = machine[j].rig
                                /\ machine'[j].label = machine[j].label
                                /\ machine'[j].state = IF j = i THEN s ELSE machine[j].state
  <2>1. AdapterTypes BY Facts
  <2> QED BY <2>1, MachineFields
<1>2. AdapterTypes' BY <1>1, Facts DEF AdapterTypes
<1>3. \A j \in 1..Machines : Advances(machine[j].state, machine'[j].state) BY <1>1 DEF Advances
<1>4. ASSUME NEW r \in Rigs, NEW j \in Mine(r)
      PROVE  Standing(rig[r].state, rig[r].class, machine'[j].state, j, misled')
  <2>1. Standing(rig[r].state, rig[r].class, machine[j].state, j, misled) /\ j \in 1..Machines BY Facts
  <2> QED BY <1>1, <2>1 DEF Standing
<1>5. \A r \in Rigs :
        /\ rig'[r].state = "none" => rig[r].state = "none"
        /\ rig'[r].state \in Knows => rig'[r].instance \in Mine(r)
        /\ listing[r] # None => rig'[r].state = "failed" /\ rig'[r].class = rig[r].class
        /\ \A j \in Mine(r) : Standing(rig'[r].state, rig'[r].class, machine'[j].state, j, misled')
  BY <1>4, Facts
<1> QED BY <1>1, <1>2, <1>3, <1>5, KeptInStep

\* Down, Destroy and Confirm: the record goes on, and its machine may go.
LEMMA EndingStep ==
  ASSUME AdapterInv, NEW r \in Rigs, NEW s \in {"ending", "confirming", "unconfirmed", "ended"},
         rig[r].state \in {"rented", "ending", "confirming"},
         rig' = [rig EXCEPT ![r].state = s], UNCHANGED <<listing, sweep>>,
         machine' \in {machine, Gone(rig[r].instance)},
         misled \subseteq misled',
         s = "ended" => machine[rig[r].instance].state # "there" \/ rig[r].instance \in misled'
  PROVE  AdapterTypes' /\ OwnMachine' /\ InPlace' /\ Listings'
<1> DEFINE i == rig[r].instance
<1>0. i \in Mine(r) /\ i \in 1..Machines /\ machine[i].state \in {"there", "gone"}
  BY Facts DEF Knows, Standing
<1>1. /\ rig' \in [Rigs -> Record]
      /\ \A p \in Rigs : /\ rig'[p].instance = rig[p].instance /\ rig'[p].class = rig[p].class
                         /\ rig'[p].state = IF p = r THEN s ELSE rig[p].state
  <2>1. AdapterTypes /\ s \in RigStates BY Facts DEF RigStates
  <2> QED BY <2>1, RecordFields
<1>2. /\ machine' \in [1..Machines -> Machine]
      /\ \A j \in 1..Machines : /\ machine'[j].ours = machine[j].ours /\ machine'[j].rig = machine[j].rig
                                /\ machine'[j].label = machine[j].label
                                /\ machine'[j].state = machine[j].state
                                   \/ (j = i /\ machine[j].state = "there" /\ machine'[j].state = "gone")
  <2>1. CASE machine' = machine BY <2>1, Facts
  <2>2. CASE machine' = [machine EXCEPT ![i].state = "gone"] /\ machine[i].state = "there"
    <3>0. PICK k \in 1..Machines : k = i BY <1>0
    <3>1. /\ "gone" \in MachineStates /\ AdapterTypes /\ k \in 1..Machines
          /\ machine' = [machine EXCEPT ![k].state = "gone"]
      BY <2>2, <3>0, Facts DEF MachineStates
    <3>2. /\ machine' \in [1..Machines -> Machine]
          /\ \A j \in 1..Machines : /\ machine'[j].ours = machine[j].ours
                                    /\ machine'[j].rig = machine[j].rig
                                    /\ machine'[j].label = machine[j].label
                                    /\ machine'[j].state = IF j = k THEN "gone" ELSE machine[j].state
      BY <3>1, MachineFields
    <3>3. \A j \in 1..Machines : j = i => machine[j].state = "there" /\ machine'[j].state = "gone"
      <4>1. \A j \in 1..Machines : j = i => machine[j].state = "there" BY <2>2
      <4> QED BY <3>0, <3>2, <4>1
    <3>4. \A j \in 1..Machines : j # i => machine'[j].state = machine[j].state BY <3>0, <3>2
    <3>5. \A j \in 1..Machines :
            \/ machine'[j].state = machine[j].state
            \/ j = i /\ machine[j].state = "there" /\ machine'[j].state = "gone"
      BY <3>3, <3>4
    <3> QED BY <3>2, <3>5
  <2> QED BY <2>1, <2>2 DEF Gone
<1>3. AdapterTypes' BY <1>1, <1>2, Facts DEF AdapterTypes
<1>4. \A j \in 1..Machines : Advances(machine[j].state, machine'[j].state) BY <1>2 DEF Advances
<1>5. ASSUME NEW p \in Rigs, NEW j \in Mine(p)
      PROVE  Standing(rig'[p].state, rig'[p].class, machine'[j].state, j, misled')
  <2>1. Standing(rig[p].state, rig[p].class, machine[j].state, j, misled) /\ j \in 1..Machines BY Facts
  <2>2. CASE p # r
    <3>1. j # i BY <1>0, <2>2 DEF Mine
    <3>2. machine'[j].state = machine[j].state /\ rig'[p].state = rig[p].state /\ rig'[p].class = rig[p].class
      BY <1>1, <1>2, <2>1, <2>2, <3>1
    <3> QED BY <2>1, <3>2 DEF Standing
  <2>3. CASE p = r
    <3>1. j = i BY <1>0, <2>3, Facts
    <3>2. machine'[i].state \in {"there", "gone"} /\ (s = "ended" => machine'[i].state = "gone" \/ i \in misled')
      BY <1>0, <1>2
    <3>3. rig'[p].state = s /\ j \in 1..Machines /\ machine'[j].state = machine'[i].state
      BY <1>1, <2>1, <2>3, <3>1
    <3> QED BY <3>1, <3>2, <3>3 DEF Standing
  <2> QED BY <2>2, <2>3
<1>6. \A p \in Rigs :
        /\ rig'[p].state = "none" => rig[p].state = "none"
        /\ rig'[p].state \in Knows => rig'[p].instance \in Mine(p)
        /\ listing[p] # None => rig'[p].state = "failed" /\ rig'[p].class = rig[p].class
        /\ \A j \in Mine(p) : Standing(rig'[p].state, rig'[p].class, machine'[j].state, j, misled')
  BY <1>0, <1>1, <1>5, Facts
<1> QED BY <1>2, <1>3, <1>4, <1>6, KeptInStep

\* The call leaves: the machine it is for is larri's from here on.
LEMMA CreateStep ==
  ASSUME AdapterInv, NEW r \in Rigs, Create(r)
  PROVE  AdapterTypes' /\ OwnMachine' /\ InPlace' /\ Listings'
<1>t. /\ AdapterTypes /\ rig[r].state = "none" /\ Mine(r) = {}
      /\ DOMAIN machine = 1..Machines /\ listing' = listing /\ sweep' = sweep
      /\ misled' = misled
  BY Facts DEF Create, OwnMachine, AdapterTypes
<1>1. CASE machine' = machine /\ rig' = [rig EXCEPT ![r].state = "closed"]
  <2>1. "closed" \in RigStates BY DEF RigStates
  <2>2. /\ rig' \in [Rigs -> Record]
        /\ \A p \in Rigs : /\ rig'[p].instance = rig[p].instance /\ rig'[p].class = rig[p].class
                           /\ rig'[p].state = IF p = r THEN "closed" ELSE rig[p].state
    BY <1>t, <1>1, <2>1, RecordFields
  <2>3. AdapterTypes' BY <1>t, <1>1, <2>2 DEF AdapterTypes
  <2>4. \A j \in 1..Machines : Advances(machine[j].state, machine'[j].state) BY <1>1 DEF Advances
  <2>5. ASSUME NEW p \in Rigs
        PROVE  /\ rig'[p].state = "none" => rig[p].state = "none"
               /\ rig'[p].state \in Knows => rig'[p].instance \in Mine(p)
               /\ listing[p] # None => rig'[p].state = "failed" /\ rig'[p].class = rig[p].class
               /\ \A j \in Mine(p) : Standing(rig'[p].state, rig'[p].class, machine'[j].state, j, misled')
    <3>1. CASE p = r
      <4>1. rig'[p].state = "closed" /\ "closed" \notin Knows /\ listing[p] = None
        BY <1>t, <2>2, <3>1, Facts DEF Knows
      <4> QED BY <1>t, <3>1, <4>1
    <3>2. CASE p # r
      <4>1. rig'[p].state = rig[p].state BY <2>2, <3>2
      <4> QED BY <1>t, <1>1, <2>2, <4>1, Facts
    <3> QED BY <3>1, <3>2
  <2> QED BY <1>t, <1>1, <2>3, <2>4, <2>5, KeptInStep
<1>2. CASE \E i \in 1..Machines, kept \in 0..Len(Details) :
             /\ machine[i] = Unused
             /\ machine' = [machine EXCEPT ![i] =
                  [state |-> "asked", rig |-> r, ours |-> TRUE, label |-> EncodeLabel(r, kept)]]
             /\ rig' = [rig EXCEPT ![r] = [state |-> "creating", instance |-> i, class |-> "none"]]
  <2> PICK i \in 1..Machines, kept \in 0..Len(Details) :
             /\ machine[i] = Unused
             /\ machine' = [machine EXCEPT ![i] =
                  [state |-> "asked", rig |-> r, ours |-> TRUE, label |-> EncodeLabel(r, kept)]]
             /\ rig' = [rig EXCEPT ![r] = [state |-> "creating", instance |-> i, class |-> "none"]]
    BY <1>2
  <2>1. EncodeLabel(r, kept) \in Label BY LabelTypes
  <2>2. /\ machine' \in [1..Machines -> Machine]
        /\ machine'[i] = [state |-> "asked", rig |-> r, ours |-> TRUE, label |-> EncodeLabel(r, kept)]
        /\ \A j \in 1..Machines : j # i => machine'[j] = machine[j]
    <3>1. [state |-> "asked", rig |-> r, ours |-> TRUE, label |-> EncodeLabel(r, kept)] \in Machine
      BY <2>1 DEF Machine, MachineStates
    <3>2. machine \in [1..Machines -> Machine] BY Facts
    <3> QED BY <3>1, <3>2
  <2>3. /\ rig' \in [Rigs -> Record]
        /\ rig'[r] = [state |-> "creating", instance |-> i, class |-> "none"]
        /\ \A p \in Rigs : p # r => rig'[p] = rig[p]
    <3>1. [state |-> "creating", instance |-> i, class |-> "none"] \in Record
      BY AdapterConstants DEF Record, RigStates, ErrorClass
    <3>2. rig \in [Rigs -> Record] BY Facts
    <3> QED BY <3>1, <3>2
  <2>4. AdapterTypes' BY <1>t, <2>2, <2>3 DEF AdapterTypes
  <2>5. ~machine[i].ours /\ machine[i].state = "unused" BY DEF Unused
  <2>6. /\ Mine(r)' = {i}
        /\ \A p \in Rigs : p # r => Mine(p)' = Mine(p) /\ i \notin Mine(p)
    <3>1. machine'[i].ours /\ machine'[i].rig = r BY <2>2
    <3>2. \A j \in 1..Machines : j # i =>
            machine'[j].ours = machine[j].ours /\ machine'[j].rig = machine[j].rig
      BY <2>2
    <3> QED BY <1>t, <2>5, <3>1, <3>2 DEF Mine
  <2>7. OwnMachine'
    <3>1. ASSUME NEW j \in 1..Machines
          PROVE  /\ machine'[j].ours => \E k \in 0..Len(Details) :
                      machine'[j].label = EncodeLabel(machine'[j].rig, k)
                 /\ machine'[j].state \in {"asked", "coming"} => machine'[j].ours
      <4>1. CASE j = i BY <2>2, <4>1
      <4>2. CASE j # i
        <5>1. machine'[j] = machine[j] BY <2>2, <4>2
        <5> QED BY <5>1, Facts DEF OwnMachine
      <4> QED BY <4>1, <4>2
    <3>2. ASSUME NEW p \in Rigs
          PROVE  /\ rig'[p].state = "none" => Mine(p)' = {}
                 /\ \A j, k \in Mine(p)' : j = k
                 /\ rig'[p].state \in Knows => rig'[p].instance \in Mine(p)'
      <4>1. CASE p = r BY <2>3, <2>6, <4>1
      <4>2. CASE p # r
        <5>1. rig'[p] = rig[p] /\ Mine(p)' = Mine(p) BY <2>3, <2>6, <4>2
        <5> QED BY <5>1, Facts DEF OwnMachine
      <4> QED BY <4>1, <4>2
    <3> QED BY <3>1, <3>2 DEF OwnMachine
  <2>8. InPlace'
    <3>1. ASSUME NEW p \in Rigs, NEW j \in Mine(p)'
          PROVE  Standing(rig'[p].state, rig'[p].class, machine'[j].state, j, misled')
      <4>1. CASE p = r BY <2>2, <2>3, <2>6, <4>1 DEF Standing
      <4>2. CASE p # r
        <5>1. rig'[p] = rig[p] /\ j \in Mine(p) /\ j # i BY <2>3, <2>6, <4>2
        <5>2. machine'[j] = machine[j] BY <2>2, <5>1 DEF Mine
        <5> QED BY <1>t, <5>1, <5>2, Facts
      <4> QED BY <4>1, <4>2
    <3> QED BY <3>1 DEF InPlace
  <2>9. Listings'
    <3>1. /\ \A j \in 1..Machines : machine'[j].state \in {"there", "gone"} <=> machine[j].state \in {"there", "gone"}
          /\ \A j \in 1..Machines : machine'[j].state = "there" <=> machine[j].state = "there"
      BY <2>2, <2>5
    <3>2. Been' = Been /\ There' = There
      <4>1. DOMAIN machine' = 1..Machines BY <2>2
      <4> QED BY <1>t, <3>1, <4>1 DEF Been, There
    <3>3. \A a \in Rigs \cup {Sweep} : listing'[a] # None => Covered(listing[a])'
      BY <1>t, <3>2, Facts DEF Covered, Listings
    <3>4. \A p \in Rigs : listing'[p] # None =>
            p # r /\ rig'[p] = rig[p] /\ rig[p].state = "failed" /\ Mine(p)' = Mine(p)
      BY <1>t, <2>3, <2>6, Facts
    <3>5. \A p \in Rigs : listing'[p] # None /\ rig'[p].class # "unknown" =>
            ((Mine(p) \cap There) \ misled \subseteq listing[p].since)'
      BY <1>t, <3>2, <3>4, Facts DEF Listings
    <3> QED BY <3>3, <3>4, <3>5 DEF Listings
  <2> QED BY <2>4, <2>7, <2>8, <2>9
<1> QED BY <1>t, <1>1, <1>2 DEF Create

\* The response: the machine stays as it landed, or will never land, or is still
\* to come, and then the class says so unless the response denied it.
LEMMA CreatedStep ==
  ASSUME AdapterInv, NEW r \in Rigs, NEW response, Created(r, response)
  PROVE  AdapterTypes' /\ OwnMachine' /\ InPlace' /\ Listings'
<1> DEFINE i == rig[r].instance
           failure == [state |-> "failed", instance |-> 0, class |-> CreateClass(response)]
           onward == /\ machine' \in [1..Machines -> Machine]
                     /\ \A j \in 1..Machines : /\ machine'[j].ours = machine[j].ours
                                               /\ machine'[j].rig = machine[j].rig
                                               /\ machine'[j].label = machine[j].label
                                               /\ Advances(machine[j].state, machine'[j].state)
                                               /\ j # i => machine'[j].state = machine[j].state
                     /\ machine'[i].state \in {"there", "gone", "coming"}
                     /\ machine'[i].state = "coming" => CreateClass(response) = "unknown" \/ i \in misled'
                     /\ response = "ok" => machine'[i].state \in {"there", "gone"}
<1>0. /\ rig[r].state = "creating" /\ i \in Mine(r) /\ i \in 1..Machines
      /\ machine[i].state \in {"asked", "there", "gone"}
      /\ AdapterTypes /\ listing' = listing /\ sweep' = sweep
  BY Facts DEF Created, Knows, Standing
<1>1. \/ machine' = machine /\ machine[i].state # "asked"
      \/ /\ machine[i].state = "asked"
         /\ \E s \in {"gone", "coming"} : /\ machine' = [machine EXCEPT ![i].state = s]
                                          /\ s = "coming" => response \in LateAfter
  <2>1. CASE machine[i].state # "asked" BY <2>1 DEF Created
  <2>2. CASE machine[i].state = "asked" BY <2>2 DEF Created
  <2> QED BY <2>1, <2>2
<1>c. /\ CreateClass(response) \in ErrorClass /\ "ok" \notin LateAfter
      /\ response \in Open => CreateClass(response) = "unknown"
  BY AdapterConstants DEF Open, CreateClass, Class, ErrorClass
<1>d. misled \subseteq misled' /\ (machine'[i].state = "coming" => response \in Open \/ i \in misled')
  BY DEF Created
<1>2. onward
  <2>1. CASE machine' = machine /\ machine[i].state # "asked" BY <1>0, <2>1, Facts DEF Advances
  <2>2. ASSUME machine[i].state = "asked", NEW s \in {"gone", "coming"},
               machine' = [machine EXCEPT ![i].state = s], s = "coming" => response \in LateAfter
        PROVE  onward
    <3>0. PICK k \in 1..Machines : k = i BY <1>0
    <3>1. s \in MachineStates /\ machine' = [machine EXCEPT ![k].state = s] /\ machine[k].state = "asked"
      BY <2>2, <3>0 DEF MachineStates
    <3>2. /\ machine' \in [1..Machines -> Machine]
          /\ \A j \in 1..Machines : /\ machine'[j].ours = machine[j].ours
                                    /\ machine'[j].rig = machine[j].rig
                                    /\ machine'[j].label = machine[j].label
                                    /\ machine'[j].state = IF j = k THEN s ELSE machine[j].state
      BY <1>0, <3>1, MachineFields
    <3>3. \A j \in 1..Machines : Advances(machine[j].state, machine'[j].state)
      BY <2>2, <3>1, <3>2 DEF Advances
    <3>4. machine'[k].state = s /\ \A j \in 1..Machines : j # k => machine'[j].state = machine[j].state
      BY <3>2
    <3>5. response \in Refused \cup LateAfter BY <2>2 DEF Created
    <3>6. response # "ok" BY <1>c, <3>5 DEF Refused
    <3>7. machine'[i].state = s BY <3>0, <3>4
    <3>8. \A j \in 1..Machines : j # i => machine'[j].state = machine[j].state BY <3>0, <3>4
    <3> QED BY <1>c, <1>d, <2>2, <3>2, <3>3, <3>6, <3>7, <3>8
  <2> QED BY <1>1, <2>1, <2>2
<1>3. /\ rig' \in [Rigs -> Record]
      /\ \A p \in Rigs : p # r => rig'[p] = rig[p]
      /\ \/ response = "ok" /\ rig'[r].state = "rented" /\ rig'[r].instance = i
         \/ rig'[r] = failure
  <2>1. CASE response = "ok" /\ rig' = [rig EXCEPT ![r].state = "rented"]
    <3>1. "rented" \in RigStates BY DEF RigStates
    <3>2. rig \in [Rigs -> Record] BY Facts
    <3> QED BY <2>1, <3>1, <3>2 DEF Record
  <2>2. CASE rig' = [rig EXCEPT ![r] = failure]
    <3>1. failure \in Record BY <1>c, AdapterConstants DEF Record, RigStates
    <3>2. rig \in [Rigs -> Record] BY Facts
    <3> QED BY <2>2, <3>1, <3>2
  <2> QED BY <2>1, <2>2 DEF Created
<1>4. AdapterTypes' BY <1>0, <1>2, <1>3 DEF AdapterTypes
<1>5. ASSUME NEW p \in Rigs
      PROVE  /\ rig'[p].state = "none" => rig[p].state = "none"
             /\ rig'[p].state \in Knows => rig'[p].instance \in Mine(p)
             /\ listing[p] # None => rig'[p].state = "failed" /\ rig'[p].class = rig[p].class
             /\ \A j \in Mine(p) : Standing(rig'[p].state, rig'[p].class, machine'[j].state, j, misled')
  <2>1. CASE p # r
    <3>1. rig'[p] = rig[p] BY <1>3, <2>1
    <3>2. \A j \in Mine(p) : j \in 1..Machines /\ j # i BY <1>0, <2>1 DEF Mine
    <3>3. \A j \in Mine(p) : machine'[j].state = machine[j].state BY <1>2, <3>2
    <3>4. \A j \in Mine(p) : Standing(rig'[p].state, rig'[p].class, machine'[j].state, j, misled')
      BY <1>d, <3>1, <3>3, Facts DEF Standing
    <3> QED BY <3>1, <3>4, Facts
  <2>2. CASE p = r
    <3>1. \A j \in Mine(p) : j = i BY <1>0, <2>2, Facts
    <3>2. listing[p] = None BY <1>0, <2>2, Facts
    <3>3. Standing(rig'[r].state, rig'[r].class, machine'[i].state, i, misled')
      <4>1. CASE response = "ok" /\ rig'[r].state = "rented" BY <1>2, <4>1 DEF Standing
      <4>2. CASE rig'[r] = failure
        <5>1. rig'[r].state = "failed" /\ rig'[r].class = CreateClass(response) BY <4>2
        <5> QED BY <1>2, <5>1 DEF Standing
      <4> QED BY <1>3, <4>1, <4>2
    <3>4. /\ rig'[r].state # "none"
          /\ rig'[r].state \in Knows => rig'[r].instance = i
      BY <1>3 DEF Knows
    <3> QED BY <1>0, <2>2, <3>1, <3>2, <3>3, <3>4
  <2> QED BY <2>1, <2>2
<1> QED BY <1>0, <1>2, <1>4, <1>5, <1>d, KeptInStep

-----------------------------------------------------------------------------
(* Readers                                                                 *)

\* A reader's pages change and the machines do not.
LEMMA ListingStep ==
  ASSUME AdapterInv, NEW a \in Rigs \cup {Sweep}, NEW l \in Reading \cup {None},
         machine' = machine, listing' = [listing EXCEPT ![a] = l], misled \subseteq misled',
         \A p \in Rigs : listing'[p] # None => rig'[p] = rig[p],
         l # None => Covered(l),
         l # None /\ a \in Rigs => /\ rig[a].state = "failed"
                                   /\ rig[a].class # "unknown" =>
                                        (Mine(a) \cap There) \ misled \subseteq l.since
  PROVE  Listings' /\ listing' \in [Rigs \cup {Sweep} -> Reading \cup {None}]
<1>1. /\ listing' \in [Rigs \cup {Sweep} -> Reading \cup {None}] /\ listing'[a] = l
      /\ \A b \in Rigs \cup {Sweep} : b # a => listing'[b] = listing[b]
  BY Facts DEF AdapterTypes
<1>2. Been' = Been /\ There' = There /\ \A p \in Rigs : Mine(p)' = Mine(p)
  BY DEF Been, There, Mine
<1>3. ASSUME NEW b \in Rigs \cup {Sweep}, listing'[b] # None PROVE Covered(listing[b])'
  <2>1. Covered(listing'[b])
    <3>1. CASE b = a BY <1>1, <1>3, <3>1
    <3>2. CASE b # a
      <4>1. listing'[b] = listing[b] BY <1>1, <3>2
      <4> QED BY <1>3, <4>1, Facts DEF Listings
    <3> QED BY <3>1, <3>2
  <2> QED BY <1>2, <2>1 DEF Covered
<1>4. ASSUME NEW p \in Rigs, listing'[p] # None
      PROVE  /\ rig'[p].state = "failed"
             /\ rig'[p].class # "unknown" => (Mine(p) \cap There) \ misled' \subseteq listing'[p].since
  <2>1. rig'[p] = rig[p] BY <1>4
  <2>2. CASE p = a BY <1>1, <1>4, <2>1, <2>2
  <2>3. CASE p # a
    <3>1. listing'[p] = listing[p] BY <1>1, <2>3
    <3> QED BY <1>4, <2>1, <3>1, Facts DEF Listings
  <2> QED BY <2>2, <2>3
<1> QED BY <1>1, <1>2, <1>3, <1>4 DEF Listings

\* What is there is on the account, and counted.
LEMMA Account ==
  ASSUME AdapterInv
  PROVE  /\ There \subseteq 1..Machines /\ There \subseteq Been /\ Been \subseteq 1..Machines
         /\ DOMAIN machine = 1..Machines /\ Machines \in Nat
         /\ \A i \in There : i \in Nat /\ 1 <= i
BY Facts, AdapterConstants DEF There, Been

LEMMA ListBeginsStep ==
  ASSUME AdapterInv, NEW a \in Rigs \cup {Sweep}, ListBegins(a),
         a \in Rigs => rig[a].state = "failed", machine' = machine, rig' = rig, misled' = misled
  PROVE  Listings' /\ listing' \in [Rigs \cup {Sweep} -> Reading \cup {None}]
<1> DEFINE l == [kind |-> "open", got |-> {}, lost |-> {}, after |-> 0, since |-> There]
<1>1. l \in Reading BY Account DEF Reading
<1>2. Covered(l) BY Account DEF Covered
<1>3. (Mine(a) \cap There) \ misled \subseteq l.since OBVIOUS
<1>4. listing' = [listing EXCEPT ![a] = l] BY DEF ListBegins
<1> HIDE DEF l
<1> QED BY <1>1, <1>2, <1>3, <1>4, ListingStep

LEMMA ListPageStep ==
  ASSUME AdapterInv, NEW a \in Rigs \cup {Sweep}, List(a)
  PROVE  Listings' /\ listing' \in [Rigs \cup {Sweep} -> Reading \cup {None}]
<1> DEFINE old == listing[a]
           left == {i \in There : i > old.after}
           last(page) == CHOOSE i \in page : \A j \in page : j <= i
<1>1. /\ listing[a].kind = "open" /\ machine' = machine /\ rig' = rig /\ misled' = misled
      /\ listing[a] \in Reading /\ listing[a] # None
  <2>1. listing[a].kind = "open" /\ UNCHANGED <<machine, rig, misled>>
    BY DEF List, ListPage, ListFails
  <2>2. listing[a] \in Reading \cup {None} BY Facts DEF AdapterTypes
  <2> QED BY <2>1, <2>2 DEF None
<1>2. /\ old.got \in SUBSET (1..Machines) /\ old.since \in SUBSET (1..Machines)
      /\ old.lost \in SUBSET (1..Machines) /\ old.after \in 0..Machines /\ old.after \in Nat
  BY <1>1, AdapterConstants DEF Reading
<1>3. Covered(old) BY <1>1, Facts DEF Listings
<1>4. a \in Rigs => /\ rig[a].state = "failed"
                    /\ rig[a].class # "unknown" => (Mine(a) \cap There) \ misled \subseteq old.since
  BY <1>1, Facts DEF Listings
<1>5. /\ Page(old.after) \subseteq left
      /\ Page(old.after) # {} =>
           /\ last(Page(old.after)) \in Page(old.after)
           /\ \A i \in There : i > old.after /\ i <= last(Page(old.after)) => i \in Page(old.after)
  BY <1>2, Account, Pages
<1>6. ASSUME NEW l \in Reading, listing' = [listing EXCEPT ![a] = l], l.since = old.since, Covered(l)
      PROVE  Listings' /\ listing' \in [Rigs \cup {Sweep} -> Reading \cup {None}]
  <2>1. l \in Reading \cup {None} OBVIOUS
  <2>2. a \in Rigs => /\ rig[a].state = "failed"
                      /\ rig[a].class # "unknown" => (Mine(a) \cap There) \ misled \subseteq l.since
    BY <1>4, <1>6
  <2>3. misled \subseteq misled' /\ \A p \in Rigs : listing'[p] # None => rig'[p] = rig[p] BY <1>1
  <2> QED BY <1>1, <1>6, <2>1, <2>2, <2>3, ListingStep
<1>7. CASE ListFails(a)
  <2> DEFINE l == [old EXCEPT !.kind = "failed"]
  <2>1. l \in Reading /\ l.kind = "failed" /\ l.got = old.got /\ l.since = old.since
    BY <1>1 DEF Reading
  <2>2. listing' = [listing EXCEPT ![a] = l] BY <1>7 DEF ListFails
  <2>3. Covered(l) BY <1>3, <2>1 DEF Covered
  <2> HIDE DEF l
  <2> QED BY <1>6, <2>1, <2>2, <2>3
<1>p. ASSUME ListPage(a)
      PROVE  \E page \in {Page(old.after), {}} : \E normal \in SUBSET page :
               listing' = [listing EXCEPT ![a] =
                 IF page = {} \/ {i \in There : i > last(page)} = {}
                 THEN [old EXCEPT !.kind = "full", !.got = old.got \cup normal, !.lost = old.lost \cup (left \ normal)]
                 ELSE [old EXCEPT !.got = old.got \cup normal, !.lost = old.lost \cup (page \ normal), !.after = last(page)]]
  BY <1>p DEF ListPage
<1>8. CASE ListPage(a)
  <2> PICK page \in {Page(old.after), {}} : \E normal \in SUBSET page :
               listing' = [listing EXCEPT ![a] =
                 IF page = {} \/ {i \in There : i > last(page)} = {}
                 THEN [old EXCEPT !.kind = "full", !.got = old.got \cup normal, !.lost = old.lost \cup (left \ normal)]
                 ELSE [old EXCEPT !.got = old.got \cup normal, !.lost = old.lost \cup (page \ normal), !.after = last(page)]]
    BY <1>8, <1>p
  <2> PICK normal \in SUBSET page :
               listing' = [listing EXCEPT ![a] =
                 IF page = {} \/ {i \in There : i > last(page)} = {}
                 THEN [old EXCEPT !.kind = "full", !.got = old.got \cup normal, !.lost = old.lost \cup (left \ normal)]
                 ELSE [old EXCEPT !.got = old.got \cup normal, !.lost = old.lost \cup (page \ normal), !.after = last(page)]]
    OBVIOUS
  <2>1. page \subseteq left /\ normal \subseteq left /\ left \subseteq There /\ left \subseteq 1..Machines
    BY <1>5, Account
  <2>2. CASE page = {} \/ {i \in There : i > last(page)} = {}
    <3> DEFINE l == [old EXCEPT !.kind = "full", !.got = old.got \cup normal,
                                !.lost = old.lost \cup (left \ normal)]
    <3>1. /\ l \in Reading /\ l.kind = "full" /\ l.since = old.since
          /\ l.got = old.got \cup normal /\ l.lost = old.lost \cup (left \ normal)
      BY <1>1, <1>2, <2>1 DEF Reading
    <3>2. listing' = [listing EXCEPT ![a] = l] BY <2>2
    <3>3. ASSUME NEW i \in old.since \cap There PROVE i \in l.got \cup l.lost
      <4>1. CASE i <= old.after
        <5>1. \A j \in old.since \cap There : j <= old.after => j \in old.got \cup old.lost
          BY <1>1, <1>3 DEF Covered
        <5> QED BY <3>1, <4>1, <5>1
      <4>2. CASE ~(i <= old.after)
        <5>1. i > old.after BY <1>2, <4>2, Account
        <5>2. i \in left BY <5>1
        <5> QED BY <3>1, <5>2
      <4> QED BY <4>1, <4>2
    <3>4. Covered(l)
      <4>1. l.got \subseteq Been /\ l.since \subseteq Been BY <1>3, <2>1, <3>1, Account DEF Covered
      <4>2. l.since \cap There \subseteq l.got \cup l.lost BY <3>1, <3>3
      <4> HIDE DEF l
      <4> QED BY <3>1, <4>1, <4>2 DEF Covered
    <3> HIDE DEF l
    <3> QED BY <1>6, <3>1, <3>2, <3>4
  <2>3. CASE ~(page = {} \/ {i \in There : i > last(page)} = {})
    <3> DEFINE l == [old EXCEPT !.got = old.got \cup normal, !.lost = old.lost \cup (page \ normal),
                                !.after = last(page)]
    <3>0. page = Page(old.after) BY <2>3
    <3>1. /\ last(page) \in page
          /\ \A i \in There : i > old.after /\ i <= last(page) => i \in page
      BY <1>5, <2>3, <3>0
    <3>2. last(page) \in 1..Machines /\ last(page) \in 0..Machines /\ last(page) \in Nat
      BY <2>1, <3>1, Account
    <3>3. /\ l \in Reading /\ l.kind = "open" /\ l.since = old.since /\ l.after = last(page)
          /\ l.got = old.got \cup normal /\ l.lost = old.lost \cup (page \ normal)
      BY <1>1, <1>2, <2>1, <3>2 DEF Reading
    <3>4. listing' = [listing EXCEPT ![a] = l] BY <2>3
    <3>5. ASSUME NEW i \in old.since \cap There, i <= last(page) PROVE i \in l.got \cup l.lost
      <4>1. CASE i <= old.after
        <5>1. \A j \in old.since \cap There : j <= old.after => j \in old.got \cup old.lost
          BY <1>1, <1>3 DEF Covered
        <5> QED BY <3>3, <4>1, <5>1
      <4>2. CASE ~(i <= old.after)
        <5>1. i > old.after BY <1>2, <4>2, Account
        <5>2. i \in page BY <3>1, <3>5, <5>1
        <5> QED BY <3>3, <5>2
      <4> QED BY <4>1, <4>2
    <3>6. Covered(l)
      <4>1. l.got \subseteq Been /\ l.since \subseteq Been BY <1>3, <2>1, <3>3, Account DEF Covered
      <4>2. \A i \in l.since \cap There : i <= l.after => i \in l.got \cup l.lost BY <3>3, <3>5
      <4> HIDE DEF l
      <4> QED BY <3>3, <4>1, <4>2 DEF Covered
    <3> HIDE DEF l
    <3> QED BY <1>6, <3>3, <3>4, <3>6
  <2> QED BY <2>2, <2>3
<1> QED BY <1>7, <1>8 DEF List

\* A failed create is resolved: what the listing has under the rig's name is its
\* machine, and where it has none, and none can come, there is none.
LEMMA ResolvedStep ==
  ASSUME ReadsBack, AdapterInv, NEW r \in Rigs, Resolved(r)
  PROVE  AdapterTypes' /\ OwnMachine' /\ InPlace' /\ Listings'
<1> DEFINE l == listing[r]
           found == {i \in l.got : RigID(i) = <<r>>}
<1>1. /\ rig[r].state = "failed" /\ l.kind \in {"full", "failed"} /\ l # None /\ l \in Reading
      /\ machine' = machine /\ sweep' = sweep /\ listing' = [listing EXCEPT ![r] = None]
  BY Facts DEF Resolved, None, AdapterTypes
<1>2. /\ Covered(l) /\ misled \subseteq misled'
      /\ rig[r].class # "unknown" => (Mine(r) \cap There) \ misled \subseteq l.since
  BY <1>1, Facts DEF Listings, Resolved
<1>3. \A i \in 1..Machines : i \in l.got /\ i \in Mine(r) <=> i \in found
  <2>1. AdapterTypes /\ OwnMachine BY Facts
  <2>2. \A i \in 1..Machines : IF machine[i].ours THEN RigID(i) = <<machine[i].rig>> ELSE RigID(i) = <<>>
    BY <2>1, ReadAs
  <2>3. \A i \in 1..Machines : RigID(i) = <<r>> <=> i \in Mine(r)
    <3>1. <<r>> # <<>> /\ \A p \in Rigs \cup {Lost} : <<p>> = <<r>> <=> p = r OBVIOUS
    <3>2. \A i \in 1..Machines : machine[i].rig \in Rigs \cup {Lost} BY Facts DEF Machine
    <3> QED BY <2>2, <3>1, <3>2 DEF Mine
  <2> QED BY <2>3
<1>4. found \subseteq 1..Machines BY <1>1 DEF Reading
<1>5. \E s \in RigStates, k \in 0..Machines :
        /\ rig' = [rig EXCEPT ![r].state = s, ![r].instance = k]
        /\ \/ s = "left" /\ k = rig[r].instance
           \/ s = "ending" /\ k \in found
           \/ s = "closed" /\ k = rig[r].instance /\ found = {} /\ l.kind = "full" /\ rig[r].class # "unknown"
  <2>1. rig[r].instance \in 0..Machines /\ {"left", "ending", "closed"} \subseteq RigStates
    BY Facts DEF Record, RigStates
  <2>2. ASSUME NEW s \in RigStates, rig' = [rig EXCEPT ![r].state = s]
        PROVE  rig' = [rig EXCEPT ![r].state = s, ![r].instance = rig[r].instance]
    BY <2>2, Facts DEF Record
  <2>3. CASE l.kind = "failed" BY <2>1, <2>2, <2>3, <1>1 DEF Resolved
  <2>4. CASE l.kind = "full" /\ found # {}
    <3>1. PICK k \in found : rig' = [rig EXCEPT ![r].state = "ending", ![r].instance = k]
      BY <2>4 DEF Resolved
    <3>2. k \in 0..Machines /\ "ending" \in RigStates BY <1>4, <2>1, AdapterConstants
    <3> QED BY <3>1, <3>2
  <2>5. CASE l.kind = "full" /\ found = {}
    <3>1. rig' = [rig EXCEPT ![r].state = IF rig[r].class = "unknown" THEN "left" ELSE "closed"]
      BY <2>5 DEF Resolved
    <3> QED BY <2>1, <2>2, <2>5, <3>1
  <2> QED BY <1>1, <2>3, <2>4, <2>5
<1> PICK s \in RigStates, k \in 0..Machines :
        /\ rig' = [rig EXCEPT ![r].state = s, ![r].instance = k]
        /\ \/ s = "left" /\ k = rig[r].instance
           \/ s = "ending" /\ k \in found
           \/ s = "closed" /\ k = rig[r].instance /\ found = {} /\ l.kind = "full" /\ rig[r].class # "unknown"
  BY <1>5
<1>6. /\ rig' \in [Rigs -> Record] /\ rig'[r].state = s /\ rig'[r].instance = k
      /\ rig'[r].class = rig[r].class
      /\ \A p \in Rigs : p # r => rig'[p] = rig[p]
  <2>1. rig \in [Rigs -> Record] BY Facts
  <2> QED BY <2>1 DEF Record
<1>7. listing' \in [Rigs \cup {Sweep} -> Reading \cup {None}] /\ listing'[r] = None /\ Listings'
  <2>1. listing'[r] = None /\ r \in Rigs \cup {Sweep} /\ None \in Reading \cup {None}
    BY <1>1, Facts DEF AdapterTypes
  <2>2. \A p \in Rigs : listing'[p] # None => rig'[p] = rig[p] BY <1>6, <2>1
  <2> QED BY <1>1, <1>2, <2>1, <2>2, ListingStep
<1>8. AdapterTypes' BY <1>1, <1>6, <1>7, Facts DEF AdapterTypes
<1>m. \A p \in Rigs : Mine(p)' = Mine(p) BY <1>1 DEF Mine
<1>9. OwnMachine'
  <2>1. \A p \in Rigs : rig'[p].state \in Knows => rig'[p].instance \in Mine(p)
    <3>1. found \subseteq Mine(r) BY <1>3, <1>4
    <3>2. s \in Knows => k \in found BY DEF Knows
    <3>3. \A p \in Rigs : p # r /\ rig'[p].state \in Knows => rig'[p].instance \in Mine(p)
      BY <1>6, Facts
    <3> QED BY <1>6, <3>1, <3>2, <3>3
  <2>2. \A p \in Rigs : rig'[p].state = "none" => rig[p].state = "none" BY <1>6
  <2> QED BY <1>1, <1>m, <2>1, <2>2, Facts DEF OwnMachine
<1>10. ASSUME NEW p \in Rigs, NEW i \in Mine(p)
       PROVE  Standing(rig'[p].state, rig'[p].class, machine'[i].state, i, misled')
  <2>1. Standing(rig[p].state, rig[p].class, machine[i].state, i, misled) /\ i \in 1..Machines BY Facts
  <2>2. CASE p # r BY <1>1, <1>2, <1>6, <2>1, <2>2 DEF Standing
  <2>3. CASE p = r
    <3>1. machine[i].state \in MachineStates /\ machine[i].state # "asked"
          /\ (machine[i].state = "coming" => rig[r].class = "unknown" \/ i \in misled)
      BY <1>1, <2>1, <2>3, Facts DEF Standing
    <3>2. CASE s = "left" BY <1>1, <1>6, <2>1, <2>3, <3>1, <3>2 DEF Standing
    <3>3. CASE s = "ending" /\ k \in found
      <4>1. k = i BY <1>3, <1>4, <2>3, <3>3, Facts
      <4>2. i \in Been BY <1>2, <3>3, <4>1 DEF Covered
      <4>3. machine[i].state \in {"there", "gone"} BY <4>2 DEF Been
      <4> QED BY <1>1, <1>6, <2>3, <3>3, <4>3 DEF Standing
    <3>4. CASE s = "closed" /\ found = {} /\ l.kind = "full" /\ rig[r].class # "unknown"
      <4>1. i \notin l.got BY <1>3, <2>1, <2>3, <3>4
      <4>2. i \in l.lost => i \in misled'
        <5>1. rig'[r].state = "closed" /\ machine[i].ours /\ machine[i].rig = r
          BY <1>6, <2>3, <3>4 DEF Mine
        <5>2. misled' = misled \cup {k1 \in l.lost : machine[k1].ours /\ machine[k1].rig = r}
          BY <5>1 DEF Resolved
        <5> QED BY <5>1, <5>2
      <4>3. ASSUME i \notin misled' PROVE machine[i].state = "gone"
        <5>1. i \notin misled /\ i \notin l.lost BY <1>2, <4>2, <4>3
        <5>2. i \notin There BY <1>2, <2>3, <3>4, <4>1, <5>1 DEF Covered
        <5>3. machine[i].state # "there" BY <2>1, <5>2, Account DEF There
        <5> QED BY <2>1, <3>1, <3>4, <5>1, <5>3 DEF MachineStates, Standing
      <4>4. machine[i].state \notin {"unused", "asked"} BY <2>1, <3>1 DEF Standing
      <4>5. ASSUME i \notin misled' PROVE machine'[i].state = "gone" BY <1>1, <4>3, <4>5
      <4>6. rig'[p].state = "closed" /\ machine'[i].state \notin {"unused", "asked"}
        BY <1>1, <1>6, <2>3, <3>4, <4>4
      <4> QED BY <4>5, <4>6 DEF Standing
    <3> QED BY <3>2, <3>3, <3>4
  <2> QED BY <2>2, <2>3
<1> QED BY <1>7, <1>8, <1>9, <1>10, <1>m DEF InPlace

\* The sweep reads the record after its listing, and names by label.
LEMMA SweepReadsStep ==
  ASSUME ReadsBack, AdapterInv, SweepReads
  PROVE  AdapterTypes' /\ OwnMachine' /\ InPlace' /\ Listings' /\ SweepTellsOrphans'
<1> DEFINE l == listing[Sweep]
           tracked(readable) == {r \in Rigs : readable /\ Rented(r)}
           orphans(readable) == Orphans(l.got, tracked(readable))
           wronged(readable) == {i \in orphans(readable) : \E r \in Rigs : Rented(r) /\ rig[r].instance = i}
           missed(readable) == {i \in (l.since \cap There) \ orphans(readable) :
                                  machine[i].ours /\ \A r \in Rigs : machine[i].rig = r => ~Rented(r)}
<1>1. /\ l.kind \in {"full", "failed"} /\ l # None /\ l \in Reading
      /\ machine' = machine /\ rig' = rig /\ listing' = [listing EXCEPT ![Sweep] = None]
      /\ sweep \in Swept /\ SweepTellsOrphans /\ misled' = misled
  BY Facts DEF SweepReads, None, AdapterTypes, AdapterInv
<1>2. Covered(l) BY <1>1, Facts DEF Listings
<1>3. /\ \A i \in 1..Machines : machine[i].ours => RigID(i) = <<machine[i].rig>>
      /\ \A r \in Rigs : \A i \in Mine(r) : RigID(i) = <<r>>
  <2>1. AdapterTypes /\ OwnMachine BY Facts
  <2>2. \A i \in 1..Machines : IF machine[i].ours THEN RigID(i) = <<machine[i].rig>> ELSE RigID(i) = <<>>
    BY <2>1, ReadAs
  <2> QED BY <2>2 DEF Mine
<1>4. ASSUME NEW readable \in BOOLEAN, readable PROVE wronged(readable) = {}
  <2>1. ASSUME NEW i \in orphans(readable), NEW r \in Rigs, Rented(r), rig[r].instance = i PROVE FALSE
    <3>1. i \in Mine(r) BY <2>1, Facts DEF Rented, Knows
    <3>2. RigID(i) = <<r>> BY <1>3, <3>1
    <3>3. r \in tracked(readable) BY <1>4, <2>1
    <3>4. \A p \in tracked(readable) : RigID(i) # <<p>> BY <2>1 DEF Orphans
    <3> QED BY <3>2, <3>3, <3>4
  <2> QED BY <2>1
<1>5. ASSUME l.kind = "full", NEW readable \in BOOLEAN
      PROVE  missed(readable) \subseteq l.lost
  <2>1. ASSUME NEW i \in l.since \cap There, i \notin orphans(readable), machine[i].ours,
               \A r \in Rigs : machine[i].rig = r => ~Rented(r), i \notin l.lost
        PROVE  FALSE
    <3>1. i \in l.got /\ i \in 1..Machines BY <1>2, <1>5, <2>1, Account DEF Covered
    <3>2. RigID(i) = <<machine[i].rig>> BY <1>3, <2>1, <3>1
    <3>3. <<machine[i].rig>> # <<>> /\ \A r \in Rigs : <<machine[i].rig>> = <<r>> => machine[i].rig = r
      OBVIOUS
    <3>4. \A r \in tracked(readable) : r \in Rigs /\ Rented(r) OBVIOUS
    <3>5. \A r \in tracked(readable) : RigID(i) # <<r>> BY <2>1, <3>2, <3>3, <3>4
    <3> HIDE DEF tracked
    <3> QED BY <2>1, <3>1, <3>2, <3>3, <3>5 DEF Orphans
  <2> QED BY <2>1
<1>6. sweep' \in Swept /\ SweepTellsOrphans'
  <2>1. CASE l.kind = "failed"
    <3>1. sweep' = [sweep EXCEPT !.state = "over"] BY <2>1 DEF SweepReads
    <3>2. /\ sweep' \in Swept /\ sweep'.wronged = sweep.wronged /\ sweep'.missed = sweep.missed
          /\ sweep'.blind = sweep.blind /\ sweep'.lost = sweep.lost
      BY <1>1, <3>1 DEF Swept
    <3> QED BY <1>1, <3>2 DEF SweepTellsOrphans, TrackedIsNoOrphan
  <2>2. CASE l.kind = "full"
    <3> PICK readable \in BOOLEAN :
          sweep' = [state |-> "destroying", orphans |-> orphans(readable), blind |-> ~readable,
                    lost |-> l.lost, wronged |-> wronged(readable), missed |-> missed(readable)]
      BY <2>2 DEF SweepReads
    <3>1. orphans(readable) \subseteq 1..Machines BY <1>1 DEF Orphans, Reading
    <3>2. /\ wronged(readable) \subseteq 1..Machines /\ missed(readable) \subseteq 1..Machines
          /\ l.lost \subseteq 1..Machines
      BY <1>1, <3>1, Account DEF Reading
    <3>3. readable => wronged(readable) = {} BY <1>4
    <3>4. missed(readable) \subseteq l.lost BY <1>5, <2>2
    <3> HIDE DEF orphans, wronged, missed
    <3>5. sweep' \in Swept BY <3>1, <3>2 DEF Swept
    <3>6. /\ sweep'.wronged # {} => sweep'.blind
          /\ sweep'.missed \subseteq sweep'.lost
      BY <3>3, <3>4
    <3> QED BY <3>5, <3>6 DEF SweepTellsOrphans, TrackedIsNoOrphan
  <2> QED BY <1>1, <2>1, <2>2
<1>7. listing' \in [Rigs \cup {Sweep} -> Reading \cup {None}] /\ Listings'
  <2>1. Sweep \in Rigs \cup {Sweep} /\ None \in Reading \cup {None} OBVIOUS
  <2> QED BY <1>1, <2>1, ListingStep
<1>8. AdapterTypes' BY <1>1, <1>6, <1>7, Facts DEF AdapterTypes
<1>9. OwnMachine' /\ InPlace'
  <2>1. \A p \in Rigs : Mine(p)' = Mine(p) BY <1>1 DEF Mine
  <2> QED BY <1>1, <2>1, Facts DEF OwnMachine, InPlace
<1> QED BY <1>6, <1>8, <1>9, <1>7

\* One that a listing begins, or that it goes on with.
LEMMA ReaderStep ==
  ASSUME AdapterInv,
         machine' = machine, rig' = rig, misled' = misled, sweep' \in Swept,
         Listings', listing' \in [Rigs \cup {Sweep} -> Reading \cup {None}]
  PROVE  AdapterTypes' /\ OwnMachine' /\ InPlace' /\ Listings'
<1>1. AdapterTypes' BY Facts DEF AdapterTypes
<1>2. \A p \in Rigs : Mine(p)' = Mine(p) BY DEF Mine
<1> QED BY <1>1, <1>2, Facts DEF OwnMachine, InPlace

LEMMA AdapterInit0 ==
  ASSUME AdapterInit PROVE AdapterTypes /\ OwnMachine /\ InPlace /\ Listings
<1> DEFINE m0 == [i \in 1..Machines |-> Unused]
           lost0 == [state |-> "there", rig |-> Lost, ours |-> TRUE, label |-> EncodeLabel(Lost, Len(Details))]
<1>1. /\ rig = [r \in Rigs |-> [state |-> "none", instance |-> 0, class |-> "none"]]
      /\ listing = [a \in Rigs \cup {Sweep} |-> None]
      /\ sweep = [state |-> "idle", orphans |-> {}, blind |-> FALSE, lost |-> {}, wronged |-> {}, missed |-> {}]
  BY DEF AdapterInit
<1>2. PICK own \in {Unused, [Unused EXCEPT !.state = "there"]}, lost \in {Unused, lost0} :
        machine = [m0 EXCEPT ![1] = own, ![2] = lost]
  BY DEF AdapterInit
<1>3. /\ Unused \in Machine /\ lost0 \in Machine /\ own \in Machine
      /\ Unused.state = "unused" /\ ~Unused.ours /\ ~own.ours /\ own.state \in {"unused", "there"}
      /\ lost = Unused \/ (lost.rig = Lost /\ lost.state = "there" /\ lost.label = EncodeLabel(Lost, Len(Details)))
  <2>1. <<>> \in Label BY DEF Label
  <2>2. EncodeLabel(Lost, Len(Details)) \in Label
    BY LabelTypes, AdapterConstants
  <2>3. Unused \in Machine BY <2>1 DEF Unused, Machine, MachineStates
  <2>4. lost0 \in Machine BY <2>2 DEF Machine, MachineStates
  <2>5. own \in Machine /\ ~own.ours /\ own.state \in {"unused", "there"}
    <3>1. CASE own = Unused BY <2>3, <3>1 DEF Unused
    <3>2. CASE own = [Unused EXCEPT !.state = "there"]
      <4>1. own = [state |-> "there", rig |-> Lost, ours |-> FALSE, label |-> <<>>]
        BY <3>2 DEF Unused
      <4> QED BY <2>1, <4>1 DEF Machine, MachineStates
    <3> QED BY <1>2, <3>1, <3>2
  <2> QED BY <2>3, <2>4, <2>5 DEF Unused
<1>4. /\ machine \in [1..Machines -> Machine]
      /\ \A i \in 1..Machines : machine[i] \in {Unused, own, lost}
  <2>1. m0 \in [1..Machines -> Machine] /\ lost \in Machine BY <1>3
  <2> QED BY <1>2, <1>3, <2>1
<1>5. ASSUME NEW i \in 1..Machines
      PROVE  /\ machine[i].state \in {"unused", "there"}
             /\ machine[i].ours => /\ machine[i].rig = Lost
                                   /\ machine[i].label = EncodeLabel(Lost, Len(Details))
  BY <1>3, <1>4
<1>6. \A r \in Rigs : Mine(r) = {}
  BY <1>5, AdapterConstants DEF Mine
<1>7. OwnMachine
  <2>1. \A i \in 1..Machines :
          /\ machine[i].ours => \E kept \in 0..Len(Details) : machine[i].label = EncodeLabel(machine[i].rig, kept)
          /\ machine[i].state \in {"asked", "coming"} => machine[i].ours
    <3>1. Len(Details) \in 0..Len(Details) BY AdapterConstants
    <3> QED BY <1>5, <3>1
  <2>2. \A r \in Rigs : rig[r].state = "none" /\ rig[r].state \notin Knows BY <1>1 DEF Knows
  <2> QED BY <1>6, <2>1, <2>2 DEF OwnMachine
<1>8. AdapterTypes
  <2>1. [state |-> "none", instance |-> 0, class |-> "none"] \in Record
    BY AdapterConstants DEF Record, RigStates, ErrorClass
  <2>2. [state |-> "idle", orphans |-> {}, blind |-> FALSE, lost |-> {}, wronged |-> {}, missed |-> {}] \in Swept BY DEF Swept
  <2> QED BY <1>1, <1>4, <2>1, <2>2 DEF AdapterTypes
<1>9. InPlace /\ Listings
  <2>1. \A a \in Rigs \cup {Sweep} : listing[a] = None BY <1>1
  <2> QED BY <1>6, <2>1 DEF InPlace, Listings
<1> QED BY <1>7, <1>8, <1>9

-----------------------------------------------------------------------------
(* AdapterSpec                                                             *)

\* A rig in place has no machine once it is closed or ended, but one denied.
LEMMA InPlaceEnds == ASSUME AdapterTypes, InPlace PROVE EndedHasNoMachine
<1> SUFFICES ASSUME NEW i \in 1..Machines, NEW r \in Rigs,
                    machine[i].state \in {"there", "coming"}, machine[i].ours, machine[i].rig = r,
                    rig[r].state \in {"closed", "ended"}, i \notin misled
             PROVE  FALSE
  BY DEF EndedHasNoMachine
<1>1. i \in Mine(r) BY DEF Mine
<1> QED BY <1>1 DEF InPlace, Standing

LEMMA AdapterStep ==
  ASSUME ReadsBack, AdapterInv, [AdapterNext]_avars PROVE AdapterInv'
<1> DEFINE goal == AdapterTypes' /\ OwnMachine' /\ InPlace' /\ Listings'
<1>0. sweep \in Swept /\ SweepTellsOrphans BY Facts DEF AdapterTypes, AdapterInv
<1>c. {"there", "gone"} \subseteq MachineStates BY DEF MachineStates
<1>e. ASSUME goal, sweep'.wronged = sweep.wronged, sweep'.missed = sweep.missed,
             sweep'.blind = sweep.blind, sweep'.lost = sweep.lost
      PROVE  AdapterInv'
  <2>1. SweepTellsOrphans' BY <1>e, <1>0 DEF SweepTellsOrphans, TrackedIsNoOrphan
  <2> QED BY <1>e, <2>1 DEF AdapterInv
<1>1. ASSUME NEW r \in Rigs, Create(r) PROVE AdapterInv'
  <2>1. sweep' = sweep BY <1>1 DEF Create
  <2> QED BY <1>1, <1>e, <2>1, CreateStep
<1>2. ASSUME NEW r \in Rigs, Resolve(r) PROVE AdapterInv'
  <2>1. /\ machine' = machine /\ rig' = rig /\ sweep' = sweep /\ misled' = misled
        /\ rig[r].state = "failed" /\ ListBegins(r)
    BY <1>2 DEF Resolve
  <2>2. Listings' /\ listing' \in [Rigs \cup {Sweep} -> Reading \cup {None}]
    BY <2>1, ListBeginsStep
  <2> QED BY <1>0, <1>e, <2>1, <2>2, ReaderStep
<1>3. ASSUME NEW r \in Rigs, Resolved(r) PROVE AdapterInv'
  <2>1. sweep' = sweep BY <1>3 DEF Resolved
  <2> QED BY <1>3, <1>e, <2>1, ResolvedStep
<1>4. ASSUME NEW r \in Rigs, Down(r) PROVE AdapterInv'
  <2>1. /\ sweep' = sweep /\ listing' = listing /\ machine' = machine /\ rig[r].state = "rented"
        /\ misled' = misled /\ rig' = [rig EXCEPT ![r].state = "ending"]
    BY <1>4 DEF Down
  <2> QED BY <1>e, <2>1, EndingStep
<1>5. ASSUME NEW r \in Rigs, Destroy(r) PROVE AdapterInv'
  <2>1. /\ sweep' = sweep /\ listing' = listing /\ misled' = misled /\ rig[r].state = "ending"
        /\ machine' \in {machine, Gone(rig[r].instance)}
        /\ rig' = [rig EXCEPT ![r].state = "confirming"]
    BY <1>5 DEF Destroy
  <2> QED BY <1>e, <2>1, EndingStep
<1>6. ASSUME NEW r \in Rigs, NEW response, Confirm(r, response) PROVE AdapterInv'
  <2>1. /\ sweep' = sweep /\ listing' = listing /\ machine' = machine /\ rig[r].state = "confirming"
        /\ response \in Answers(rig[r].instance) /\ misled \subseteq misled'
        /\ response = "empty" /\ rig[r].instance \in There => rig[r].instance \in misled'
    BY <1>6 DEF Confirm
  <2>2. PICK s \in {"ended", "confirming", "unconfirmed"} :
          rig' = [rig EXCEPT ![r].state = s] /\ (s = "ended" => Absent(response))
    BY <1>6 DEF Confirm
  <2>3. s = "ended" => machine[rig[r].instance].state # "there" \/ rig[r].instance \in misled'
    <3>1. rig[r].instance \in 1..Machines BY <2>1, Facts DEF Knows
    <3>2. machine[rig[r].instance].state = "there" => rig[r].instance \in There
      BY <3>1, Account DEF There
    <3>3. s = "ended" => response = "empty" \/ machine[rig[r].instance].state # "there"
      BY <2>1, <2>2 DEF Answers, Absent, Failing
    <3> QED BY <2>1, <3>2, <3>3
  <2> QED BY <1>e, <2>1, <2>2, <2>3, EndingStep
<1>7. ASSUME NEW r \in Rigs, NEW response, Created(r, response) PROVE AdapterInv'
  <2>1. sweep' = sweep BY <1>7 DEF Created
  <2> QED BY <1>7, <1>e, <2>1, CreatedStep
<1>8. ASSUME NEW a \in Rigs \cup {Sweep}, List(a) PROVE AdapterInv'
  <2>1. machine' = machine /\ rig' = rig /\ sweep' = sweep /\ misled' = misled BY <1>8 DEF List
  <2>2. Listings' /\ listing' \in [Rigs \cup {Sweep} -> Reading \cup {None}]
    BY <1>8, ListPageStep
  <2> QED BY <1>0, <1>e, <2>1, <2>2, ReaderStep
<1>9. CASE SweepBegins
  <2>1. /\ machine' = machine /\ rig' = rig /\ misled' = misled /\ ListBegins(Sweep)
        /\ sweep' = [sweep EXCEPT !.state = "listing"]
    BY <1>9 DEF SweepBegins
  <2>2. Listings' /\ listing' \in [Rigs \cup {Sweep} -> Reading \cup {None}]
    BY <2>1, AdapterConstants, ListBeginsStep
  <2>3. /\ sweep' \in Swept /\ sweep'.wronged = sweep.wronged /\ sweep'.missed = sweep.missed
        /\ sweep'.blind = sweep.blind /\ sweep'.lost = sweep.lost
    BY <1>0, <2>1 DEF Swept
  <2> QED BY <1>e, <2>1, <2>2, <2>3, ReaderStep
<1>10. CASE SweepReads BY <1>10, SweepReadsStep DEF AdapterInv
<1>11. ASSUME NEW i \in 1..Machines, Lands(i) PROVE AdapterInv'
  <2>1. /\ rig' = rig /\ listing' = listing /\ sweep' = sweep /\ misled' = misled
        /\ machine[i].state \in {"asked", "coming"}
        /\ machine' = [machine EXCEPT ![i].state = "there"]
    BY <1>11 DEF Lands
  <2> QED BY <1>0, <1>c, <1>e, <2>1, MachineStep
<1>12. ASSUME NEW i \in 1..Machines, Vanishes(i) PROVE AdapterInv'
  <2>1. /\ rig' = rig /\ listing' = listing /\ sweep' = sweep /\ misled' = misled
        /\ machine[i].state = "there"
        /\ machine' = [machine EXCEPT ![i].state = "gone"]
    BY <1>12 DEF Vanishes
  <2> QED BY <1>0, <1>c, <1>e, <2>1, MachineStep
<1>s. ASSUME sweep' \in Swept, machine' = machine, rig' = rig, listing' = listing, misled' = misled
      PROVE  goal
  <2>1. Listings'
    <3>1. Been' = Been /\ There' = There /\ \A p \in Rigs : Mine(p)' = Mine(p)
      BY <1>s DEF Been, There, Mine
    <3> QED BY <1>s, <3>1, Facts DEF Listings, Covered
  <2>2. listing \in [Rigs \cup {Sweep} -> Reading \cup {None}] BY Facts DEF AdapterTypes
  <2> QED BY <1>s, <2>1, <2>2, ReaderStep
<1>13. ASSUME NEW i \in 1..Machines, SweepDestroys(i) PROVE AdapterInv'
  <2>1. /\ rig' = rig /\ listing' = listing /\ misled' = misled /\ machine' \in {machine, Gone(i)}
        /\ sweep' = [sweep EXCEPT !.orphans = @ \ {i}]
    BY <1>13 DEF SweepDestroys
  <2>2. /\ sweep' \in Swept /\ sweep'.wronged = sweep.wronged /\ sweep'.missed = sweep.missed
        /\ sweep'.blind = sweep.blind /\ sweep'.lost = sweep.lost
    BY <1>0, <2>1 DEF Swept
  <2>3. CASE machine' = machine BY <1>s, <1>e, <2>1, <2>2, <2>3
  <2>4. CASE machine[i].state = "there" /\ machine' = [machine EXCEPT ![i].state = "gone"]
    BY <1>c, <1>e, <2>1, <2>2, <2>4, MachineStep
  <2> QED BY <2>1, <2>3, <2>4 DEF Gone
<1>14. CASE UNCHANGED avars BY <1>0, <1>s, <1>e, <1>14 DEF avars
<1> QED BY <1>1, <1>2, <1>3, <1>4, <1>5, <1>6, <1>7, <1>8, <1>9, <1>10, <1>11, <1>12, <1>13, <1>14
        DEF AdapterNext

\* AdapterSpec keeps machines, records and listings in step, provided that labels
\* read back.
THEOREM AdapterInvariant == ASSUME ReadsBack PROVE AdapterSpec => []AdapterInv
<1>1. ASSUME AdapterInit PROVE AdapterInv
  <2>1. AdapterTypes /\ OwnMachine /\ InPlace /\ Listings BY <1>1, AdapterInit0
  <2>2. SweepTellsOrphans BY <1>1 DEF AdapterInit, SweepTellsOrphans, TrackedIsNoOrphan
  <2> QED BY <2>1, <2>2 DEF AdapterInv
<1>2. AdapterInv /\ [AdapterNext]_avars => AdapterInv' BY AdapterStep
<1> QED BY <1>1, <1>2, PTL DEF AdapterSpec

\* A rig on record as ended or closed has no machine on the account and none to
\* come, whatever was lost, cut off or carried out late, except one that the
\* provider's answer denied: a query that a machine there answers with nothing, a
\* listing that passes it over, a create refused and carried out after all.
THEOREM EndedIsGone == ASSUME ReadsBack PROVE AdapterSpec => []EndedHasNoMachine
<1>1. AdapterInv => EndedHasNoMachine BY InPlaceEnds DEF AdapterInv
<1> QED BY <1>1, AdapterInvariant, PTL

\* A sweep that could list the account names no machine of a rig that is rented
\* unless it could read no record; and it names all of larri's that were there
\* throughout and belong to none, but what its listing passed over.
THEOREM SweepTells == ASSUME ReadsBack PROVE AdapterSpec => []SweepTellsOrphans
<1>1. AdapterInv => SweepTellsOrphans BY DEF AdapterInv
<1> QED BY <1>1, AdapterInvariant, PTL
-----------------------------------------------------------------------------
(* Market                                                                  *)

\* The greatest of some of the first numbers is one of them.
LEMMA MaxOf ==
  ASSUME NEW n \in Nat, NEW S, S \subseteq 1..n, S # {}
  PROVE  Max(S) \in S /\ \A y \in S : y <= Max(S)
<1>1. S \subseteq 0..n OBVIOUS
<1>2. PICK x \in S : \A y \in S : y <= x BY <1>1, GreatestNumber
<1>3. \A y \in S : x >= y BY <1>1, <1>2
<1>4. \A y \in S : Max(S) >= y /\ Max(S) \in S BY <1>3 DEF Max
<1> QED BY <1>1, <1>2, <1>4

\* Truncations.
LEMMA Percent ==
  ASSUME NEW a \in Nat
  PROVE  /\ (a * 95) \div 100 \in Nat /\ 100 * ((a * 95) \div 100) <= 95 * a
         /\ 95 * a < 100 * ((a * 95) \div 100) + 100
         /\ (a * 110) \div 100 \in Nat /\ 100 * ((a * 110) \div 100) <= 110 * a
         /\ 110 * a < 100 * ((a * 110) \div 100) + 100
         /\ (a * 8) \div 100 \in Nat
         /\ (a * 115 + 99) \div 100 \in Nat /\ a <= (a * 115 + 99) \div 100
OBVIOUS

LEMMA Dominates == ASSUME NEW a \in Nat, NEW b \in Nat, NEW c \in Nat, a <= b PROVE a * c <= b * c
OBVIOUS

LEMMA MarketConstants ==
  /\ GiB \in Nat /\ 1 <= GiB /\ RuntimeImage \in Nat
  /\ \A q \in DOMAIN Bits : Bits[q] \in Nat
  /\ MinContext \in Nat /\ DefaultDisk \in Nat
  /\ SessionHours \in Nat /\ 1 <= SessionHours /\ Hour \in Nat /\ 1 <= Hour
  /\ Requests \subseteq Request /\ Listing \subseteq Offered /\ IsFiniteSet(Listing)
  /\ Hosts \subseteq [gpus : Nat \ {0}, card : Nat]
BY SizingAssumption, RankingAssumption, MarketAssumption

-----------------------------------------------------------------------------
(* Cards                                                                   *)

\* The cards a model is put on are there, a degree it starts with, and the most
\* of those.
LEMMA ShardsStart ==
  ASSUME NEW r \in Request, NEW gpus \in Nat \ {0}
  PROVE  LET shards == Shards(r.facts, gpus, r.tensorParallel)
         IN /\ shards \in 1..gpus /\ Starts(r, shards)
            /\ \A n \in 1..gpus : Starts(r, n) => n <= shards
<1> DEFINE shards == Shards(r.facts, gpus, r.tensorParallel)
<1>t. r.facts.heads \in Nat /\ r.tensorParallel \in BOOLEAN BY DEF Request, ModelFacts
<1>p. PowerOfTwo(1) BY DEF PowerOfTwo
<1>1. CASE gpus <= 1
  <2>1. gpus = 1 /\ shards = 1 BY <1>1 DEF Shards
  <2>2. Starts(r, 1) BY <1>p DEF Starts
  <2> QED BY <2>1, <2>2
<1>2. CASE ~(gpus <= 1) /\ ~r.tensorParallel
  <2>1. shards = gpus BY <1>2 DEF Shards
  <2>2. Starts(r, shards) BY <1>2 DEF Starts
  <2> QED BY <2>1, <2>2
<1>3. CASE ~(gpus <= 1) /\ r.tensorParallel /\ r.facts.heads = 0
  <2> DEFINE S == {n \in 1..gpus : PowerOfTwo(n)}
  <2>1. shards = Max(S) BY <1>3 DEF Shards
  <2>2. S \subseteq 1..gpus /\ 1 \in S BY <1>p
  <2>3. Max(S) \in S /\ \A y \in S : y <= Max(S) BY <2>2, MaxOf
  <2>4. \A n \in 1..gpus : Starts(r, n) <=> n \in S BY <1>3 DEF Starts
  <2> HIDE DEF S
  <2> QED BY <2>1, <2>2, <2>3, <2>4
<1>4. CASE ~(gpus <= 1) /\ r.tensorParallel /\ r.facts.heads # 0
  <2> DEFINE S == {1} \cup {n \in 2..gpus : shardable(r.facts, n)}
  <2>1. shards = Max(S) BY <1>4 DEF Shards
  <2>2. S \subseteq 1..gpus /\ 1 \in S BY <1>4
  <2>3. Max(S) \in S /\ \A y \in S : y <= Max(S) BY <2>2, MaxOf
  <2>4. \A n \in 1..gpus : Starts(r, n) <=> n = 1 \/ shardable(r.facts, n) BY <1>4, <1>t DEF Starts
  <2>5. \A n \in 1..gpus : Starts(r, n) <=> n \in S
    <3>1. \A n \in 1..gpus : n \in S <=> n = 1 \/ (n \in 2..gpus /\ shardable(r.facts, n)) OBVIOUS
    <3>2. \A n \in 1..gpus : n \in 2..gpus <=> n # 1 OBVIOUS
    <3> QED BY <2>4, <3>1, <3>2
  <2> HIDE DEF S
  <2> QED BY <2>1, <2>2, <2>3, <2>5
<1> QED BY <1>t, <1>1, <1>2, <1>3, <1>4

-----------------------------------------------------------------------------
(* Memory                                                                  *)

\* What a model takes without the overheads, the overhead that grows with it, and
\* all of it before the safety margin.
Plain(f, weights, context) == weights + kvBytes(f, context) + activationBytes(f, context)
Share(f, weights, context) == ((weights + kvBytes(f, context)) * 8) \div 100
Taken(f, weights, context, gpus) ==
  Plain(f, weights, context) + Larger(GiB * gpus, Share(f, weights, context))

LEMMA PlainOf ==
  ASSUME NEW f \in ModelFacts, NEW weights \in Nat, NEW context \in Nat
  PROVE  Plain(f, weights, context) \in Nat /\ Share(f, weights, context) \in Nat
<1>1. kvBytes(f, context) \in Nat /\ activationBytes(f, context) \in Nat
  <2>1. f.kvToken \in Nat /\ f.actToken \in Nat BY DEF ModelFacts
  <2>2. f.kvToken * context \in Nat /\ f.actToken * context \in Nat BY <2>1
  <2> QED BY <2>2 DEF kvBytes, activationBytes
<1>2. weights + kvBytes(f, context) \in Nat BY <1>1
<1>3. Share(f, weights, context) \in Nat BY <1>2, Percent DEF Share
<1> QED BY <1>1, <1>3 DEF Plain

LEMMA TakenOf ==
  ASSUME NEW f \in ModelFacts, NEW weights \in Nat, NEW context \in Nat, NEW gpus \in Nat \ {0}
  PROVE  /\ Taken(f, weights, context, gpus) \in Nat /\ 1 <= Taken(f, weights, context, gpus)
         /\ Required(f, weights, context, gpus) = (Taken(f, weights, context, gpus) * 110) \div 100
         /\ Required(f, weights, context, gpus) \in Nat /\ 1 <= Required(f, weights, context, gpus)
<1> DEFINE taken == Taken(f, weights, context, gpus)
           share == Share(f, weights, context)
<1>2. Plain(f, weights, context) \in Nat /\ share \in Nat BY PlainOf
<1>3. GiB * gpus \in Nat /\ 1 <= GiB * gpus
  <2>1. GiB \in Nat /\ 1 <= GiB /\ gpus \in Nat /\ 1 <= gpus BY MarketConstants
  <2>2. 1 * gpus <= GiB * gpus BY <2>1, Dominates
  <2> QED BY <2>1, <2>2
<1>4. Larger(gpus, 1) = gpus BY DEF Larger
<1>6. Larger(GiB * gpus, share) \in Nat /\ 1 <= Larger(GiB * gpus, share)
  BY <1>2, <1>3 DEF Larger
<1>7. taken \in Nat /\ 1 <= taken BY <1>2, <1>6 DEF Taken
<1>8. Required(f, weights, context, gpus) = (taken * 110) \div 100
  <2>1. /\ weights + kvBytes(f, context) \in Int /\ kvBytes(f, context) \in Nat
        /\ activationBytes(f, context) \in Nat
    <3>1. f.kvToken \in Nat /\ f.actToken \in Nat BY DEF ModelFacts
    <3>2. f.kvToken * context \in Nat /\ f.actToken * context \in Nat BY <3>1
    <3> QED BY <3>2 DEF kvBytes, activationBytes
  <2>2. overheadBytes(weights + kvBytes(f, context), gpus) = Larger(GiB * gpus, share)
    BY <1>4 DEF overheadBytes, Share
  <2>3. taken = (weights + kvBytes(f, context) + activationBytes(f, context))
                  + overheadBytes(weights + kvBytes(f, context), gpus)
    BY <2>2 DEF Taken, Plain
  <2> QED BY <2>3 DEF Required
<1>9. (taken * 110) \div 100 \in Nat /\ 1 <= (taken * 110) \div 100
  BY <1>7
<1> QED BY <1>7, <1>8, <1>9

LEMMA RequiredForm ==
  ASSUME NEW f \in ModelFacts, NEW weights \in Nat, NEW context \in Nat
  PROVE  \A g \in Nat \ {0} :
           LET base == Plain(f, weights, context)
               share == Share(f, weights, context)
           IN /\ Required(f, weights, context, g) = ((base + Larger(GiB * g, share)) * 110) \div 100
              /\ Required(f, weights, context, g) \in Nat
<1> TAKE g \in Nat \ {0}
<1>1. /\ Required(f, weights, context, g) = (Taken(f, weights, context, g) * 110) \div 100
      /\ Required(f, weights, context, g) \in Nat
  BY TakenOf
<1> QED BY <1>1 DEF Taken

\* Truncation keeps an inequality that has a unit to spare.
LEMMA Spare ==
  ASSUME NEW a \in Nat, NEW b \in Nat, NEW c \in Nat, NEW d \in Nat,
         (a * 110) \div 100 <= (b * 95) \div 100,
         110 * c + 100 <= 95 * d
  PROVE  ((a + c) * 110) \div 100 <= ((b + d) * 95) \div 100
<1>1. 110 * a < 95 * b + 100
  <2>1. /\ (a * 110) \div 100 \in Nat /\ 110 * a < 100 * ((a * 110) \div 100) + 100
        /\ (b * 95) \div 100 \in Nat /\ 100 * ((b * 95) \div 100) <= 95 * b
    BY Percent
  <2> QED BY <2>1
<1>2. 110 * (a + c) <= 95 * (b + d) BY <1>1
<1>3. a + c \in Nat /\ b + d \in Nat OBVIOUS
<1>4. /\ ((a + c) * 110) \div 100 \in Nat /\ 100 * (((a + c) * 110) \div 100) <= 110 * (a + c)
      /\ ((b + d) * 95) \div 100 \in Nat /\ 95 * (b + d) < 100 * (((b + d) * 95) \div 100) + 100
  BY <1>3, Percent
<1> QED BY <1>2, <1>3, <1>4

\* Where a card has two gigabytes or more, the model that fits on some cards fits
\* on more of them: each brings more than it takes.
LEMMA MoreCardsFit ==
  ASSUME NEW f \in ModelFacts, NEW weights \in Nat, NEW context \in Nat, NEW vram \in Nat,
         2 <= vram, 2 <= GiB, NEW n \in Nat \ {0}, NEW m \in Nat \ {0}, n <= m
  PROVE  Required(f, weights, context, n) <= UsableVRAM(vram * n * GiB) =>
           Required(f, weights, context, m) <= UsableVRAM(vram * m * GiB)
<1> DEFINE share == Share(f, weights, context)
           base == Plain(f, weights, context)
           few == vram * n * GiB
           many == vram * m * GiB
<1>1. /\ share \in Nat /\ base \in Nat
      /\ Required(f, weights, context, n) = ((base + Larger(GiB * n, share)) * 110) \div 100
      /\ Required(f, weights, context, m) = ((base + Larger(GiB * m, share)) * 110) \div 100
      /\ Required(f, weights, context, n) \in Nat
  <2>1. share \in Nat /\ base \in Nat BY PlainOf
  <2>2. \A g \in Nat \ {0} :
          /\ Required(f, weights, context, g) = ((base + Larger(GiB * g, share)) * 110) \div 100
          /\ Required(f, weights, context, g) \in Nat
    BY RequiredForm
  <2> QED BY <2>1, <2>2
<1> SUFFICES ASSUME Required(f, weights, context, n) <= UsableVRAM(vram * n * GiB)
             PROVE  Required(f, weights, context, m) <= UsableVRAM(vram * m * GiB)
  OBVIOUS
<1>g. GiB \in Nat BY MarketConstants
<1>2. PICK k \in Nat : m = n + k
  <2>1. m - n \in Nat OBVIOUS
  <2> QED BY <2>1
<1>3. /\ vram * n \in Nat /\ vram * m \in Nat /\ vram * k \in Nat
      /\ few \in Nat /\ many \in Nat /\ GiB * n \in Nat /\ GiB * m \in Nat /\ GiB * k \in Nat
      /\ vram * k * GiB \in Nat
  BY <1>g
<1>4. GiB * m = GiB * n + GiB * k BY <1>g, <1>2
<1>5. many = few + vram * k * GiB
  <2>1. vram * m = vram * n + vram * k BY <1>2
  <2>2. (vram * n + vram * k) * GiB = (vram * n) * GiB + (vram * k) * GiB BY <1>g, <1>3
  <2> QED BY <2>1, <2>2
<1>6. 2 * (GiB * k) <= vram * k * GiB
  <2>1. 2 * k <= vram * k BY Dominates
  <2>2. (2 * k) * GiB <= (vram * k) * GiB BY <1>g, <1>3, <2>1, Dominates
  <2>3. (2 * k) * GiB = 2 * (GiB * k) BY <1>g
  <2> QED BY <2>2, <2>3
<1>7. ((base + Larger(GiB * n, share)) * 110) \div 100 <= (few * 95) \div 100
  BY <1>1 DEF UsableVRAM, MaxGPUUtilisation
<1>8. ((base + Larger(GiB * m, share)) * 110) \div 100 <= (many * 95) \div 100
  <2>1. CASE k = 0
    <3>1. m = n BY <1>2, <2>1
    <3> QED BY <1>7, <3>1
  <2>2. CASE k # 0 /\ GiB * m <= share
    <3>1. Larger(GiB * m, share) = share /\ Larger(GiB * n, share) = share
      BY <1>1, <1>3, <1>4, <2>2 DEF Larger
    <3>2. (few * 95) \div 100 <= (many * 95) \div 100 BY <1>3, <1>5
    <3>3. ((base + share) * 110) \div 100 \in Nat /\ (few * 95) \div 100 \in Nat /\ (many * 95) \div 100 \in Nat
      BY <1>1, <1>3, Percent
    <3> QED BY <1>7, <3>1, <3>2, <3>3
  <2>3. CASE k # 0 /\ ~(GiB * m <= share)
    <3>1. Larger(GiB * m, share) = GiB * m BY <1>1, <1>3, <2>3 DEF Larger
    <3>2. Larger(GiB * n, share) \in Nat /\ GiB * n <= Larger(GiB * n, share)
      BY <1>1, <1>3 DEF Larger
    <3>3. ((base + GiB * n) * 110) \div 100 <= (few * 95) \div 100
      <4>1. ((base + GiB * n) * 110) \div 100 <= ((base + Larger(GiB * n, share)) * 110) \div 100
        BY <1>1, <1>3, <3>2
      <4>2. ((base + GiB * n) * 110) \div 100 \in Nat /\ (few * 95) \div 100 \in Nat
            /\ ((base + Larger(GiB * n, share)) * 110) \div 100 \in Nat
        <5>1. base + GiB * n \in Nat /\ base + Larger(GiB * n, share) \in Nat BY <1>1, <1>3, <3>2
        <5> QED BY <1>3, <5>1, Percent
      <4> QED BY <1>7, <4>1, <4>2
    <3>4. 110 * (GiB * k) + 100 <= 95 * (vram * k * GiB)
      <4>1. 2 <= GiB * k
        <5>1. 1 <= k BY <2>3
        <5>2. 1 * GiB <= k * GiB BY <1>g, <5>1, Dominates
        <5>3. k * GiB = GiB * k BY <1>g
        <5> QED BY <1>g, <5>2, <5>3
      <4> QED BY <1>3, <1>6, <4>1
    <3>5. (((base + GiB * n) + GiB * k) * 110) \div 100 <= ((few + vram * k * GiB) * 95) \div 100
      <4>1. base + GiB * n \in Nat BY <1>1, <1>3
      <4> QED BY <1>3, <3>3, <3>4, <4>1, Spare
    <3>6. (base + GiB * n) + GiB * k = base + GiB * m BY <1>1, <1>3, <1>4
    <3> QED BY <1>5, <3>1, <3>5, <3>6
  <2> QED BY <2>1, <2>2, <2>3
<1> QED BY <1>1, <1>8 DEF UsableVRAM, MaxGPUUtilisation

\* Nothing fits on cards of a gigabyte or of none: the engine takes as much of
\* each for itself.
LEMMA RoomOnCard ==
  ASSUME NEW f \in ModelFacts, NEW weights \in Nat, NEW context \in Nat, NEW vram \in Nat,
         NEW n \in Nat \ {0}, Required(f, weights, context, n) <= UsableVRAM(vram * n * GiB)
  PROVE  2 <= vram
<1> DEFINE taken == Taken(f, weights, context, n)
           few == vram * n * GiB
<1>1. /\ taken \in Nat /\ 1 <= taken /\ Required(f, weights, context, n) = (taken * 110) \div 100
  BY TakenOf
<1>g. GiB \in Nat BY MarketConstants
<1>2. GiB * n \in Nat /\ GiB * n <= taken
  <2>1. Plain(f, weights, context) \in Nat /\ Share(f, weights, context) \in Nat BY PlainOf
  <2>2. GiB * n \in Nat BY <1>g
  <2> QED BY <2>1, <2>2 DEF Taken, Larger
<1>3. SUFFICES ASSUME vram = 0 \/ vram = 1 PROVE FALSE OBVIOUS
<1>4. few \in Nat /\ few <= GiB * n
  <2>1. vram * n \in Nat /\ vram * n <= n BY <1>3
  <2>2. (vram * n) * GiB <= n * GiB BY <1>g, <2>1, Dominates
  <2>3. n * GiB = GiB * n BY <1>g
  <2>4. few \in Nat BY <1>g, <2>1
  <2> QED BY <2>2, <2>3, <2>4
<1>5. (taken * 110) \div 100 <= (few * 95) \div 100 BY <1>1 DEF UsableVRAM, MaxGPUUtilisation
<1> HIDE DEF taken, few
<1> QED BY <1>1, <1>2, <1>4, <1>5

-----------------------------------------------------------------------------
(* Plans                                                                   *)

ModelBytes(r) == WeightsOf(Sized(r, 1, 0))
AskedContext(r) ==
  IF r.facts.maxContext > 0 THEN Shorter(r.context, r.facts.maxContext) ELSE r.context
Need(r, gpus) == Required(r.facts, ModelBytes(r), AskedContext(r), gpus)

LEMMA RequestTypes ==
  ASSUME NEW r \in Request, Sizable(Sized(r, 1, 0))
  PROVE  /\ r.facts \in ModelFacts /\ ModelBytes(r) \in Nat /\ AskedContext(r) \in Nat
         /\ \A n \in Nat \ {0} : Need(r, n) \in Nat /\ 1 <= Need(r, n)
<1>1. /\ r.facts \in ModelFacts /\ r.weights \in Nat /\ r.context \in Nat
      /\ r.facts.params \in Nat /\ r.facts.maxContext \in Nat
  BY DEF Request, ModelFacts
<1>2. ModelBytes(r) \in Nat
  <2>1. CASE r.weights > 0 BY <1>1, <2>1 DEF ModelBytes, WeightsOf, Sized
  <2>2. CASE ~(r.weights > 0)
    <3>1. r.quant \in DOMAIN Bits BY <2>2 DEF Sizable, Sized
    <3>2. Bits[r.quant] \in Nat BY <3>1, MarketConstants
    <3>3. r.facts.params * Bits[r.quant] \in Nat BY <1>1, <3>2
    <3>4. (r.facts.params * Bits[r.quant]) \div 800 \in Nat BY <3>3
    <3>5. ModelBytes(r) = (r.facts.params * Bits[r.quant]) \div 800
      BY <2>2 DEF ModelBytes, WeightsOf, Sized
    <3> QED BY <3>4, <3>5
  <2> QED BY <2>1, <2>2
<1>3. AskedContext(r) \in Nat BY <1>1 DEF AskedContext, Shorter
<1>4. ASSUME NEW n \in Nat \ {0} PROVE Need(r, n) \in Nat /\ 1 <= Need(r, n)
  BY <1>1, <1>2, <1>3, TakenOf DEF Need
<1> QED BY <1>1, <1>2, <1>3, <1>4

\* What a plan is on so many cards: of unknown memory, and of enough.
LEMMA PlanOf ==
  ASSUME NEW r \in Request, NEW n \in Nat \ {0}, NEW v \in Nat
  PROVE  /\ Plan(Sized(r, n, 0)).required = Need(r, n)
         /\ Plan(Sized(r, n, 0)).weights = ModelBytes(r)
         /\ Plan(Sized(r, n, 0)).context = AskedContext(r)
         /\ v > 0 /\ ~(Need(r, n) > v) /\ Need(r, n) <= v =>
              Plan(Sized(r, n, v)) =
                [weights |-> ModelBytes(r), context |-> AskedContext(r), required |-> Need(r, n),
                 shards |-> n, fits |-> TRUE, utilization |-> Utilization(Need(r, n), v)]
<1> DEFINE q(a) == Sized(r, n, a)
<1>1. \A a : /\ q(a).facts = r.facts /\ q(a).context = r.context /\ q(a).gpus = n /\ q(a).available = a
             /\ WeightsOf(q(a)) = ModelBytes(r)
  BY DEF Sized, ModelBytes, WeightsOf
<1>2. \A a : (IF q(a).facts.maxContext > 0 THEN Shorter(q(a).context, q(a).facts.maxContext)
              ELSE q(a).context) = AskedContext(r)
  BY <1>1 DEF AskedContext
<1> HIDE DEF q
<1>3. /\ Plan(q(0)).required = Need(r, n) /\ Plan(q(0)).weights = ModelBytes(r)
      /\ Plan(q(0)).context = AskedContext(r)
  BY <1>1, <1>2 DEF Plan, Need
<1>4. ASSUME v > 0, ~(Need(r, n) > v), Need(r, n) <= v
      PROVE  Plan(q(v)) =
                [weights |-> ModelBytes(r), context |-> AskedContext(r), required |-> Need(r, n),
                 shards |-> n, fits |-> TRUE, utilization |-> Utilization(Need(r, n), v)]
  BY <1>1, <1>2, <1>4 DEF Plan, Need
<1> QED BY <1>3, <1>4 DEF q

\* What the engine is told to take is no more than can be used, and of the whole
\* memory at least what the model needs.
LEMMA Utilized ==
  ASSUME NEW required \in Nat, NEW available \in Nat, NEW memory \in Nat,
         1 <= required, required <= available, 100 * available <= 95 * memory
  PROVE  LET u == Utilization(required, available)
         IN /\ u[1] \in Nat /\ u[2] \in Nat /\ 1 <= u[2] /\ 100 * u[1] <= 95 * u[2]
            /\ required * u[2] <= u[1] * memory
<1> DEFINE u == Utilization(required, available)
<1>1. CASE 10 * required < available
  <2>1. u[1] = 1 /\ u[2] = 10 BY <1>1 DEF Utilization
  <2> QED BY <1>1, <2>1
<1>2. CASE ~(10 * required < available) /\ 100 * required > MaxGPUUtilisation * available
  <2>1. u[1] = 95 /\ u[2] = 100 BY <1>2 DEF Utilization, MaxGPUUtilisation
  <2> QED BY <2>1
<1>3. CASE ~(10 * required < available) /\ ~(100 * required > MaxGPUUtilisation * available)
  <2>1. u[1] = required /\ u[2] = available BY <1>3 DEF Utilization
  <2>2. 100 * required <= 95 * available BY <1>3 DEF MaxGPUUtilisation
  <2>3. available <= memory OBVIOUS
  <2>4. available * required <= memory * required BY <2>3, Dominates
  <2>5. available * required = required * available /\ memory * required = required * memory OBVIOUS
  <2> QED BY <2>1, <2>2, <2>4, <2>5
<1> QED BY <1>1, <1>2, <1>3

\* An offer holds the model where enough of its cards can be used, on as many as
\* it will be sharded onto or on fewer.
LEMMA HoldsWhere ==
  ASSUME NEW r \in Request, Sizable(Sized(r, 1, 0)), NEW o \in Offered, 2 <= GiB
  PROVE  LET shards == Shards(r.facts, o.gpus, r.tensorParallel)
         IN /\ shards \in 1..o.gpus /\ Starts(r, shards)
            /\ holds(r, o) <=> Need(r, shards) <= UsableVRAM(o.vram * shards * GiB)
            /\ holds(r, o) <=> \E n \in 1..o.gpus :
                                 Starts(r, n) /\ Need(r, n) <= UsableVRAM(o.vram * n * GiB)
<1> DEFINE shards == Shards(r.facts, o.gpus, r.tensorParallel)
<1>t. o.gpus \in Nat \ {0} /\ o.vram \in Nat BY DEF Offered
<1>1. /\ shards \in 1..o.gpus /\ Starts(r, shards)
      /\ \A n \in 1..o.gpus : Starts(r, n) => n <= shards
  BY <1>t, ShardsStart
<1>2. shards \in Nat \ {0} BY <1>1
<1>3. Plan(Sized(r, shards, 0)).required = Need(r, shards) BY <1>2, PlanOf
<1>4. /\ Need(r, shards) \in Nat
      /\ UsableVRAM(o.vram * shards * GiB) \in Nat
  <2>1. Need(r, shards) \in Nat BY <1>2, RequestTypes
  <2>2. o.vram * shards * GiB \in Nat BY <1>t, <1>2, MarketConstants
  <2>3. UsableVRAM(o.vram * shards * GiB) \in Nat BY <2>2, Percent DEF UsableVRAM, MaxGPUUtilisation
  <2> QED BY <2>1, <2>3
<1>5. holds(r, o) <=> Need(r, shards) <= UsableVRAM(o.vram * shards * GiB)
  BY <1>3, <1>4 DEF holds, ShardVRAM
<1>6. ASSUME NEW n \in 1..o.gpus, Starts(r, n), Need(r, n) <= UsableVRAM(o.vram * n * GiB)
      PROVE  Need(r, shards) <= UsableVRAM(o.vram * shards * GiB)
  <2>1. n \in Nat \ {0} /\ n <= shards BY <1>1, <1>6, <1>t
  <2>2. r.facts \in ModelFacts /\ ModelBytes(r) \in Nat /\ AskedContext(r) \in Nat BY RequestTypes
  <2>3. 2 <= o.vram BY <1>6, <1>t, <2>1, <2>2, RoomOnCard DEF Need
  <2> QED BY <1>2, <1>6, <1>t, <2>1, <2>2, <2>3, MoreCardsFit DEF Need
<1> HIDE DEF shards
<1>7. holds(r, o) <=> \E n \in 1..o.gpus : Starts(r, n) /\ Need(r, n) <= UsableVRAM(o.vram * n * GiB)
  BY <1>1, <1>5, <1>6
<1> QED BY <1>1, <1>5, <1>7 DEF shards

-----------------------------------------------------------------------------
(* Filters                                                                 *)

\* Eligible is what fails none of the checks.
LEMMA Classified ==
  ASSUME NEW o, NEW c, NEW offers, NEW fit
  PROVE  classify(o, c, offers, fit) = "eligible" <=>
           /\ Permits(c.spot, o)
           /\ ~(c.maxPrice > 0 /\ o.price > c.maxPrice)
           /\ ~(\/ o.gpus < c.gpus \/ (c.maxGpus > 0 /\ o.gpus > c.maxGpus)
                \/ o.vram < c.vramEach \/ o.vram * o.gpus < c.vramAll)
           /\ fit[o] = "eligible"
           /\ ~(c.certifiedOnly /\ ~o.certified /\ o.tier # "verified")
           /\ ~(~c.allowDeverified /\ o.tier = "deverified")
           /\ ~(o.reliability > 0 /\ o.reliability < ReliabilityFloor)
           /\ ~Outlier(o, offers)
<1> DEFINE checks == Checks(o, c, offers, fit)
           I == {i \in 1..Len(checks) : checks[i][2]}
           failed == SelectInSeq(checks, LAMBDA check : check[2])
           spot == ~Permits(c.spot, o)
           price == c.maxPrice > 0 /\ o.price > c.maxPrice
           cards == \/ o.gpus < c.gpus \/ (c.maxGpus > 0 /\ o.gpus > c.maxGpus)
                         \/ o.vram < c.vramEach \/ o.vram * o.gpus < c.vramAll
           unfit == fit[o] # "eligible"
           uncertified == c.certifiedOnly /\ ~o.certified /\ o.tier # "verified"
           deverified == ~c.allowDeverified /\ o.tier = "deverified"
           unreliable == o.reliability > 0 /\ o.reliability < ReliabilityFloor
           outlier == Outlier(o, offers)
<1>0. Len(checks) = 8 BY DEF Checks
<1>1. /\ checks[1] = <<"interruptible", spot>>
      /\ checks[2] = <<"max_price", price>>
      /\ checks[3] = <<"hardware", cards>>
      /\ checks[4] = <<fit[o], unfit>>
      /\ checks[5] = <<"deverified", uncertified>>
      /\ checks[6] = <<"deverified", deverified>>
      /\ checks[7] = <<"reliability", unreliable>>
      /\ checks[8] = <<"outlier", outlier>>
  BY DEF Checks
<1> HIDE DEF checks, failed, spot, price, cards, unfit, uncertified, deverified, unreliable, outlier
<1>n. /\ checks[1][1] = "interruptible"
      /\ checks[2][1] = "max_price"
      /\ checks[3][1] = "hardware"
      /\ checks[4][1] = fit[o]
      /\ checks[5][1] = "deverified"
      /\ checks[6][1] = "deverified"
      /\ checks[7][1] = "reliability"
      /\ checks[8][1] = "outlier"
  BY <1>1
<1>b. /\ checks[1][2] <=> spot
      /\ checks[2][2] <=> price
      /\ checks[3][2] <=> cards
      /\ checks[4][2] <=> unfit
      /\ checks[5][2] <=> uncertified
      /\ checks[6][2] <=> deverified
      /\ checks[7][2] <=> unreliable
      /\ checks[8][2] <=> outlier
  <2>1. checks[1][2] = spot BY <1>1
  <2>2. checks[2][2] = price BY <1>1
  <2>3. checks[3][2] = cards BY <1>1
  <2>4. checks[4][2] = unfit BY <1>1
  <2>5. checks[5][2] = uncertified BY <1>1
  <2>6. checks[6][2] = deverified BY <1>1
  <2>7. checks[7][2] = unreliable BY <1>1
  <2>8. checks[8][2] = outlier BY <1>1
  <2> QED BY <2>1, <2>2, <2>3, <2>4, <2>5, <2>6, <2>7, <2>8
<1>f. unfit <=> fit[o] # "eligible" BY DEF unfit
<1>2. failed = IF I # {} THEN Min(I) ELSE 0 BY DEF SelectInSeq, failed
<1>3. I # {} => failed \in I
  <2> SUFFICES ASSUME I # {} PROVE failed \in I OBVIOUS
  <2>1. I \subseteq Nat BY <1>0
  <2>2. \E x \in I : \A y \in I : x <= y BY <2>1, LeastNumber
  <2>3. Min(I) \in I BY <2>2 DEF Min
  <2> QED BY <1>2, <2>3
<1>4. classify(o, c, offers, fit) = IF failed = 0 THEN "eligible" ELSE checks[failed][1]
  BY DEF classify, checks, failed
<1>5. \A i \in I : checks[i][1] # "eligible"
  <2>1. \A i \in I : i \in 1..8 /\ checks[i][2] BY <1>0
  <2>2. \A i \in 1..8 : checks[i][2] => checks[i][1] # "eligible"
    <3>1. \A i \in 1..8 : i = 1 \/ i = 2 \/ i = 3 \/ i = 4 \/ i = 5 \/ i = 6 \/ i = 7 \/ i = 8 OBVIOUS
    <3> QED BY <1>n, <1>b, <1>f, <3>1
  <2> QED BY <2>1, <2>2
<1>6. classify(o, c, offers, fit) = "eligible" <=> I = {}
  <2>1. CASE I = {} BY <1>2, <1>4, <2>1
  <2>2. CASE I # {}
    <3>1. failed \in I /\ failed # 0 BY <1>0, <1>3, <2>2
    <3> QED BY <1>4, <1>5, <2>2, <3>1
  <2> QED BY <2>1, <2>2
<1>7. I = {} <=> /\ ~checks[1][2] /\ ~checks[2][2] /\ ~checks[3][2] /\ ~checks[4][2]
                 /\ ~checks[5][2] /\ ~checks[6][2] /\ ~checks[7][2] /\ ~checks[8][2]
  <2>1. \A i : i \in 1..8 <=> i = 1 \/ i = 2 \/ i = 3 \/ i = 4 \/ i = 5 \/ i = 6 \/ i = 7 \/ i = 8
    OBVIOUS
  <2> QED BY <1>0, <2>1
<1> QED BY <1>b, <1>6, <1>7 DEF spot, price, cards, unfit, uncertified, deverified, unreliable, outlier

-----------------------------------------------------------------------------
(* Candidates                                                              *)

\* Finitely many candidates in a total order have a first.
LEMMA FirstOf ==
  ASSUME NEW S, IsFiniteSet(S), S # {}, NEW R,
         \A x, y \in S : <<x, y>> \in R \/ <<y, x>> \in R,
         \A x, y, z \in S : <<x, y>> \in R /\ <<y, z>> \in R => <<x, z>> \in R
  PROVE  \E x \in S : \A y \in S : <<x, y>> \in R
<1> DEFINE before(x) == {z \in S : <<z, x>> \in R}
           T == {Cardinality(before(x)) : x \in S}
<1>1. \A x \in S : before(x) \subseteq S /\ IsFiniteSet(before(x)) /\ Cardinality(before(x)) \in Nat
  BY FS_Subset, FS_CardinalityType
<1>m. \A x \in S : Cardinality(before(x)) \in T OBVIOUS
<1>2. T \subseteq Nat /\ T # {}
  <2>1. ASSUME NEW s \in T PROVE s \in Nat
    <3>1. PICK x \in S : s = Cardinality(before(x)) BY <2>1
    <3> QED BY <1>1, <3>1
  <2>2. PICK x \in S : TRUE OBVIOUS
  <2> QED BY <1>m, <2>1, <2>2
<1>3. PICK t \in T : \A s \in T : t <= s BY <1>2, LeastNumber
<1>4. PICK x \in S : t = Cardinality(before(x)) BY <1>3
<1>5. ASSUME NEW y \in S, <<x, y>> \notin R PROVE FALSE
  <2>1. <<y, x>> \in R /\ <<x, x>> \in R BY <1>5
  <2>2. before(y) \subseteq before(x) BY <2>1
  <2>3. x \in before(x) /\ x \notin before(y) BY <1>5, <2>1
  <2>4. /\ Cardinality(before(y)) <= Cardinality(before(x))
        /\ Cardinality(before(y)) = Cardinality(before(x)) => before(y) = before(x)
    <3>1. IsFiniteSet(before(x)) BY <1>1
    <3> HIDE DEF before
    <3> QED BY <2>2, <3>1, FS_Subset
  <2>5. t <= Cardinality(before(y)) BY <1>3, <1>m
  <2>6. t \in Nat /\ Cardinality(before(y)) \in Nat BY <1>1, <1>2
  <2> QED BY <1>4, <2>3, <2>4, <2>5, <2>6
<1> QED BY <1>5

\* The k-th least price, or speed, of finitely many offers is one of theirs.
LEMMA KthOf ==
  ASSUME NEW offers, IsFiniteSet(offers), NEW field \in [offers -> Nat],
         NEW k \in 1..Cardinality(offers)
  PROVE  KthLeast(offers, field, k) \in {field[o] : o \in offers}
<1> DEFINE upto(v) == {o \in offers : field[o] <= v}
           below(v) == {o \in offers : field[o] < v}
           V == {field[o] : o \in offers}
           T == {v \in V : k <= Cardinality(upto(v))}
<1>n. Cardinality(offers) \in Nat BY FS_CardinalityType
<1>1. \A S \in SUBSET offers : IsFiniteSet(S) /\ Cardinality(S) \in Nat BY FS_Subset, FS_CardinalityType
<1>2. ASSUME NEW S \in SUBSET offers, S # {}
      PROVE  \E o \in S : \A p \in S : field[p] <= field[o]
  <2> DEFINE R == {pair \in S \X S : field[pair[2]] <= field[pair[1]]}
  <2>1. \A x, y \in S : <<x, y>> \in R <=> field[y] <= field[x] OBVIOUS
  <2>2. \A x \in S : field[x] \in Nat OBVIOUS
  <2> HIDE DEF R
  <2>3. \A x, y \in S : <<x, y>> \in R \/ <<y, x>> \in R
    <3> TAKE x \in S, y \in S
    <3>1. field[x] \in Nat /\ field[y] \in Nat BY <2>2
    <3>2. field[y] <= field[x] \/ field[x] <= field[y] BY <3>1
    <3> QED BY <2>1, <3>2
  <2>4. \A x, y, z \in S : <<x, y>> \in R /\ <<y, z>> \in R => <<x, z>> \in R BY <2>1, <2>2
  <2>5. IsFiniteSet(S) BY <1>1
  <2>6. \E x \in S : \A y \in S : <<x, y>> \in R BY <1>2, <2>3, <2>4, <2>5, FirstOf
  <2> QED BY <2>1, <2>6
<1>3. T # {}
  <2>1. offers # {} BY <1>n, FS_EmptySet
  <2>2. PICK o \in offers : \A p \in offers : field[p] <= field[o] BY <1>2, <2>1
  <2>3. upto(field[o]) = offers BY <2>2
  <2>4. field[o] \in T BY <1>n, <2>3
  <2> QED BY <2>4
<1>4. T \subseteq Nat OBVIOUS
<1>5. PICK v \in T : \A w \in T : v <= w BY <1>3, <1>4, LeastNumber
<1>6. ASSUME k <= Cardinality(below(v)) PROVE FALSE
  <2>1. below(v) # {}
    <3>1. below(v) = {} => Cardinality(below(v)) = 0 BY FS_EmptySet
    <3> QED BY <1>6, <3>1, <1>n
  <2>2. PICK o \in below(v) : \A p \in below(v) : field[p] <= field[o] BY <1>2, <2>1
  <2>3. upto(field[o]) = below(v)
    <3>1. v \in Nat /\ \A p \in offers : field[p] \in Nat BY <1>4
    <3> QED BY <2>2, <3>1
  <2>4. field[o] \in T BY <1>6, <2>3
  <2>5. v <= field[o] /\ field[o] < v /\ v \in Nat /\ field[o] \in Nat BY <1>4, <1>5, <2>2, <2>4
  <2> QED BY <2>5
<1>7. Cardinality(below(v)) < k
  <2>1. Cardinality(below(v)) \in Nat BY <1>1
  <2> QED BY <1>6, <2>1
<1>8. \E w \in V : Cardinality(below(w)) < k /\ k <= Cardinality(upto(w)) BY <1>5, <1>7
<1> QED BY <1>8 DEF KthLeast

LEMMA MedianOf ==
  ASSUME NEW offers, offers \subseteq Listing
  PROVE  medianNet(offers) \in Nat
<1> DEFINE named == {o \in offers : o.net > 0}
           n == Cardinality(named)
           field == [o \in named |-> o.net]
<1>1. \A o \in offers : o.net \in Nat BY MarketConstants DEF Offered
<1>2. IsFiniteSet(named) BY MarketConstants, FS_Subset
<1>3. CASE named = {} BY <1>3 DEF medianNet
<1>4. CASE named # {}
  <2>1. n \in Nat /\ n # 0 BY <1>2, <1>4, FS_EmptySet, FS_CardinalityType
  <2>2. n \div 2 + 1 \in 1..n BY <2>1
  <2>3. field \in [named -> Nat] BY <1>1
  <2>4. KthLeast(named, field, n \div 2 + 1) \in {field[o] : o \in named} BY <1>2, <2>2, <2>3, KthOf
  <2>5. KthLeast(named, field, n \div 2 + 1) \in Nat BY <2>3, <2>4
  <2> QED BY <1>4, <2>5 DEF medianNet
<1> QED BY <1>3, <1>4

\* What a session costs is a fraction.
LEMMA CostOf ==
  ASSUME NEW o \in Offered, NEW bytes \in Nat, NEW median \in Nat
  PROVE  LET paid == sessionCost(o, bytes, median)
         IN paid[1] \in Nat /\ paid[2] \in Nat /\ 1 <= paid[2]
<1> DEFINE speed == IF o.net > 0 THEN o.net ELSE median
<1>1. o.price \in Nat /\ o.net \in Nat /\ speed \in Nat BY DEF Offered
<1>2. SessionHours \in Nat /\ Hour \in Nat /\ 1 <= Hour BY MarketConstants
<1>3. CASE speed = 0
  <2>1. o.price * SessionHours \in Nat BY <1>1, <1>2
  <2>2. sessionCost(o, bytes, median) = <<o.price * SessionHours, 1>> BY <1>3 DEF sessionCost
  <2> QED BY <2>1, <2>2
<1>4. CASE speed # 0
  <2>1. SessionHours * Hour \in Nat BY <1>2
  <2>2. SessionHours * Hour * speed \in Nat BY <1>1, <2>1
  <2>3. o.price * (bytes + SessionHours * Hour * speed) \in Nat BY <1>1, <2>2
  <2>4. Hour * speed \in Nat /\ 1 <= Hour * speed
    <3>1. 1 <= speed BY <1>1, <1>4
    <3>2. 1 * speed <= Hour * speed BY <1>1, <1>2, Dominates
    <3> QED BY <1>1, <1>2, <3>1, <3>2
  <2>5. sessionCost(o, bytes, median) = <<o.price * (bytes + SessionHours * Hour * speed), Hour * speed>>
    BY <1>4 DEF sessionCost
  <2> QED BY <2>3, <2>4, <2>5
<1> QED BY <1>3, <1>4

LEMMA Cancels ==
  ASSUME NEW a \in Nat, NEW b \in Nat, NEW c \in Nat, 1 <= c
  PROVE  (a * c <= b * c => a <= b) /\ (a * c < b * c => a < b) /\ (a <= b => a * c <= b * c)
         /\ (a < b => a * c < b * c)
OBVIOUS

\* The order of fractions.
LEMMA FractionOrder ==
  ASSUME NEW a \in Nat, NEW b \in Nat, NEW c \in Nat, NEW x \in Nat, NEW y \in Nat, NEW z \in Nat,
         1 <= x, 1 <= y, 1 <= z, a * y <= b * x, b * z <= c * y
  PROVE  a * z <= c * x /\ (a * y < b * x \/ b * z < c * y => a * z < c * x)
<1>1. a * y \in Nat /\ b * x \in Nat /\ b * z \in Nat /\ c * y \in Nat /\ a * z \in Nat /\ c * x \in Nat
  OBVIOUS
<1>2. (a * y) * z <= (b * x) * z /\ (a * y < b * x => (a * y) * z < (b * x) * z) BY <1>1, Cancels
<1>3. (b * z) * x <= (c * y) * x /\ (b * z < c * y => (b * z) * x < (c * y) * x) BY <1>1, Cancels
<1>4. (a * y) * z = (a * z) * y /\ (b * x) * z = (b * z) * x /\ (c * y) * x = (c * x) * y
  <2>1. (a * y) * z = (a * z) * y OBVIOUS
  <2>2. (b * x) * z = (b * z) * x OBVIOUS
  <2>3. (c * y) * x = (c * x) * y OBVIOUS
  <2> QED BY <2>1, <2>2, <2>3
<1>5. /\ (a * y) * z \in Nat /\ (b * x) * z \in Nat /\ (b * z) * x \in Nat /\ (c * y) * x \in Nat
      /\ (a * z) * y \in Nat /\ (c * x) * y \in Nat
  BY <1>1
<1> DEFINE left == (a * z) * y  middle == (b * z) * x  right == (c * x) * y
<1>6. /\ left \in Nat /\ middle \in Nat /\ right \in Nat /\ left <= middle /\ middle <= right
      /\ (a * y < b * x => left < middle) /\ (b * z < c * y => middle < right)
  BY <1>2, <1>3, <1>4, <1>5
<1>7. left <= right /\ (a * y < b * x \/ b * z < c * y => left < right)
  <2> HIDE DEF left, middle, right
  <2> QED BY <1>6
<1> QED BY <1>1, <1>7, Cancels

\* The candidates' order is total, and what is first in it costs the least.
LEMMA BeforeOrders ==
  ASSUME NEW bytes \in Nat, NEW median \in Nat
  PROVE  /\ \A a, b \in Offered : Before(a, b, bytes, median) \/ Before(b, a, bytes, median)
         /\ \A a, b \in Offered : Before(a, b, bytes, median) =>
              sessionCost(a, bytes, median)[1] * sessionCost(b, bytes, median)[2]
                <= sessionCost(b, bytes, median)[1] * sessionCost(a, bytes, median)[2]
         /\ \A a, b, c \in Offered :
              Before(a, b, bytes, median) /\ Before(b, c, bytes, median) => Before(a, c, bytes, median)
<1> DEFINE n(o) == sessionCost(o, bytes, median)[1]
           d(o) == sessionCost(o, bytes, median)[2]
           tied(a, b) == IF a.price # b.price THEN a.price < b.price
                         ELSE IF a.reliability # b.reliability THEN a.reliability > b.reliability
                         ELSE a.id <= b.id
<1>1. \A o \in Offered : /\ n(o) \in Nat /\ d(o) \in Nat /\ 1 <= d(o)
                         /\ o.price \in Nat /\ o.reliability \in Nat /\ o.id \in Nat
  BY CostOf DEF Offered
<1>2. \A a, b : Before(a, b, bytes, median) <=>
                  IF n(a) * d(b) # n(b) * d(a) THEN n(a) * d(b) < n(b) * d(a) ELSE tied(a, b)
  BY DEF Before
<1>3. \A a, b \in Offered : n(a) * d(b) \in Nat
  <2> HIDE DEF n, d
  <2> QED BY <1>1
<1>4. \A a, b \in Offered : tied(a, b) \/ tied(b, a) BY <1>1
<1>5. \A a, b, c \in Offered : tied(a, b) /\ tied(b, c) => tied(a, c) BY <1>1
<1>6. \A a, b, c \in Offered :
        n(a) * d(b) <= n(b) * d(a) /\ n(b) * d(c) <= n(c) * d(b) =>
          /\ n(a) * d(c) <= n(c) * d(a)
          /\ n(a) * d(b) < n(b) * d(a) \/ n(b) * d(c) < n(c) * d(b) => n(a) * d(c) < n(c) * d(a)
  <2> HIDE DEF n, d
  <2> TAKE a, b, c \in Offered
  <2> QED BY <1>1, FractionOrder
<1> HIDE DEF n, d, tied
<1>7. \A a, b \in Offered : Before(a, b, bytes, median) => n(a) * d(b) <= n(b) * d(a)
  <2> TAKE a, b \in Offered
  <2>1. n(a) * d(b) \in Nat /\ n(b) * d(a) \in Nat BY <1>3
  <2> QED BY <1>2, <2>1
<1>8. \A a, b \in Offered : Before(a, b, bytes, median) \/ Before(b, a, bytes, median)
  <2> TAKE a, b \in Offered
  <2>1. n(a) * d(b) \in Nat /\ n(b) * d(a) \in Nat BY <1>3
  <2> QED BY <1>2, <1>4, <2>1
<1>9. ASSUME NEW a \in Offered, NEW b \in Offered, NEW c \in Offered,
             Before(a, b, bytes, median), Before(b, c, bytes, median)
      PROVE  Before(a, c, bytes, median)
  <2>1. n(a) * d(b) <= n(b) * d(a) /\ n(b) * d(c) <= n(c) * d(b) BY <1>7, <1>9
  <2>2. /\ n(a) * d(b) \in Nat /\ n(b) * d(a) \in Nat /\ n(b) * d(c) \in Nat /\ n(c) * d(b) \in Nat
        /\ n(a) * d(c) \in Nat /\ n(c) * d(a) \in Nat
    BY <1>3
  <2>3. CASE n(a) * d(b) < n(b) * d(a) \/ n(b) * d(c) < n(c) * d(b)
    <3>1. n(a) * d(c) < n(c) * d(a) BY <1>6, <2>1, <2>3
    <3> QED BY <1>2, <2>2, <3>1
  <2>4. CASE ~(n(a) * d(b) < n(b) * d(a) \/ n(b) * d(c) < n(c) * d(b))
    <3>1. n(a) * d(b) = n(b) * d(a) /\ n(b) * d(c) = n(c) * d(b) BY <2>1, <2>2, <2>4
    <3>2. tied(a, b) /\ tied(b, c) BY <1>2, <1>9, <3>1
    <3>3. tied(a, c) BY <1>5, <3>2
    <3>4. n(a) * d(c) <= n(c) * d(a) BY <1>6, <2>1
    <3> QED BY <1>2, <2>2, <3>3, <3>4
  <2> QED BY <2>3, <2>4
<1> QED BY <1>7, <1>8, <1>9 DEF n, d

\* Of the eligible offers one is selected, if there is one, and none costs less.
LEMMA Selects ==
  ASSUME NEW offers, offers \subseteq Listing, NEW c, NEW fit, NEW bytes \in Nat
  PROVE  LET eligible == {o \in offers : classify(o, c, offers, fit) = "eligible"}
             median == medianNet(offers)
             chosen == Select(offers, c, fit, bytes)
         IN /\ chosen \subseteq eligible /\ (chosen = {} => eligible = {})
            /\ \A o \in chosen, p \in eligible :
                 sessionCost(o, bytes, median)[1] * sessionCost(p, bytes, median)[2]
                   <= sessionCost(p, bytes, median)[1] * sessionCost(o, bytes, median)[2]
<1> DEFINE eligible == {o \in offers : classify(o, c, offers, fit) = "eligible"}
           median == medianNet(offers)
           R == {pair \in eligible \X eligible : Before(pair[1], pair[2], bytes, median)}
<1>1. median \in Nat BY MedianOf
<1>2. eligible \subseteq Offered /\ IsFiniteSet(eligible) BY MarketConstants, FS_Subset
<1>3. Select(offers, c, fit, bytes) = {o \in eligible : \A p \in eligible : Before(o, p, bytes, median)}
  BY DEF Select
<1> HIDE DEF eligible, median
<1>4. /\ \A a, b \in eligible : <<a, b>> \in R <=> Before(a, b, bytes, median)
      /\ \A a, b \in eligible : Before(a, b, bytes, median) \/ Before(b, a, bytes, median)
      /\ \A a, b, d \in eligible :
           Before(a, b, bytes, median) /\ Before(b, d, bytes, median) => Before(a, d, bytes, median)
      /\ \A a, b \in eligible : Before(a, b, bytes, median) =>
              sessionCost(a, bytes, median)[1] * sessionCost(b, bytes, median)[2]
                <= sessionCost(b, bytes, median)[1] * sessionCost(a, bytes, median)[2]
  <2>1. \A a, b \in eligible : <<a, b>> \in R <=> Before(a, b, bytes, median) OBVIOUS
  <2>2. \A a \in eligible : a \in Offered BY <1>2
  <2> HIDE DEF R
  <2>3. \A a, b \in eligible : Before(a, b, bytes, median) \/ Before(b, a, bytes, median)
    BY <1>1, <2>2, BeforeOrders
  <2>4. \A a, b, d \in eligible :
           Before(a, b, bytes, median) /\ Before(b, d, bytes, median) => Before(a, d, bytes, median)
    <3> TAKE a, b, d \in eligible
    <3>1. a \in Offered /\ b \in Offered /\ d \in Offered BY <2>2
    <3> QED BY <1>1, <3>1, BeforeOrders
  <2>5. \A a, b \in eligible : Before(a, b, bytes, median) =>
              sessionCost(a, bytes, median)[1] * sessionCost(b, bytes, median)[2]
                <= sessionCost(b, bytes, median)[1] * sessionCost(a, bytes, median)[2]
    BY <1>1, <2>2, BeforeOrders
  <2> QED BY <2>1, <2>3, <2>4, <2>5
<1> HIDE DEF R
<1>5. ASSUME eligible # {} PROVE Select(offers, c, fit, bytes) # {}
  <2>1. \E x \in eligible : \A y \in eligible : <<x, y>> \in R BY <1>2, <1>4, <1>5, FirstOf
  <2> QED BY <1>3, <1>4, <2>1
<1>6. ASSUME NEW o \in Select(offers, c, fit, bytes), NEW p \in eligible
      PROVE  sessionCost(o, bytes, median)[1] * sessionCost(p, bytes, median)[2]
               <= sessionCost(p, bytes, median)[1] * sessionCost(o, bytes, median)[2]
  BY <1>3, <1>4
<1> QED BY <1>3, <1>5, <1>6 DEF eligible, median

\* Of the offers found, those that pass every check are those that are wanted.
LEMMA EligibleIsWanted ==
  ASSUME NEW r \in Request, Sizable(Sized(r, 1, 0)), NEW offers,
         NEW disk, offers \subseteq Search(Listing, r.criteria, disk), NEW o \in offers, 2 <= GiB
  PROVE  classify(o, r.criteria, offers, [p \in offers |-> fits(r, p)]) = "eligible"
           <=> Wanted(r, o, offers)
<1>1. o \in Offered /\ matches(o, r.criteria) BY MarketConstants DEF Search
<1>2. Baseline(r).weights = ModelBytes(r) /\ Baseline(r).context = AskedContext(r)
  BY PlanOf DEF Baseline
<1>3. holds(r, o) <=> \E n \in 1..o.gpus :
        Starts(r, n) /\ UsableVRAM(o.vram * n * GiB) >= Need(r, n)
  <2>1. holds(r, o) <=> \E n \in 1..o.gpus : Starts(r, n) /\ Need(r, n) <= UsableVRAM(o.vram * n * GiB)
    BY <1>1, HoldsWhere
  <2> QED BY <2>1
<1>4. fits(r, o) = "eligible" <=> o.runs /\ ~(o.net > 0 /\ o.net < r.criteria.minNet) /\ holds(r, o)
  BY DEF fits
<1>5. /\ o.runs \in BOOLEAN /\ o.net \in Nat /\ o.gpus \in Nat /\ o.vram \in Nat /\ o.price \in Nat
      /\ o.vram * o.gpus \in Nat
      /\ o.reliability \in Nat /\ o.certified \in BOOLEAN /\ r.criteria.minNet \in Nat
      /\ r.criteria.gpus \in Nat /\ r.criteria.maxGpus \in Nat /\ r.criteria.vramEach \in Nat
      /\ r.criteria.vramAll \in Nat /\ r.criteria.maxPrice \in Nat
      /\ r.criteria.certifiedOnly \in BOOLEAN /\ r.criteria.allowDeverified \in BOOLEAN
      /\ ReliabilityFloor \in Nat
  BY <1>1, RankingAssumption DEF Offered, Request, Criteria
<1>6. /\ Permits(r.criteria.spot, o)
      /\ ~(r.criteria.maxPrice > 0 /\ o.price > r.criteria.maxPrice)
      /\ ~(o.gpus < r.criteria.gpus) /\ ~(r.criteria.maxGpus > 0 /\ o.gpus > r.criteria.maxGpus)
  BY <1>1, <1>5 DEF matches
<1> DEFINE fit == [p \in offers |-> fits(r, p)]
<1>7. fit[o] = fits(r, o) OBVIOUS
<1> HIDE DEF fit
<1>8. classify(o, r.criteria, offers, fit) = "eligible" <=>
        /\ ~(o.vram < r.criteria.vramEach) /\ ~(o.vram * o.gpus < r.criteria.vramAll)
        /\ fits(r, o) = "eligible"
        /\ ~(r.criteria.certifiedOnly /\ ~o.certified /\ o.tier # "verified")
        /\ ~(~r.criteria.allowDeverified /\ o.tier = "deverified")
        /\ ~(o.reliability > 0 /\ o.reliability < ReliabilityFloor)
        /\ ~Outlier(o, offers)
  BY <1>6, <1>7, Classified
<1> DEFINE some == \E n \in 1..o.gpus : Starts(r, n) /\ UsableVRAM(o.vram * n * GiB) >= Need(r, n)
           outlier == Outlier(o, offers)
<1>9. Wanted(r, o, offers) <=>
        /\ o.runs /\ (o.net > 0 => o.net >= r.criteria.minNet)
        /\ some
        /\ o.gpus >= r.criteria.gpus /\ o.vram >= r.criteria.vramEach /\ o.vram * o.gpus >= r.criteria.vramAll
        /\ ~outlier /\ (o.reliability > 0 => o.reliability >= ReliabilityFloor)
        /\ (o.tier = "deverified" => r.criteria.allowDeverified)
        /\ (r.criteria.certifiedOnly => o.certified \/ o.tier = "verified")
  BY <1>2 DEF Wanted, Need
<1> HIDE DEF some, outlier
<1>10. holds(r, o) <=> some BY <1>3 DEF some
<1>11. classify(o, r.criteria, offers, fit) = "eligible" <=> Wanted(r, o, offers)
  BY <1>4, <1>5, <1>6, <1>8, <1>9, <1>10 DEF outlier
<1> QED BY <1>11 DEF fit

-----------------------------------------------------------------------------
(* What is chosen                                                          *)

\* A selection, of what a market offers for a request: it is wanted, it holds the
\* model, and of what is wanted it costs the least; with none, nothing is wanted.
LEMMA Surveyed ==
  ASSUME NEW r \in Request, Sizable(Sized(r, 1, 0)), NEW offered, offered \subseteq Listing, 2 <= GiB
  PROVE  LET offers == Search(offered, r.criteria, DiskSearched(r))
             wanted == {o \in offers : Wanted(r, o, offers)}
             bytes == coldStartBytes(Baseline(r))
             bill(o) == sessionCost(o, bytes, medianNet(offers))
         IN /\ \A o \in Selected(r, offers) :
                 /\ o \in Offered /\ holds(r, o) /\ o \in wanted
                 /\ \A p \in wanted : bill(o)[1] * bill(p)[2] <= bill(p)[1] * bill(o)[2]
            /\ Selected(r, offers) = {} => wanted = {}
<1> DEFINE offers == Search(offered, r.criteria, DiskSearched(r))
           wanted == {o \in offers : Wanted(r, o, offers)}
           bytes == coldStartBytes(Baseline(r))
           fit == [o \in offers |-> fits(r, o)]
           eligible == {o \in offers : classify(o, r.criteria, offers, fit) = "eligible"}
           median == medianNet(offers)
           chosen == Select(offers, r.criteria, fit, bytes)
<1>1. offers \subseteq Listing /\ offers \subseteq Search(Listing, r.criteria, DiskSearched(r)) BY DEF Search
<1>2. bytes \in Nat
  <2>1. ModelBytes(r) \in Nat BY RequestTypes
  <2>2. Baseline(r).weights = ModelBytes(r) BY PlanOf DEF Baseline
  <2> QED BY <2>1, <2>2, MarketConstants DEF coldStartBytes
<1>3. Selected(r, offers) = chosen BY DEF Selected
<1> DEFINE disk == DiskSearched(r)
<1>d. offers \subseteq Search(Listing, r.criteria, disk) BY <1>1
<1> HIDE DEF offers, bytes, disk
<1>4. \A o \in offers : classify(o, r.criteria, offers, fit) = "eligible" <=> Wanted(r, o, offers)
  BY <1>d, EligibleIsWanted
<1>5. eligible = wanted BY <1>4
<1>6. ASSUME NEW o \in eligible PROVE o \in Offered /\ holds(r, o)
  <2>1. o \in offers /\ classify(o, r.criteria, offers, fit) = "eligible" /\ fit[o] = fits(r, o) OBVIOUS
  <2>2. fit[o] = "eligible" BY <2>1, Classified
  <2>3. fits(r, o) = "eligible" BY <2>1, <2>2
  <2> QED BY <1>1, <2>1, <2>3, MarketConstants DEF fits
<1>7. /\ chosen \subseteq eligible /\ (chosen = {} => eligible = {})
      /\ \A o \in chosen, p \in eligible :
           sessionCost(o, bytes, median)[1] * sessionCost(p, bytes, median)[2]
             <= sessionCost(p, bytes, median)[1] * sessionCost(o, bytes, median)[2]
  <2> HIDE DEF fit
  <2> QED BY <1>1, <1>2, Selects
<1> HIDE DEF eligible, wanted, chosen, median
<1>8. /\ \A o \in chosen :
           /\ o \in Offered /\ holds(r, o) /\ o \in wanted
           /\ \A p \in wanted : sessionCost(o, bytes, median)[1] * sessionCost(p, bytes, median)[2]
                                  <= sessionCost(p, bytes, median)[1] * sessionCost(o, bytes, median)[2]
      /\ chosen = {} => wanted = {}
  BY <1>5, <1>6, <1>7
<1> QED BY <1>3, <1>8 DEF wanted, median, offers, bytes

\* What its plan is, where an offer holds the model: it fits, with the context
\* asked for, on cards the engine starts on, of whose memory it is told to take
\* the model's share.
LEMMA PlacedHolds ==
  ASSUME NEW r \in Request, Sizable(Sized(r, 1, 0)), NEW o \in Offered, holds(r, o), 2 <= GiB
  PROVE  LET plan == Placed(r, o)
         IN /\ plan.fits /\ Starts(r, plan.shards) /\ plan.shards \in Nat \ {0}
            /\ plan.context = Baseline(r).context /\ plan.weights = Baseline(r).weights
            /\ plan.weights = ModelBytes(r)
            /\ plan.required \in Nat /\ 1 <= plan.required
            /\ Covers(plan, o.vram * GiB)
            /\ plan.utilization[1] \in Nat /\ plan.utilization[2] \in Nat /\ 1 <= plan.utilization[2]
            /\ 100 * plan.utilization[1] <= 95 * plan.utilization[2]
<1> DEFINE shards == Shards(r.facts, o.gpus, r.tensorParallel)
           memory == o.vram * shards * GiB
           need == Need(r, shards)
           u == Utilization(need, UsableVRAM(memory))
<1>t. o.gpus \in Nat \ {0} /\ o.vram \in Nat /\ GiB \in Nat BY MarketConstants DEF Offered
<1>1. shards \in Nat \ {0} /\ Starts(r, shards) /\ need <= UsableVRAM(memory)
  BY <1>t, HoldsWhere
<1>2. need \in Nat /\ 1 <= need BY <1>1, RequestTypes
<1>3. memory \in Nat BY <1>t, <1>1
<1>4. UsableVRAM(memory) \in Nat /\ 100 * UsableVRAM(memory) <= 95 * memory
  BY <1>3, Percent DEF UsableVRAM, MaxGPUUtilisation
<1>5. /\ u[1] \in Nat /\ u[2] \in Nat /\ 1 <= u[2] /\ 100 * u[1] <= 95 * u[2]
      /\ need * u[2] <= u[1] * memory
  BY <1>1, <1>2, <1>3, <1>4, Utilized
<1>6. Placed(r, o) = [weights |-> ModelBytes(r), context |-> AskedContext(r), required |-> need,
                      shards |-> shards, fits |-> TRUE, utilization |-> u]
  <2>1. Placed(r, o) = Plan(Sized(r, shards, UsableVRAM(memory))) BY DEF Placed, ShardVRAM
  <2>2. UsableVRAM(memory) > 0 /\ ~(need > UsableVRAM(memory)) BY <1>1, <1>2, <1>4
  <2> HIDE DEF shards, memory
  <2> QED BY <1>1, <1>4, <2>1, <2>2, PlanOf
<1>7. Baseline(r).weights = ModelBytes(r) /\ Baseline(r).context = AskedContext(r) BY PlanOf DEF Baseline
<1>8. u[1] * (o.vram * GiB) * shards = u[1] * memory
  <2>1. (o.vram * GiB) * shards = (o.vram * shards) * GiB BY <1>t, <1>1
  <2>2. u[1] * (o.vram * GiB) * shards = u[1] * ((o.vram * GiB) * shards)
    <3>1. o.vram * GiB \in Nat BY <1>t
    <3> HIDE DEF u, shards
    <3> QED BY <1>1, <1>5, <3>1
  <2> QED BY <2>1, <2>2
<1>9. u[1] * (o.vram * GiB) * shards \in Nat /\ need * u[2] \in Nat
  <2>1. u[1] * memory \in Nat
    <3> HIDE DEF u, memory
    <3> QED BY <1>3, <1>5
  <2>2. need * u[2] \in Nat
    <3> HIDE DEF u, need
    <3> QED BY <1>2, <1>5
  <2> QED BY <1>8, <2>1, <2>2
<1> HIDE DEF u, need, shards, memory
<1>10. Covers(Placed(r, o), o.vram * GiB) BY <1>5, <1>6, <1>8, <1>9 DEF Covers
<1> QED BY <1>1, <1>2, <1>5, <1>6, <1>7, <1>10

\* The disk that is rented holds what is downloaded.
LEMMA DiskHolds ==
  ASSUME NEW r \in Request, Sizable(Sized(r, 1, 0)), sizeDisk(r.disk, Baseline(r)) # 0
  PROVE  DiskSearched(r) >= coldStartBytes(Baseline(r))
<1> DEFINE bytes == coldStartBytes(Baseline(r))
           need == DiskNeed(Baseline(r))
<1>1. bytes \in Nat
  <2>1. ModelBytes(r) \in Nat BY RequestTypes
  <2>2. Baseline(r).weights = ModelBytes(r) BY PlanOf DEF Baseline
  <2> QED BY <2>1, <2>2, MarketConstants DEF coldStartBytes
<1>2. need \in Nat /\ bytes <= need
  <2>1. need = (bytes * 115 + 99) \div 100 BY DEF DiskNeed
  <2> HIDE DEF bytes, need
  <2> QED BY <1>1, <2>1, Percent
<1>3. r.disk \in Nat /\ DefaultDisk \in Nat BY MarketConstants DEF Request
<1>4. DiskSearched(r) = sizeDisk(r.disk, Baseline(r)) BY DEF DiskSearched
<1>5. sizeDisk(r.disk, Baseline(r)) = IF r.disk = 0 THEN Larger(need, DefaultDisk)
                                      ELSE IF r.disk < need THEN 0 ELSE r.disk
  BY DEF sizeDisk
<1> HIDE DEF bytes, need
<1>6. sizeDisk(r.disk, Baseline(r)) \in Nat /\ sizeDisk(r.disk, Baseline(r)) >= need
  BY <1>2, <1>3, <1>5 DEF Larger
<1> QED BY <1>1, <1>2, <1>4, <1>6 DEF bytes

-----------------------------------------------------------------------------
(* What is placed                                                          *)

\* A context that is reduced is reduced to a length.
LEMMA Reduces ==
  ASSUME NEW q, NEW from \in Nat
  PROVE  reduceContext(q, from) \in Nat
<1> DEFINE halved == {from \div n : n \in {m \in 2..from : PowerOfTwo(m)}}
           fitting == {c \in halved : c >= MinContext /\ Required(q.facts, WeightsOf(q), c, q.gpus) <= q.available}
<1>2. \A a, b \in Nat : 1 <= b => a \div b \in Nat /\ a \div b <= a OBVIOUS
<1>3. ASSUME NEW c \in halved PROVE c \in 0..from
  <2>1. PICK n \in 2..from : c = from \div n OBVIOUS
  <2>2. c \in Nat /\ c <= from BY <1>2, <2>1
  <2> QED BY <2>2
<1>4. fitting \subseteq 1..from
  <2> SUFFICES ASSUME NEW c \in fitting PROVE c \in 1..from OBVIOUS
  <2>1. c \in 0..from /\ c >= MinContext BY <1>3
  <2>2. MinContext \in Nat /\ 1 <= MinContext BY SizingAssumption
  <2> QED BY <2>1, <2>2
<1>5. reduceContext(q, from) = IF fitting = {} THEN from ELSE Max(fitting) BY DEF reduceContext
<1> HIDE DEF fitting
<1>6. CASE fitting # {}
  <2>1. Max(fitting) \in fitting BY <1>4, <1>6, MaxOf
  <2>2. Max(fitting) \in 1..from BY <1>4, <2>1
  <2>3. \A x \in 1..from : x \in Nat OBVIOUS
  <2> QED BY <1>5, <1>6, <2>2, <2>3
<1>7. CASE fitting = {} BY <1>5, <1>7
<1> QED BY <1>6, <1>7

\* A plan made again, for the cards that are there and the weights that were
\* chosen, takes something; and where it fits, no more than can be used.
LEMMA PlannedAgain ==
  ASSUME NEW r \in Request, Sizable(Sized(r, 1, 0)), NEW shards \in Nat \ {0}, NEW available \in Nat,
         1 <= available
  PROVE  LET again == Plan([Sized(r, shards, available) EXCEPT !.weights = ModelBytes(r)])
         IN again.required \in Nat /\ 1 <= again.required /\ (again.fits => again.required <= available)
<1> DEFINE q == [Sized(r, shards, available) EXCEPT !.weights = ModelBytes(r)]
           asked == AskedContext(r)
           context == IF Required(r.facts, ModelBytes(r), asked, shards) > available
                      THEN reduceContext(q, asked) ELSE asked
           required == Required(r.facts, ModelBytes(r), context, shards)
<1>1. r.facts \in ModelFacts /\ ModelBytes(r) \in Nat /\ asked \in Nat /\ r.weights \in Nat
  BY RequestTypes DEF Request
<1>2. /\ q.facts = r.facts /\ q.context = r.context /\ q.gpus = shards /\ q.available = available
      /\ q.quant = r.quant /\ q.weights = ModelBytes(r)
  BY DEF Sized
<1>3. WeightsOf(q) = ModelBytes(r)
  <2>1. CASE ModelBytes(r) > 0 BY <1>2, <2>1 DEF WeightsOf
  <2>2. CASE ~(ModelBytes(r) > 0)
    <3>1. ModelBytes(r) = IF r.weights > 0 THEN r.weights ELSE (r.facts.params * Bits[r.quant]) \div 800
      BY DEF ModelBytes, WeightsOf, Sized
    <3>2. ModelBytes(r) = (r.facts.params * Bits[r.quant]) \div 800 BY <1>1, <2>2, <3>1
    <3> QED BY <1>2, <2>2, <3>2 DEF WeightsOf
  <2> QED BY <2>1, <2>2
<1>4. asked = IF q.facts.maxContext > 0 THEN Shorter(q.context, q.facts.maxContext) ELSE q.context
  BY <1>2 DEF AskedContext
<1>5. context \in Nat BY <1>1, Reduces
<1> HIDE DEF q
<1>6. Plan(q).required = required /\ (Plan(q).fits <=> (available > 0 => required <= available))
  <2>1. q.available > 0 BY <1>2
  <2> HIDE DEF asked
  <2> QED BY <1>2, <1>3, <1>4, <2>1 DEF Plan
<1> HIDE DEF context
<1>7. required \in Nat /\ 1 <= required BY <1>1, <1>5, TakenOf
<1> QED BY <1>6, <1>7 DEF q

\* What the engine is told at launch: no more than can be used, and where the
\* plan fits in the memory that is there at least what it takes.
LEMMA RaisedTo ==
  ASSUME NEW plan, NEW shards \in Nat \ {0}, NEW card \in Nat, 1 <= shards * card,
         plan.required \in Nat,
         plan.utilization[1] \in Nat, plan.utilization[2] \in Nat, 1 <= plan.utilization[2],
         100 * plan.utilization[1] <= 95 * plan.utilization[2],
         DOMAIN plan = {"weights", "context", "required", "shards", "fits", "utilization"}
  PROVE  LET told == Raised(plan, shards, card)
         IN /\ told.shards = shards
            /\ told.utilization[1] * 100 <= MaxGPUUtilisation * told.utilization[2]
            /\ 100 * plan.required <= 95 * (shards * card) => Covers(told, card)
<1> DEFINE memory == shards * card
           wanted == IF 100 * plan.required > MaxGPUUtilisation * memory THEN <<MaxGPUUtilisation, 100>>
                     ELSE <<plan.required, memory>>
           u == plan.utilization
           told == Raised(plan, shards, card)
<1>1. memory \in Nat /\ 1 <= memory OBVIOUS
<1>2. /\ told.shards = shards /\ told.required = plan.required
      /\ told.utilization = Fraction(wanted, u)
  BY DEF Raised
<1>3. Fraction(wanted, u) = wanted \/ (Fraction(wanted, u) = u /\ ~(wanted[1] * u[2] > u[1] * wanted[2]))
  BY DEF Fraction
<1> HIDE DEF memory, told
<1>4. wanted[1] \in Nat /\ wanted[2] \in Nat /\ 100 * wanted[1] <= 95 * wanted[2]
  BY <1>1 DEF MaxGPUUtilisation
<1>5. told.utilization[1] * 100 <= MaxGPUUtilisation * told.utilization[2]
  <2> HIDE DEF wanted
  <2>1. wanted[1] * 100 <= MaxGPUUtilisation * wanted[2] BY <1>4 DEF MaxGPUUtilisation
  <2>2. u[1] * 100 <= MaxGPUUtilisation * u[2] BY DEF MaxGPUUtilisation
  <2> HIDE DEF u
  <2> QED BY <1>2, <1>3, <2>1, <2>2
<1>6. ASSUME 100 * plan.required <= 95 * memory PROVE Covers(told, card)
  <2>1. wanted = <<plan.required, memory>> BY <1>1, <1>6 DEF MaxGPUUtilisation
  <2>2. told.utilization[1] * memory >= plan.required * told.utilization[2]
    <3>1. plan.required * memory \in Nat BY <1>1
    <3>2. CASE Fraction(wanted, u) = wanted BY <1>2, <2>1, <3>1, <3>2
    <3>3. CASE Fraction(wanted, u) = u /\ ~(wanted[1] * u[2] > u[1] * wanted[2])
      <4>1. ~(plan.required * u[2] > u[1] * memory) BY <2>1, <3>3
      <4>2. plan.required * u[2] \in Nat /\ u[1] * memory \in Nat BY <1>1
      <4> QED BY <1>2, <3>3, <4>1, <4>2
    <3> QED BY <1>3, <3>2, <3>3
  <2>3. told.utilization[1] * card * shards = told.utilization[1] * memory
    <3>1. told.utilization[1] \in Nat BY <1>2, <1>3, <1>4
    <3> DEFINE a == told.utilization[1]
    <3>2. a \in Nat BY <3>1
    <3> HIDE DEF a
    <3>3. a * card * shards = a * (shards * card) BY <3>2
    <3> QED BY <3>3 DEF a, memory
  <2> QED BY <1>2, <2>2, <2>3 DEF Covers
<1> QED BY <1>2, <1>5, <1>6 DEF told, memory

-----------------------------------------------------------------------------
(* The specification                                                       *)

PlanFields == {"weights", "context", "required", "shards", "fits", "utilization"}

\* What stays of a selection until its hardware is placed.
PlanMade(r, a) ==
  a.kind = "chosen" =>
    /\ Sizable(Sized(r, 1, 0)) /\ DOMAIN a.plan = PlanFields
    /\ a.plan.shards \in Nat \ {0} /\ a.plan.weights = ModelBytes(r)
    /\ a.plan.required \in Nat /\ 1 <= a.plan.required
    /\ a.plan.utilization[1] \in Nat /\ a.plan.utilization[2] \in Nat /\ 1 <= a.plan.utilization[2]
    /\ 100 * a.plan.utilization[1] <= 95 * a.plan.utilization[2]

\* The properties, of a request, a market, an answer and a launch.
Serves(r, offered, a) ==
  LET offers == Search(offered, r.criteria, DiskSearched(r))
      wanted == {o \in offers : Wanted(r, o, offers)}
      bytes == coldStartBytes(Baseline(r))
      bill(o) == sessionCost(o, bytes, medianNet(offers))
  IN /\ a.kind = "chosen" =>
          /\ a.offer \in wanted /\ a.plan.fits /\ Starts(r, a.plan.shards)
          /\ a.plan.context = Baseline(r).context
          /\ Covers(a.plan, a.offer.vram * GiB)
          /\ a.disk >= coldStartBytes(a.plan)
          /\ \A o \in wanted : bill(a.offer)[1] * bill(o)[2] <= bill(o)[1] * bill(a.offer)[2]
     /\ a.kind = "refused" => wanted = {}

Launches(r, l) ==
  l.kind = "launched" =>
    /\ l.plan.shards <= l.host.gpus
    /\ l.plan.utilization[1] * 100 <= MaxGPUUtilisation * l.plan.utilization[2]
    /\ l.known => Starts(r, l.plan.shards) /\ Covers(l.plan, l.host.card)

RentInv ==
  /\ request \in Requests /\ market \subseteq Listing
  /\ PlanMade(request, answer) /\ Serves(request, market, answer)

LaunchInv == RentInv /\ Launches(request, launched)

LEMMA AnswerServes ==
  ASSUME NEW r \in Request, NEW offered, offered \subseteq Listing, 2 <= GiB, NEW a,
         LET offers == Search(offered, r.criteria, DiskSearched(r))
             selected == Selected(r, offers)
         IN a \in
          IF Unanswerable(r) THEN {[kind |-> "unanswerable"]}
          ELSE IF selected = {}
          THEN {[kind |-> "refused", best |-> Best(r, offers),
                 suggestions |-> suggest(r, Best(r, offers)),
                 hints |-> moreCardsWouldFit(r) \cup lowStockWouldFit(r)]}
          ELSE IF sizeDisk(r.disk, Baseline(r)) = 0 THEN {[kind |-> "disk"]}
          ELSE {[kind |-> "chosen", offer |-> o, plan |-> Placed(r, o),
                 disk |-> DiskSearched(r)] : o \in selected}
  PROVE  PlanMade(r, a) /\ Serves(r, offered, a)
<1> DEFINE offers == Search(offered, r.criteria, DiskSearched(r))
           wanted == {o \in offers : Wanted(r, o, offers)}
           bytes == coldStartBytes(Baseline(r))
           bill(o) == sessionCost(o, bytes, medianNet(offers))
           selected == Selected(r, offers)
<1>1. CASE Unanswerable(r)
  <2>1. a.kind = "unanswerable" BY <1>1
  <2> QED BY <2>1 DEF PlanMade, Serves
<1>2. CASE ~Unanswerable(r)
  <2>1. Sizable(Sized(r, 1, 0)) BY <1>2 DEF Unanswerable
  <2>2. /\ \A o \in selected :
             /\ o \in Offered /\ holds(r, o) /\ o \in wanted
             /\ \A p \in wanted : bill(o)[1] * bill(p)[2] <= bill(p)[1] * bill(o)[2]
        /\ selected = {} => wanted = {}
    BY <2>1, Surveyed
  <2>3. CASE selected = {}
    <3>1. a.kind = "refused" BY <1>2, <2>3
    <3> QED BY <2>2, <2>3, <3>1 DEF PlanMade, Serves
  <2>4. CASE selected # {} /\ sizeDisk(r.disk, Baseline(r)) = 0
    <3>1. a.kind = "disk" BY <1>2, <2>4
    <3> QED BY <3>1 DEF PlanMade, Serves
  <2>5. CASE selected # {} /\ sizeDisk(r.disk, Baseline(r)) # 0
    <3>1. PICK o \in selected : a = [kind |-> "chosen", offer |-> o, plan |-> Placed(r, o),
                                     disk |-> DiskSearched(r)]
      BY <1>2, <2>5
    <3>2. a.kind = "chosen" /\ a.offer = o /\ a.plan = Placed(r, o) /\ a.disk = DiskSearched(r)
      BY <3>1
    <3>3. /\ o \in Offered /\ holds(r, o) /\ o \in wanted
          /\ \A p \in wanted : bill(o)[1] * bill(p)[2] <= bill(p)[1] * bill(o)[2]
      BY <2>2
    <3> DEFINE plan == Placed(r, o)
    <3>4. /\ plan.fits /\ Starts(r, plan.shards) /\ plan.shards \in Nat \ {0}
          /\ plan.context = Baseline(r).context /\ plan.weights = Baseline(r).weights
          /\ plan.weights = ModelBytes(r)
          /\ plan.required \in Nat /\ 1 <= plan.required
          /\ Covers(plan, o.vram * GiB)
          /\ plan.utilization[1] \in Nat /\ plan.utilization[2] \in Nat /\ 1 <= plan.utilization[2]
          /\ 100 * plan.utilization[1] <= 95 * plan.utilization[2]
      BY <2>1, <3>3, PlacedHolds
    <3>5. DOMAIN plan = PlanFields BY DEF Placed, Plan, PlanFields
    <3>6. a.disk >= coldStartBytes(plan)
      <4>1. DiskSearched(r) >= coldStartBytes(Baseline(r)) BY <2>1, <2>5, DiskHolds
      <4>2. coldStartBytes(plan) = coldStartBytes(Baseline(r)) BY <3>4 DEF coldStartBytes
      <4> QED BY <3>2, <4>1, <4>2
    <3> HIDE DEF plan
    <3>7. PlanMade(r, a) BY <2>1, <3>2, <3>4, <3>5 DEF PlanMade, plan
    <3>8. Serves(r, offered, a) BY <3>2, <3>3, <3>4, <3>6 DEF Serves, plan
    <3> QED BY <3>7, <3>8
  <2> QED BY <2>3, <2>4, <2>5
<1> QED BY <1>1, <1>2

LEMMA LaunchServes ==
  ASSUME NEW r \in Request, NEW a, a.kind = "chosen", PlanMade(r, a), 2 <= GiB,
         NEW there \in Hosts, 2 <= there.card, NEW readable \in BOOLEAN, NEW known \in BOOLEAN,
         NEW shards,
         shards = Shorter(IF known THEN Shards(r.facts, there.gpus, r.tensorParallel) ELSE a.plan.shards,
                          there.gpus),
         NEW l,
         LET plan == a.plan
             again == Plan([Sized(r, shards, UsableVRAM(there.card * shards)) EXCEPT !.weights = plan.weights])
             failed == [kind |-> "host_failure"]
             starting(p) == [kind |-> "launched", plan |-> p, host |-> there, known |-> known]
         IN l = IF ~readable THEN [starting(plan) EXCEPT !.kind = "unread"]
                ELSE IF there.gpus * there.card < plan.required THEN failed
                ELSE IF ~known THEN starting(Raised(plan, shards, there.card))
                ELSE IF ~again.fits THEN failed
                ELSE starting(Raised([again EXCEPT !.utilization = plan.utilization], shards, there.card))
  PROVE  Launches(r, l)
<1> DEFINE plan == a.plan
           card == there.card
           memory == there.card * shards
           again == Plan([Sized(r, shards, UsableVRAM(memory)) EXCEPT !.weights = plan.weights])
           told == Raised(plan, shards, card)
           kept == [again EXCEPT !.utilization = plan.utilization]
           retold == Raised(kept, shards, card)
<1>1. there.gpus \in Nat \ {0} /\ card \in Nat BY MarketConstants
<1>2. /\ Sizable(Sized(r, 1, 0)) /\ DOMAIN plan = PlanFields
      /\ plan.shards \in Nat \ {0} /\ plan.weights = ModelBytes(r)
      /\ plan.required \in Nat /\ 1 <= plan.required
      /\ plan.utilization[1] \in Nat /\ plan.utilization[2] \in Nat /\ 1 <= plan.utilization[2]
      /\ 100 * plan.utilization[1] <= 95 * plan.utilization[2]
  BY DEF PlanMade
<1>3. /\ Shards(r.facts, there.gpus, r.tensorParallel) \in 1..there.gpus
      /\ Starts(r, Shards(r.facts, there.gpus, r.tensorParallel))
  BY <1>1, ShardsStart
<1>4. shards \in Nat \ {0} /\ shards <= there.gpus /\ (known => Starts(r, shards))
  <2>1. CASE known
    <3>1. shards = Shards(r.facts, there.gpus, r.tensorParallel) BY <1>1, <1>3, <2>1 DEF Shorter
    <3> QED BY <1>1, <1>3, <3>1
  <2>2. CASE ~known BY <1>1, <1>2, <2>2 DEF Shorter
  <2> QED BY <2>1, <2>2
<1>5. /\ memory \in Nat /\ 2 <= memory /\ memory = shards * card
  <2>1. 1 * card <= shards * card BY <1>1, <1>4, Dominates
  <2>2. memory = shards * card BY <1>1, <1>4
  <2>3. shards * card \in Nat BY <1>1, <1>4
  <2> HIDE DEF memory
  <2> QED BY <1>1, <2>1, <2>2, <2>3
<1>6. /\ UsableVRAM(memory) \in Nat /\ 1 <= UsableVRAM(memory)
      /\ 100 * UsableVRAM(memory) <= 95 * memory
  <2> HIDE DEF memory
  <2> QED BY <1>5, Percent DEF UsableVRAM, MaxGPUUtilisation
<1>7. again.required \in Nat /\ 1 <= again.required /\ (again.fits => again.required <= UsableVRAM(memory))
  <2> HIDE DEF memory
  <2> QED BY <1>2, <1>4, <1>6, PlannedAgain
<1>8. /\ DOMAIN kept = PlanFields /\ kept.required = again.required /\ kept.utilization = plan.utilization
  <2>1. DOMAIN again = PlanFields BY DEF Plan, PlanFields
  <2> HIDE DEF again
  <2> QED BY <2>1 DEF PlanFields
<1>9. /\ told.shards = shards
      /\ told.utilization[1] * 100 <= MaxGPUUtilisation * told.utilization[2]
  <2>1. 1 <= shards * card BY <1>1, <1>4, <1>5
  <2> HIDE DEF plan, memory
  <2> QED BY <1>1, <1>2, <1>4, <2>1, RaisedTo DEF PlanFields
<1>10. /\ retold.shards = shards
       /\ retold.utilization[1] * 100 <= MaxGPUUtilisation * retold.utilization[2]
       /\ again.fits => Covers(retold, card)
  <2>1. /\ kept.required \in Nat /\ kept.utilization[1] \in Nat /\ kept.utilization[2] \in Nat
        /\ 1 <= kept.utilization[2] /\ 100 * kept.utilization[1] <= 95 * kept.utilization[2]
    BY <1>2, <1>7, <1>8
  <2>2. again.fits => 100 * kept.required <= 95 * (shards * card)
    <3> HIDE DEF again, kept, memory
    <3> QED BY <1>5, <1>6, <1>7, <1>8
  <2> HIDE DEF again, kept
  <2> QED BY <1>1, <1>4, <1>5, <1>8, <2>1, <2>2, RaisedTo DEF PlanFields
<1> DEFINE starting(p) == [kind |-> "launched", plan |-> p, host |-> there, known |-> known]
<1>11. \/ l.kind = "unread" \/ l.kind = "host_failure"
       \/ ~known /\ l = starting(told)
       \/ known /\ again.fits /\ l = starting(retold)
  <2> HIDE DEF again, told, retold, memory
  <2> QED BY DEF again, told, retold, memory
<1>12. CASE l.kind = "unread" \/ l.kind = "host_failure" BY <1>12 DEF Launches
<1>13. CASE ~known /\ l = starting(told)
  <2> HIDE DEF told
  <2>1. l.plan = told /\ l.host = there /\ l.known = known BY <1>13
  <2> QED BY <1>4, <1>9, <1>13, <2>1 DEF Launches
<1>14. CASE known /\ again.fits /\ l = starting(retold)
  <2> HIDE DEF retold
  <2>1. l.plan = retold /\ l.host = there BY <1>14
  <2> QED BY <1>4, <1>10, <1>14, <2>1 DEF Launches
<1> QED BY <1>11, <1>12, <1>13, <1>14

LEMMA RentGoesOn ==
  ASSUME 2 <= GiB
  PROVE  RentInv /\ [MarketNext]_mvars => RentInv'
<1> SUFFICES ASSUME RentInv, [MarketNext]_mvars PROVE RentInv' OBVIOUS
<1>1. request \in Requests /\ request \in Request /\ market \subseteq Listing
  BY MarketConstants DEF RentInv
<1>2. CASE Survey
  <2>1. request' = request /\ market' = market BY <1>2 DEF Survey
  <2>2. PlanMade(request, answer') /\ Serves(request, market, answer')
    <3>1. answer' \in
            IF Unanswerable(request) THEN {[kind |-> "unanswerable"]}
            ELSE IF Selected(request, Search(market, request.criteria, DiskSearched(request))) = {}
            THEN {[kind |-> "refused",
                   best |-> Best(request, Search(market, request.criteria, DiskSearched(request))),
                   suggestions |-> suggest(request,
                      Best(request, Search(market, request.criteria, DiskSearched(request)))),
                   hints |-> moreCardsWouldFit(request) \cup lowStockWouldFit(request)]}
            ELSE IF sizeDisk(request.disk, Baseline(request)) = 0 THEN {[kind |-> "disk"]}
            ELSE {[kind |-> "chosen", offer |-> o, plan |-> Placed(request, o),
                   disk |-> DiskSearched(request)] :
                      o \in Selected(request, Search(market, request.criteria, DiskSearched(request)))}
      BY <1>2 DEF Survey
    <3> QED BY <1>1, <3>1, AnswerServes
  <2> QED BY <1>1, <2>1, <2>2 DEF RentInv
<1>3. ASSUME NEW there \in Hosts, NEW readable \in BOOLEAN, NEW known \in BOOLEAN,
             verifyPlacedHardware(there, readable, known)
      PROVE  RentInv'
  BY <1>3 DEF verifyPlacedHardware, RentInv
<1>4. CASE UNCHANGED mvars BY <1>4 DEF mvars, RentInv
<1> QED BY <1>2, <1>3, <1>4 DEF MarketNext

LEMMA LaunchGoesOn ==
  ASSUME 2 <= GiB, \A h \in Hosts : 2 <= h.card
  PROVE  LaunchInv /\ [MarketNext]_mvars => LaunchInv'
<1> SUFFICES ASSUME LaunchInv, [MarketNext]_mvars PROVE LaunchInv' OBVIOUS
<1>1. request \in Request BY MarketConstants DEF LaunchInv, RentInv
<1>0. RentInv' BY RentGoesOn DEF LaunchInv
<1>2. CASE Survey
  <2>1. request' = request /\ launched' = launched BY <1>2 DEF Survey
  <2> QED BY <1>0, <2>1 DEF LaunchInv
<1>3. ASSUME NEW there \in Hosts, NEW readable \in BOOLEAN, NEW known \in BOOLEAN,
             verifyPlacedHardware(there, readable, known)
      PROVE  LaunchInv'
  <2>1. request' = request /\ market' = market /\ answer' = answer /\ answer.kind = "chosen"
    BY <1>3 DEF verifyPlacedHardware
  <2>2. PlanMade(request, answer) BY DEF LaunchInv, RentInv
  <2> DEFINE shards == Shorter(IF known THEN Shards(request.facts, there.gpus, request.tensorParallel)
                               ELSE answer.plan.shards, there.gpus)
  <2>3. LET plan == answer.plan
            again == Plan([Sized(request, shards, UsableVRAM(there.card * shards))
                             EXCEPT !.weights = plan.weights])
            failed == [kind |-> "host_failure"]
            starting(p) == [kind |-> "launched", plan |-> p, host |-> there, known |-> known]
        IN launched' = IF ~readable THEN [starting(plan) EXCEPT !.kind = "unread"]
                ELSE IF there.gpus * there.card < plan.required THEN failed
                ELSE IF ~known THEN starting(Raised(plan, shards, there.card))
                ELSE IF ~again.fits THEN failed
                ELSE starting(Raised([again EXCEPT !.utilization = plan.utilization], shards, there.card))
    BY <1>3 DEF verifyPlacedHardware, Resharded
  <2>4. Launches(request, launched') BY <1>1, <2>1, <2>2, <2>3, LaunchServes
  <2> QED BY <1>0, <2>1, <2>4 DEF LaunchInv
<1>4. CASE UNCHANGED mvars BY <1>0, <1>4 DEF mvars, LaunchInv
<1> QED BY <1>2, <1>3, <1>4 DEF MarketNext

\* A selection is the least bill for hardware that will do, and nothing is refused
\* while an offer would, for every request and market (Survey of
\* internal/daemon/up.go with the order of internal/rank): a gigabyte is more than
\* one unit of memory, and that is all that is assumed of the units.
THEOREM RentsWhatServes ==
  ASSUME 2 <= GiB
  PROVE  MarketSpec => []RentalServes
<1>1. MarketInit => RentInv
  <2>1. MarketInit => /\ request \in Requests /\ market \subseteq Listing /\ answer.kind = "none"
    BY DEF MarketInit, Pending
  <2> QED BY <2>1 DEF RentInv, PlanMade, Serves
<1>2. RentInv /\ [MarketNext]_mvars => RentInv' BY RentGoesOn
<1>3. RentInv => RentalServes BY DEF RentInv, Serves, RentalServes
<1> QED BY <1>1, <1>2, <1>3, PTL DEF MarketSpec

\* What is launched starts and holds on the cards that are there, whatever the
\* host that was placed (verifyPlacedHardware, internal/daemon/up.go): of a card
\* it is assumed besides that it has more than one unit of memory.
THEOREM LaunchesWhatHolds ==
  ASSUME 2 <= GiB, \A h \in Hosts : 2 <= h.card
  PROVE  MarketSpec => []LaunchHolds
<1>1. MarketInit => LaunchInv
  <2>1. MarketInit => /\ request \in Requests /\ market \subseteq Listing
                      /\ answer.kind = "none" /\ launched.kind = "none"
    BY DEF MarketInit, Pending
  <2> QED BY <2>1 DEF LaunchInv, RentInv, PlanMade, Serves, Launches
<1>2. LaunchInv /\ [MarketNext]_mvars => LaunchInv' BY LaunchGoesOn
<1>3. LaunchInv => LaunchHolds BY DEF LaunchInv, Launches, LaunchHolds
<1> QED BY <1>1, <1>2, <1>3, PTL DEF MarketSpec

-----------------------------------------------------------------------------
(* Advice                                                                  *)

\* The last of the checks is the price's: what passes the rest is eligible, or an
\* outlier.
LEMMA PassesButPrice ==
  ASSUME NEW o, NEW c, NEW offers, NEW fit,
         Permits(c.spot, o),
         ~(c.maxPrice > 0 /\ o.price > c.maxPrice),
         ~(\/ o.gpus < c.gpus \/ (c.maxGpus > 0 /\ o.gpus > c.maxGpus)
           \/ o.vram < c.vramEach \/ o.vram * o.gpus < c.vramAll),
         fit[o] = "eligible",
         ~(c.certifiedOnly /\ ~o.certified /\ o.tier # "verified"),
         ~(~c.allowDeverified /\ o.tier = "deverified"),
         ~(o.reliability > 0 /\ o.reliability < ReliabilityFloor)
  PROVE  classify(o, c, offers, fit) \in {"eligible", "outlier"}
<1> DEFINE checks == Checks(o, c, offers, fit)
           I == {i \in 1..Len(checks) : checks[i][2]}
           failed == SelectInSeq(checks, LAMBDA check : check[2])
<1>0. Len(checks) = 8 BY DEF Checks
<1>1. ~checks[1][2] BY DEF Checks
<1>2. ~checks[2][2] BY DEF Checks
<1>3. ~checks[3][2] BY DEF Checks
<1>4. ~checks[4][2] BY DEF Checks
<1>5. ~checks[5][2] BY DEF Checks
<1>6. ~checks[6][2] BY DEF Checks
<1>7. ~checks[7][2] BY DEF Checks
<1>8. checks[8][1] = "outlier" BY DEF Checks
<1>9. classify(o, c, offers, fit) = IF failed = 0 THEN "eligible" ELSE checks[failed][1]
  BY DEF classify
<1> HIDE DEF checks, failed
<1>10. failed = IF I # {} THEN Min(I) ELSE 0 BY DEF SelectInSeq, failed
<1>11. I \subseteq {8}
  <2>1. \A i \in 1..8 : i = 1 \/ i = 2 \/ i = 3 \/ i = 4 \/ i = 5 \/ i = 6 \/ i = 7 \/ i = 8 OBVIOUS
  <2> QED BY <1>0, <1>1, <1>2, <1>3, <1>4, <1>5, <1>6, <1>7, <2>1
<1>12. CASE I = {} BY <1>9, <1>10, <1>12
<1>13. CASE I # {}
  <2>1. I = {8} BY <1>11, <1>13
  <2>2. Min(I) = 8 BY <2>1 DEF Min
  <2> QED BY <1>8, <1>9, <1>10, <1>13, <2>2
<1> QED BY <1>12, <1>13

\* A hint's request has of the offers searched one that passes but for its price.
LEMMA HintsFit ==
  ASSUME NEW r \in Request, market \subseteq Listing,
         NEW a \in moreCardsWouldFit(r) \cup lowStockWouldFit(r)
  PROVE  \E o \in Search(market, a.criteria, DiskSearched(a)) : Verdict(a, o) \in {"eligible", "outlier"}
<1>1. CASE a \in moreCardsWouldFit(r)
  <2> DEFINE free == [r EXCEPT !.criteria.maxGpus = 0]
             offers == Search(market, free.criteria, DiskSearched(r))
             raised(o) == [r EXCEPT !.criteria.maxGpus = o.gpus]
  <2>1. PICK o \in Selected(free, offers) : a = raised(o) BY <1>1 DEF moreCardsWouldFit
  <2> DEFINE fit == [p \in offers |-> fits(free, p)]
             found == Search(market, a.criteria, DiskSearched(a))
             again == [p \in found |-> fits(a, p)]
  <2>2. /\ free.criteria = [r.criteria EXCEPT !.maxGpus = 0]
        /\ free.facts = r.facts /\ free.tensorParallel = r.tensorParallel /\ free.quant = r.quant
        /\ free.context = r.context /\ free.weights = r.weights /\ free.disk = r.disk
        /\ a.criteria = [r.criteria EXCEPT !.maxGpus = o.gpus]
        /\ a.facts = r.facts /\ a.tensorParallel = r.tensorParallel /\ a.quant = r.quant
        /\ a.context = r.context /\ a.weights = r.weights /\ a.disk = r.disk
    BY <2>1 DEF Request
  <2>3. /\ free.criteria.maxGpus = 0 /\ a.criteria.maxGpus = o.gpus
        /\ a.criteria.spot = free.criteria.spot /\ a.criteria.maxPrice = free.criteria.maxPrice
        /\ a.criteria.gpus = free.criteria.gpus /\ a.criteria.vramEach = free.criteria.vramEach
        /\ a.criteria.vramAll = free.criteria.vramAll /\ a.criteria.minNet = free.criteria.minNet
        /\ a.criteria.certifiedOnly = free.criteria.certifiedOnly
        /\ a.criteria.allowDeverified = free.criteria.allowDeverified
        /\ a.criteria.lowStock = free.criteria.lowStock
    BY <2>2 DEF Request, Criteria
  <2>4. DiskSearched(a) = DiskSearched(r)
    BY <2>2 DEF DiskSearched, Baseline, Sized
  <2>5. o \in offers /\ classify(o, free.criteria, offers, fit) = "eligible"
    BY <2>1 DEF Selected, Select
  <2>6. o.gpus \in Nat \ {0} BY <2>5, MarketConstants DEF Search, Offered
  <2>7. o \in found BY <2>3, <2>4, <2>5, <2>6 DEF Search, stock, matches
  <2>8. again[o] = fit[o]
    <3>1. fits(a, o) = fits(free, o) BY <2>2, <2>3 DEF fits, holds, Sized
    <3> QED BY <2>5, <2>7, <3>1
  <2> HIDE DEF free, offers, raised, fit, found, again
  <2>9. classify(o, a.criteria, found, again) \in {"eligible", "outlier"}
    <3>1. /\ Permits(free.criteria.spot, o)
          /\ ~(free.criteria.maxPrice > 0 /\ o.price > free.criteria.maxPrice)
          /\ ~(\/ o.gpus < free.criteria.gpus \/ (free.criteria.maxGpus > 0 /\ o.gpus > free.criteria.maxGpus)
               \/ o.vram < free.criteria.vramEach \/ o.vram * o.gpus < free.criteria.vramAll)
          /\ fit[o] = "eligible"
          /\ ~(free.criteria.certifiedOnly /\ ~o.certified /\ o.tier # "verified")
          /\ ~(~free.criteria.allowDeverified /\ o.tier = "deverified")
          /\ ~(o.reliability > 0 /\ o.reliability < ReliabilityFloor)
      BY <2>5, Classified
    <3>2. ~(a.criteria.maxGpus > 0 /\ o.gpus > a.criteria.maxGpus) BY <2>3, <2>6
    <3> QED BY <2>3, <2>8, <3>1, <3>2, PassesButPrice
  <2> QED BY <2>7, <2>9 DEF Verdict, found, again
<1>2. CASE a \in lowStockWouldFit(r)
  <2> DEFINE allowed == [r EXCEPT !.criteria.lowStock = TRUE]
             offers == Search(market, allowed.criteria, DiskSearched(r))
  <2>1. PICK o \in Selected(allowed, offers) : a = allowed BY <1>2 DEF lowStockWouldFit
  <2>2. DiskSearched(allowed) = DiskSearched(r)
    <3>1. /\ allowed.facts = r.facts /\ allowed.quant = r.quant /\ allowed.disk = r.disk
          /\ allowed.context = r.context /\ allowed.weights = r.weights
      BY DEF Request
    <3> QED BY <3>1 DEF DiskSearched, Baseline, Sized
  <2>3. /\ o \in offers
        /\ classify(o, allowed.criteria, offers, [p \in offers |-> fits(allowed, p)]) = "eligible"
    BY <2>1 DEF Selected, Select
  <2> HIDE DEF allowed
  <2> QED BY <2>1, <2>2, <2>3 DEF Verdict
<1> QED BY <1>1, <1>2

\* What is suggested holds on the best offer, where there is one.
LEMMA SuggestionsHold ==
  ASSUME NEW r \in Request, NEW best, NEW a \in suggest(r, best), NEW o \in best
  PROVE  holds(a, o)
<1> DEFINE quantized == {[r EXCEPT !.quant = Quantizations[i], !.weights = 0] : i \in DOMAIN Quantizations}
           shortened == {[r EXCEPT !.context = c] : c \in {k \in Contexts : k < r.context}}
<1>1. a \in suggestOn(r, best, quantized) \/ a \in suggestOn(r, best, shortened) BY DEF suggest
<1>2. \A b \in quantized \cup shortened : b.facts = r.facts /\ b.tensorParallel = r.tensorParallel
  <2>1. \A b \in quantized : b.facts = r.facts /\ b.tensorParallel = r.tensorParallel
    <3> TAKE b \in quantized
    <3>1. PICK i \in DOMAIN Quantizations : b = [r EXCEPT !.quant = Quantizations[i], !.weights = 0]
      OBVIOUS
    <3> QED BY <3>1 DEF Request
  <2>2. \A b \in shortened : b.facts = r.facts /\ b.tensorParallel = r.tensorParallel
    <3> TAKE b \in shortened
    <3>1. PICK c \in Contexts : b = [r EXCEPT !.context = c] OBVIOUS
    <3> QED BY <3>1 DEF Request
  <2> QED BY <2>1, <2>2
<1> HIDE DEF quantized, shortened
<1>3. a \in quantized \cup shortened /\ fitsOnBest(r, best, a) BY <1>1 DEF suggestOn
<1>4. Plan(Sized(a, Shards(r.facts, o.gpus, r.tensorParallel), 0)).required
        <= ShardVRAM(o.vram, Shards(r.facts, o.gpus, r.tensorParallel))
  BY <1>3 DEF fitsOnBest
<1>5. a.facts = r.facts /\ a.tensorParallel = r.tensorParallel BY <1>2, <1>3
<1> QED BY <1>4, <1>5 DEF holds

\* What a refusal advises, of the request and the market that it was given.
AdviceInv == RentInv /\ AdviceWorks

\* Advice can be taken, for every request and market on which an offer meets the
\* other criteria, as far as its price beside those the changed request finds
\* lets it (Analyse and suggest of
\* internal/sizing/shortfall.go, moreCardsWouldFit and lowStockWouldFit of
\* internal/daemon/up.go).
THEOREM AdviceCanBeTaken ==
  ASSUME 2 <= GiB
  PROVE  MarketSpec => []AdviceWorks
<1>1. MarketInit => AdviceInv
  <2>1. MarketInit => /\ request \in Requests /\ market \subseteq Listing /\ answer.kind = "none"
    BY DEF MarketInit, Pending
  <2> QED BY <2>1 DEF AdviceInv, AdviceWorks, RentInv, PlanMade, Serves
<1>2. AdviceInv /\ [MarketNext]_mvars => AdviceInv'
  <2> SUFFICES ASSUME AdviceInv, [MarketNext]_mvars PROVE AdviceInv' OBVIOUS
  <2>1. RentInv' BY RentGoesOn DEF AdviceInv
  <2>2. request \in Request /\ market \subseteq Listing BY MarketConstants DEF AdviceInv, RentInv
  <2>3. CASE Survey
    <3>1. market' = market BY <2>3 DEF Survey
    <3> DEFINE offers == Search(market, request.criteria, DiskSearched(request))
    <3>2. answer'.kind = "refused" =>
            /\ answer'.best = Best(request, offers)
            /\ answer'.suggestions = suggest(request, Best(request, offers))
            /\ answer'.hints = moreCardsWouldFit(request) \cup lowStockWouldFit(request)
      BY <2>3 DEF Survey
    <3>3. offers \subseteq Listing BY <2>2 DEF Search
    <3> HIDE DEF offers
    <3>4. ASSUME answer'.kind = "refused", NEW a \in answer'.suggestions, NEW o \in answer'.best
          PROVE  holds(a, o)
      <4>1. a \in suggest(request, Best(request, offers)) /\ o \in Best(request, offers) BY <3>2, <3>4
      <4> QED BY <2>2, <4>1, SuggestionsHold
    <3>5. ASSUME answer'.kind = "refused", NEW a \in answer'.hints
          PROVE  \E o \in Search(market, a.criteria, DiskSearched(a)) : Verdict(a, o) \in {"eligible", "outlier"}
      BY <2>2, <3>2, <3>5, HintsFit
    <3>6. AdviceWorks' BY <3>1, <3>4, <3>5 DEF AdviceWorks, Verdict
    <3> QED BY <2>1, <3>6 DEF AdviceInv
  <2>4. ASSUME NEW there \in Hosts, NEW readable \in BOOLEAN, NEW known \in BOOLEAN,
               verifyPlacedHardware(there, readable, known)
        PROVE  AdviceInv'
    BY <2>1, <2>4 DEF verifyPlacedHardware, AdviceInv, AdviceWorks, Verdict
  <2>5. CASE UNCHANGED mvars BY <2>1, <2>5 DEF mvars, AdviceInv, AdviceWorks, Verdict
  <2> QED BY <2>3, <2>4, <2>5 DEF MarketNext
<1> QED BY <1>1, <1>2, PTL DEF MarketSpec, AdviceInv

-----------------------------------------------------------------------------
(* Cost                                                                    *)

\* r holds what the first n entries come to, one after another.
Follows(r, entries, n) ==
  r = [i \in 0..n |-> IF i = 0 THEN Nothing ELSE Replayed(r[i - 1], entries[i], 0)]

\* What entries come to is told by the entries.
LEMMA ReplayUnique ==
  ASSUME NEW n \in Nat, NEW r, NEW q, NEW d, NEW e, Follows(r, d, n), Follows(q, e, n),
         \A i \in 1..n : d[i] = e[i]
  PROVE  \A i \in 0..n : r[i] = q[i]
<1> DEFINE T == {i \in 0..n : r[i] # q[i]}
<1> SUFFICES ASSUME T # {} PROVE FALSE OBVIOUS
<1>1. T \subseteq Nat OBVIOUS
<1>2. PICK m \in T : \A j \in T : m <= j BY <1>1, LeastNumber
<1>3. /\ \A i \in 0..n : r[i] = IF i = 0 THEN Nothing ELSE Replayed(r[i - 1], d[i], 0)
      /\ \A i \in 0..n : q[i] = IF i = 0 THEN Nothing ELSE Replayed(q[i - 1], e[i], 0)
  BY DEF Follows
<1>4. m # 0 /\ m \in 1..n /\ m - 1 \in 0..n BY <1>2, <1>3
<1>5. r[m - 1] = q[m - 1]
  <2>1. m - 1 \notin T BY <1>2, <1>4
  <2> QED BY <1>4, <2>1
<1> QED BY <1>2, <1>3, <1>4, <1>5

\* Any number of entries come to something.
LEMMA ReplayExists ==
  ASSUME NEW n \in Nat, NEW e
  PROVE  \E r : Follows(r, e, n)
<1> DEFINE T == {k \in Nat : ~\E r : Follows(r, e, k)}
<1> SUFFICES ASSUME T # {} PROVE FALSE OBVIOUS
<1>1. T \subseteq Nat OBVIOUS
<1>2. PICK m \in T : \A j \in T : m <= j BY <1>1, LeastNumber
<1>3. m # 0
  <2> DEFINE r == [i \in 0..0 |-> Nothing]
  <2>1. r = [i \in 0..0 |-> IF i = 0 THEN Nothing ELSE Replayed(r[i - 1], e[i], 0)]
    OBVIOUS
  <2>2. Follows(r, e, 0) BY <2>1 DEF Follows
  <2> QED BY <1>2, <2>2
<1>4. m \in Nat /\ m - 1 \in Nat /\ m - 1 \notin T BY <1>2, <1>3
<1>5. PICK r : Follows(r, e, m - 1) BY <1>4
<1> DEFINE q == [i \in 0..m |-> IF i = m THEN Replayed(r[m - 1], e[m], 0) ELSE r[i]]
<1>6. \A i \in 0..m - 1 : r[i] = IF i = 0 THEN Nothing ELSE Replayed(r[i - 1], e[i], 0)
  BY <1>5 DEF Follows
<1>7. /\ \A i \in 0..m - 1 : q[i] = r[i]
      /\ q[m] = Replayed(r[m - 1], e[m], 0)
  BY <1>4
<1>8. q = [i \in 0..m |-> q[i]] OBVIOUS
<1> HIDE DEF q
<1>9. ASSUME NEW i \in 0..m
      PROVE  q[i] = IF i = 0 THEN Nothing ELSE Replayed(q[i - 1], e[i], 0)
  <2>1. CASE i = m
    <3>1. m - 1 \in 0..m - 1 /\ i # 0 BY <1>3, <1>4, <2>1
    <3>2. q[m - 1] = r[m - 1] BY <1>7, <3>1
    <3> QED BY <1>7, <2>1, <3>1, <3>2
  <2>2. CASE i # m
    <3>1. i \in 0..m - 1 BY <1>4, <2>2
    <3>2. i # 0 => i - 1 \in 0..m - 1 BY <1>4, <3>1
    <3> QED BY <1>6, <1>7, <3>1, <3>2
  <2> QED BY <2>1, <2>2
<1>10. Follows(q, e, m) BY <1>8, <1>9 DEF Follows
<1> QED BY <1>2, <1>10

\* An entry more is replayed on what those before it came to.
LEMMA ReplayStep ==
  ASSUME NEW S, NEW s \in Seq(S), NEW e \in S
  PROVE  /\ replay(<<>>, 0) = Nothing
         /\ replay(Append(s, e), 0) = Replayed(replay(s, 0), e, 0)
<1>1. ASSUME NEW t \in Seq(S)
      PROVE  \E r : Follows(r, t, Len(t)) /\ replay(t, 0) = r[Len(t)]
  <2> DEFINE F(f) == f = [i \in 0..Len(t) |-> IF i = 0 THEN Nothing ELSE Replayed(f[i - 1], t[i], 0)]
             u == CHOOSE f : F(f)
  <2>1. Len(t) \in Nat OBVIOUS
  <2>2. \E r : F(r) BY <2>1, ReplayExists DEF Follows
  <2>3. F(u) BY <2>2
  <2>4. replay(t, 0) = u[Len(t)] BY DEF replay
  <2> HIDE DEF u
  <2> QED BY <2>3, <2>4 DEF Follows
<1>2. replay(<<>>, 0) = Nothing
  <2>1. <<>> \in Seq(S) /\ Len(<<>>) = 0 OBVIOUS
  <2>2. PICK r : Follows(r, <<>>, 0) /\ replay(<<>>, 0) = r[0] BY <1>1, <2>1
  <2> QED BY <2>2 DEF Follows
<1>3. replay(Append(s, e), 0) = Replayed(replay(s, 0), e, 0)
  <2> DEFINE n == Len(s)
             t == Append(s, e)
  <2>1. n \in Nat /\ t \in Seq(S) /\ Len(t) = n + 1 /\ t[n + 1] = e /\ \A i \in 1..n : t[i] = s[i]
    OBVIOUS
  <2>2. PICK r : Follows(r, s, n) /\ replay(s, 0) = r[n] BY <1>1
  <2>3. PICK q : Follows(q, t, n + 1) /\ replay(t, 0) = q[n + 1] BY <1>1, <2>1
  <2> DEFINE p == [i \in 0..n |-> q[i]]
  <2> HIDE DEF n, t
  <2>4. \A i \in 0..n + 1 : q[i] = IF i = 0 THEN Nothing ELSE Replayed(q[i - 1], t[i], 0)
    BY <2>3 DEF Follows
  <2>5. Follows(p, t, n)
    <3>1. \A i \in 0..n : p[i] = IF i = 0 THEN Nothing ELSE Replayed(p[i - 1], t[i], 0)
      <4> SUFFICES ASSUME NEW i \in 0..n
                   PROVE  p[i] = IF i = 0 THEN Nothing ELSE Replayed(p[i - 1], t[i], 0)
        OBVIOUS
      <4>1. i \in 0..n + 1 /\ p[i] = q[i] BY <2>1
      <4>2. i # 0 => p[i - 1] = q[i - 1] BY <2>1
      <4> QED BY <2>4, <4>1, <4>2
    <3>2. p = [i \in 0..n |-> p[i]] OBVIOUS
    <3> HIDE DEF p
    <3> QED BY <3>1, <3>2 DEF Follows
  <2>6. q[n] = r[n]
    <3>1. p[n] = r[n] BY <2>1, <2>2, <2>5, ReplayUnique
    <3> QED BY <2>1, <3>1
  <2>7. q[n + 1] = Replayed(q[n], t[n + 1], 0) BY <2>1, <2>4
  <2> QED BY <2>1, <2>2, <2>3, <2>6, <2>7 DEF t
<1> QED BY <1>2, <1>3

\* Entries as this program writes them, and what they come to.
Recorded == [at : Nat, to : Writes, price : Nat \ {0}, stored : Nat, legacy : {FALSE}, absent : BOOLEAN]
RatesOf == [price : Nat, stored : Nat, legacy : {FALSE}]
Sums == [state : Writes \cup {"none"}, since : Nat, rates : RatesOf, compute : Nat, storage : Nat,
         boot : Nat, ready : BOOLEAN, absent : BOOLEAN]

Spent(sum) == sum.compute + sum.storage
HourOf(sum) ==
  IF sum.state = "none" \/ ~storageBilling(sum.state) THEN 0
  ELSE IF computeBilling(sum.state) THEN sum.rates.price ELSE sum.rates.stored

LEMMA Products ==
  ASSUME NEW a \in Nat, NEW h \in Nat
  PROVE  a * h \in Nat /\ a * 0 = 0 /\ (a + 1) * h = a * h + h /\ 0 * h = 0
OBVIOUS

LEMMA ComputeStores ==
  ASSUME NEW s, computeBilling(s)
  PROVE  storageBilling(s) /\ s # "none"
BY DEF computeBilling, storageBilling

\* Time is charged at the hour's price, and nothing else changes.
LEMMA Accrued ==
  ASSUME NEW sum \in Sums, NEW until \in Nat, sum.since <= until
  PROVE  LET a == accrue(sum, until, 0)
         IN /\ a \in Sums
            /\ a.state = sum.state /\ a.since = sum.since /\ a.rates = sum.rates
            /\ a.boot = sum.boot /\ a.ready = sum.ready /\ a.absent = sum.absent
            /\ Spent(a) = Spent(sum) + (until - sum.since) * HourOf(sum)
<1> DEFINE a == accrue(sum, until, 0)
           t == until - sum.since
           hour == Hourly(sum.state, sum.rates, 0)
<1>1. /\ sum.since \in Nat /\ t \in Nat /\ sum.rates \in RatesOf /\ sum.rates.price \in Nat
      /\ sum.rates.stored \in Nat /\ ~sum.rates.legacy /\ sum.compute \in Nat /\ sum.storage \in Nat
  <2>1. /\ sum.since \in Nat /\ sum.rates \in RatesOf /\ sum.compute \in Nat /\ sum.storage \in Nat
    BY DEF Sums
  <2>2. t \in Nat BY <2>1
  <2>3. sum.rates.price \in Nat /\ sum.rates.stored \in Nat BY <2>1 DEF RatesOf
  <2>4. sum.rates.legacy = FALSE BY <2>1 DEF RatesOf
  <2> QED BY <2>1, <2>2, <2>3, <2>4
<1>2. CASE sum.state = "none"
  <2>1. a = sum BY <1>2 DEF accrue
  <2>2. HourOf(sum) = 0 BY <1>2 DEF HourOf
  <2>3. t * HourOf(sum) = 0 BY <1>1, <2>2, Products
  <2>4. Spent(a) = Spent(sum) /\ Spent(sum) \in Nat BY <1>1, <2>1 DEF Spent
  <2>5. Spent(a) = Spent(sum) + t * HourOf(sum) BY <2>3, <2>4
  <2> HIDE DEF a
  <2> QED BY <2>1, <2>5 DEF a
<1>3. CASE sum.state # "none"
  <2>1. a = [sum EXCEPT !.compute = sum.compute + t * hour[1], !.storage = sum.storage + t * hour[2]]
    BY <1>1, <1>3 DEF accrue
  <2>2. /\ hour[1] = IF computeBilling(sum.state) THEN sum.rates.price ELSE 0
        /\ hour[2] = IF computeBilling(sum.state) \/ ~storageBilling(sum.state) THEN 0 ELSE sum.rates.stored
    BY <1>1 DEF Hourly
  <2> HIDE DEF a, t, hour
  <2>3. hour[1] \in Nat /\ hour[2] \in Nat BY <1>1, <2>2
  <2>4. t * hour[1] \in Nat /\ t * hour[2] \in Nat /\ t * 0 = 0 BY <1>1, <2>3, Products
  <2>5. t * hour[1] + t * hour[2] = t * HourOf(sum)
    <3>1. CASE computeBilling(sum.state)
      <4>1. hour[2] = 0 /\ HourOf(sum) = hour[1] BY <2>2, <3>1, ComputeStores DEF HourOf
      <4> QED BY <2>4, <4>1
    <3>2. CASE ~computeBilling(sum.state)
      <4>1. hour[1] = 0 /\ HourOf(sum) = hour[2] BY <1>3, <2>2, <3>2 DEF HourOf
      <4> QED BY <2>4, <4>1
    <3> QED BY <3>1, <3>2
  <2>6. /\ sum.compute + t * hour[1] \in Nat /\ sum.storage + t * hour[2] \in Nat
        /\ (sum.compute + t * hour[1]) + (sum.storage + t * hour[2])
             = (sum.compute + sum.storage) + t * HourOf(sum)
    <3> DEFINE x == t * hour[1]
               y == t * hour[2]
               z == t * HourOf(sum)
    <3>1. x \in Nat /\ y \in Nat /\ x + y = z BY <2>4, <2>5
    <3> HIDE DEF x, y, z
    <3>2. /\ sum.compute + x \in Nat /\ sum.storage + y \in Nat
          /\ (sum.compute + x) + (sum.storage + y) = (sum.compute + sum.storage) + z
      BY <1>1, <3>1
    <3> QED BY <3>2 DEF x, y, z
  <2>7. /\ a.compute = sum.compute + t * hour[1] /\ a.storage = sum.storage + t * hour[2]
        /\ a.state = sum.state /\ a.since = sum.since /\ a.rates = sum.rates
        /\ a.boot = sum.boot /\ a.ready = sum.ready /\ a.absent = sum.absent
    BY <2>1 DEF Sums
  <2>8. a \in Sums BY <2>1, <2>6 DEF Sums
  <2>9. Spent(a) = Spent(sum) + t * HourOf(sum) BY <2>6, <2>7 DEF Spent
  <2> QED BY <2>7, <2>8, <2>9 DEF a, t
<1> QED BY <1>2, <1>3

\* What one entry comes to, after the end of a rig and before.
LEMMA OneEntry ==
  ASSUME NEW sum \in Sums, NEW e \in Recorded, sum.since <= e.at
  PROVE  LET s == Replayed(sum, e, 0)
         IN /\ s \in Sums /\ s.since <= e.at
            /\ s.absent <=> sum.absent \/ e.absent
            /\ sum.state = "DESTROYED" =>
                 /\ s.state = "DESTROYED" /\ Spent(s) = Spent(sum)
                 /\ s.boot = sum.boot /\ (s.ready <=> sum.ready)
            /\ sum.state # "DESTROYED" =>
                 /\ s.state = e.to /\ s.since = e.at
                 /\ Spent(s) = Spent(sum) + (e.at - sum.since) * HourOf(sum)
                 /\ s.rates.price = e.price
                 /\ s.rates.stored = IF e.stored = 0 THEN sum.rates.stored ELSE e.stored
                 /\ s.ready <=> sum.ready \/ e.to = "READY"
                 /\ s.boot = IF e.to = "READY" /\ ~sum.ready THEN Spent(s) ELSE sum.boot
<1> DEFINE told == [sum EXCEPT !.absent = @ \/ e.absent]
           spent == accrue(told, e.at, 0)
           first == e.to = "READY" /\ ~spent.ready
           s == Replayed(sum, e, 0)
<1>1. /\ told \in Sums /\ told.state = sum.state /\ told.since = sum.since /\ told.rates = sum.rates
      /\ told.boot = sum.boot /\ told.ready = sum.ready /\ (told.absent <=> sum.absent \/ e.absent)
      /\ Spent(told) = Spent(sum) /\ HourOf(told) = HourOf(sum)
  <2>1. sum.absent \in BOOLEAN /\ e.absent \in BOOLEAN BY DEF Sums, Recorded
  <2>2. (sum.absent \/ e.absent) \in BOOLEAN OBVIOUS
  <2>3. told \in Sums BY <2>2 DEF Sums
  <2>4. /\ told.state = sum.state /\ told.since = sum.since /\ told.rates = sum.rates
        /\ told.boot = sum.boot /\ told.ready = sum.ready /\ told.compute = sum.compute
        /\ told.storage = sum.storage
    BY DEF Sums
  <2>5. told.absent <=> sum.absent \/ e.absent BY DEF Sums
  <2> HIDE DEF told
  <2> QED BY <2>3, <2>4, <2>5 DEF Spent, HourOf
<1>e. /\ e.at \in Nat /\ e.to \in Writes /\ e.price \in Nat /\ e.price # 0 /\ e.stored \in Nat /\ ~e.legacy
      /\ e.legacy = FALSE /\ sum.since \in Nat /\ sum.rates \in RatesOf
  BY DEF Recorded, Sums
<1> HIDE DEF told
<1>2. /\ spent \in Sums /\ spent.state = sum.state /\ spent.since = sum.since /\ spent.rates = sum.rates
      /\ spent.boot = sum.boot /\ spent.ready = sum.ready /\ (spent.absent <=> sum.absent \/ e.absent)
      /\ Spent(spent) = Spent(sum) + (e.at - sum.since) * HourOf(sum)
  BY <1>1, <1>e, Accrued
<1>3. s = IF sum.state = "DESTROYED" /\ e.to # "DESTROYED" THEN spent
          ELSE [spent EXCEPT !.rates = Rates(@, e, 0), !.state = e.to,
                             !.since = IF sum.state = "DESTROYED" THEN @ ELSE e.at, !.ready = @ \/ first,
                             !.boot = IF first THEN spent.compute + spent.storage ELSE @]
  BY DEF Replayed, told
<1> HIDE DEF spent, s
<1>4. ASSUME sum.state = "DESTROYED"
      PROVE  Spent(spent) = Spent(sum)
  <2>1. HourOf(sum) = 0 BY <1>4 DEF HourOf, storageBilling
  <2>2. e.at - sum.since \in Nat BY <1>e
  <2>3. (e.at - sum.since) * HourOf(sum) = 0 BY <2>1, <2>2, Products
  <2>4. Spent(sum) \in Nat BY DEF Sums, Spent
  <2> QED BY <1>2, <2>3, <2>4
<1>5. CASE sum.state = "DESTROYED" /\ e.to # "DESTROYED"
  <2>1. s = spent BY <1>3, <1>5
  <2> QED BY <1>2, <1>4, <1>5, <2>1, <1>e DEF s
<1>6. CASE ~(sum.state = "DESTROYED" /\ e.to # "DESTROYED")
  <2> DEFINE rates == Rates(spent.rates, e, 0)
             begun == IF sum.state = "DESTROYED" THEN spent.since ELSE e.at
             ready == spent.ready \/ first
             boot == IF first THEN spent.compute + spent.storage ELSE spent.boot
  <2>1. s = [spent EXCEPT !.rates = rates, !.state = e.to, !.since = begun, !.ready = ready, !.boot = boot]
    BY <1>3, <1>6
  <2>2. /\ rates \in RatesOf /\ rates.price = e.price
        /\ rates.stored = IF e.stored = 0 THEN sum.rates.stored ELSE e.stored
    BY <1>2, <1>e DEF Rates, RatesOf
  <2>3. begun \in Nat /\ begun <= e.at BY <1>2, <1>e
  <2>4. boot \in Nat BY <1>2 DEF Sums
  <2>5. ready \in BOOLEAN /\ (ready <=> sum.ready \/ e.to = "READY")
    <3>1. spent.ready \in BOOLEAN BY <1>2 DEF Sums
    <3> QED BY <1>2, <3>1
  <2>6. first <=> e.to = "READY" /\ ~sum.ready BY <1>2
  <2>7. boot = IF e.to = "READY" /\ ~sum.ready THEN Spent(spent) ELSE sum.boot
    BY <1>2, <2>6 DEF Spent
  <2> HIDE DEF rates, begun, ready, boot, first
  <2>8. s \in Sums BY <1>2, <1>e, <2>1, <2>2, <2>3, <2>4, <2>5 DEF Sums
  <2>9. /\ s.rates = rates /\ s.state = e.to /\ s.since = begun /\ s.ready = ready /\ s.boot = boot
        /\ s.compute = spent.compute /\ s.storage = spent.storage /\ s.absent = spent.absent
    BY <1>2, <2>1 DEF Sums
  <2>10. Spent(s) = Spent(spent) BY <2>9 DEF Spent
  <2>11. CASE sum.state = "DESTROYED"
    <3>1. e.to # "READY" /\ e.to = "DESTROYED" BY <1>6, <2>11
    <3> QED BY <1>2, <1>4, <2>3, <2>5, <2>7, <2>8, <2>9, <2>10, <2>11, <3>1 DEF s
  <2>12. CASE sum.state # "DESTROYED"
    <3>1. begun = e.at BY <2>12 DEF begun
    <3> QED BY <1>2, <2>2, <2>3, <2>5, <2>7, <2>8, <2>9, <2>10, <2>12, <3>1 DEF s
  <2> QED BY <2>11, <2>12
<1> QED BY <1>5, <1>6

-----------------------------------------------------------------------------
(* The record, the meter and the replay                                    *)

\* The last stored rate that entries name.
Named(entries) == {i \in DOMAIN entries : entries[i].stored # 0}
LastNamed(entries) == IF Named(entries) = {} THEN 0 ELSE entries[Max(Named(entries))].stored

LEMMA NamedNext ==
  ASSUME NEW s \in Seq(Recorded), NEW e \in Recorded
  PROVE  LastNamed(Append(s, e)) = IF e.stored = 0 THEN LastNamed(s) ELSE e.stored
<1> DEFINE n == Len(s)
           t == Append(s, e)
<1>1. /\ n \in Nat /\ DOMAIN s = 1..n /\ DOMAIN t = 1..n + 1 /\ t[n + 1] = e
      /\ \A i \in 1..n : t[i] = s[i]
  OBVIOUS
<1> HIDE DEF n, t
<1>2. CASE e.stored = 0
  <2>1. Named(t) = Named(s) BY <1>1, <1>2 DEF Named
  <2>2. CASE Named(s) = {} BY <1>2, <2>1, <2>2 DEF LastNamed, t
  <2>3. CASE Named(s) # {}
    <3>1. Named(s) \subseteq 0..n /\ Named(s) \subseteq 1..n BY <1>1 DEF Named
    <3>2. \E m \in Named(s) : \A j \in Named(s) : j <= m BY <1>1, <2>3, <3>1, GreatestNumber
    <3>3. \E m \in Named(s) : \A j \in Named(s) : m >= j BY <3>1, <3>2
    <3>4. Max(Named(s)) \in Named(s) BY <3>3 DEF Max
    <3>5. t[Max(Named(s))] = s[Max(Named(s))] BY <1>1, <3>1, <3>4
    <3> QED BY <1>2, <2>1, <2>3, <3>5 DEF LastNamed, t
  <2> QED BY <2>2, <2>3
<1>3. CASE e.stored # 0
  <2>1. n + 1 \in Named(t) /\ Named(t) \subseteq 1..n + 1 BY <1>1, <1>3 DEF Named
  <2>2. \A j \in Named(t) : n + 1 >= j BY <1>1, <2>1
  <2>3. \A x \in Named(t) : (\A j \in Named(t) : x >= j) => x = n + 1 BY <1>1, <2>1
  <2>4. Max(Named(t)) = n + 1 BY <2>1, <2>2, <2>3 DEF Max
  <2> QED BY <1>1, <1>3, <2>1, <2>4 DEF LastNamed, t
<1> QED BY <1>2, <1>3

Replay == replay(journal, 0)

\* The record is of entries that are written here, and the machine's meter has run
\* only if there was one.
RecordInv ==
  /\ clock \in Nat /\ journal \in Seq(Recorded) /\ rented \in BOOLEAN
  /\ metered \in Nat /\ assumed \in Nat /\ reached \in Nat \cup {-1}
  /\ instance # "none" => rented
  /\ ~rented => metered = 0

\* The replay is where the record is, with the rates it named last, and has seen no
\* evidence of absence but from the end of a rig that rented nothing.
PlaceInv ==
  /\ Replay \in Sums /\ Replay.since <= clock /\ Replay.state = State
  /\ State # "DESTROYED" => Replay.rates.stored = LastNamed(journal)
  /\ State \notin {"none", "DESTROYED"} => Replay.rates.price = journal[Len(journal)].price
  /\ Replay.absent => ~rented /\ HasEnded

\* What it charges, with what has gone by since its last entry, is what was metered
\* or assumed; and the boot is what there was of it at the first READY.
ChargeInv ==
  /\ Spent(Replay) + (clock - Replay.since) * HourOf(Replay) = metered + assumed
  /\ Replay.ready <=> reached # -1
  /\ reached # -1 => Replay.boot = reached

MeterInv == RecordInv /\ PlaceInv /\ ChargeInv

LEMMA StateIs ==
  ASSUME RecordInv
  PROVE  /\ State = "none" <=> journal = <<>>
         /\ State = "DESTROYED" <=> HasEnded
         /\ journal # <<>> => Len(journal) \in DOMAIN journal
<1>1. journal # <<>> => Len(journal) \in 1..Len(journal) /\ DOMAIN journal = 1..Len(journal)
  BY DEF RecordInv
<1>2. \A i \in DOMAIN journal : journal[i].to \in Writes
  <2> SUFFICES ASSUME NEW i \in DOMAIN journal PROVE journal[i].to \in Writes OBVIOUS
  <2>1. journal \in Seq(Recorded) BY DEF RecordInv
  <2>2. journal[i] \in Recorded BY <2>1
  <2> QED BY <2>2 DEF Recorded
<1>3. journal # <<>> => journal[Len(journal)].to \in Writes BY <1>1, <1>2
<1>4. "none" \notin Writes BY DEF Writes
<1>5. HasEnded => journal # <<>> BY DEF HasEnded
<1>6. journal # <<>> /\ journal[Len(journal)].to = "DESTROYED" => HasEnded BY <1>1 DEF HasEnded
<1> QED BY <1>1, <1>3, <1>4, <1>5, <1>6 DEF State

\* The hour that the record bills is the hour that the replay charges.
LEMMA HoursAgree ==
  ASSUME MeterInv
  PROVE  HourOnRecord = HourOf(Replay) /\ HourOnRecord \in Nat
<1>1. /\ State = "none" <=> journal = <<>>
      /\ Replay.state = State /\ Replay \in Sums
      /\ State # "DESTROYED" => Replay.rates.stored = LastNamed(journal)
      /\ State \notin {"none", "DESTROYED"} => Replay.rates.price = journal[Len(journal)].price
  BY StateIs DEF MeterInv, PlaceInv
<1>2. HourOf(Replay) \in Nat BY <1>1 DEF HourOf, Sums, RatesOf
<1>3. HourOnRecord = IF journal = <<>> \/ ~storageBilling(State) THEN 0
                     ELSE IF computeBilling(State) THEN journal[Len(journal)].price ELSE LastNamed(journal)
  BY DEF HourOnRecord, LastNamed, Named
<1>4. ~storageBilling("DESTROYED") BY DEF storageBilling
<1>5. HourOnRecord = HourOf(Replay) BY <1>1, <1>3, <1>4 DEF HourOf
<1> QED BY <1>2, <1>5

LEMMA MeterStarts == CostInit => MeterInv
<1> SUFFICES ASSUME CostInit PROVE MeterInv OBVIOUS
<1>1. /\ clock = 0 /\ journal = <<>> /\ instance = "none" /\ rented = FALSE
      /\ metered = 0 /\ assumed = 0 /\ reached = -1
  BY DEF CostInit
<1>2. journal \in Seq(Recorded) /\ DOMAIN journal = {} BY <1>1
<1>3. RecordInv BY <1>1, <1>2 DEF RecordInv
<1>4. Replay = Nothing
  <2>1. \A S, e : e \in S => replay(<<>>, 0) = Nothing
    <3> TAKE S, e
    <3> HAVE e \in S
    <3>1. <<>> \in Seq(S) OBVIOUS
    <3> QED BY <3>1, ReplayStep
  <2>2. replay(<<>>, 0) = Nothing
    <3>1. 0 \in {0} OBVIOUS
    <3> QED BY <2>1, <3>1
  <2> QED BY <1>1, <2>2 DEF Replay
<1>5. /\ Nothing \in Sums /\ Nothing.state = "none" /\ Nothing.since = 0 /\ Nothing.compute = 0
      /\ Nothing.storage = 0 /\ Nothing.rates.stored = 0 /\ ~Nothing.ready /\ ~Nothing.absent
  BY DEF Nothing, Sums, RatesOf
<1>6. State = "none" BY <1>1 DEF State
<1>7. LastNamed(journal) = 0 BY <1>2 DEF LastNamed, Named
<1>8. PlaceInv BY <1>1, <1>4, <1>5, <1>6, <1>7 DEF PlaceInv
<1>9. ChargeInv
  <2>1. HourOf(Nothing) = 0 /\ Spent(Nothing) = 0 BY <1>5 DEF HourOf, Spent
  <2>2. 0 * 0 = 0 /\ 0 - 0 = 0 OBVIOUS
  <2>3. (clock - Nothing.since) * HourOf(Nothing) = 0 BY <1>1, <1>5, <2>1, <2>2
  <2> QED BY <1>1, <1>4, <1>5, <2>1, <2>3 DEF ChargeInv
<1> QED BY <1>3, <1>8, <1>9 DEF MeterInv

LEMMA PassesStep ==
  ASSUME MeterInv, Passes
  PROVE  MeterInv'
<1> DEFINE hour == HourOnRecord
           t == clock - Replay.since
<1>1. /\ clock' = clock + 1 /\ journal' = journal /\ instance' = instance /\ rented' = rented
      /\ reached' = reached
      /\ \/ instance # "none" /\ metered' = metered + hour /\ assumed' = assumed
         \/ assumed' = assumed + hour /\ metered' = metered
  BY DEF Passes
<1>2. hour = HourOf(Replay) /\ hour \in Nat BY HoursAgree
<1>3. /\ clock \in Nat /\ metered \in Nat /\ assumed \in Nat /\ Replay.since \in Nat /\ Spent(Replay) \in Nat
      /\ Replay.since <= clock
  BY DEF MeterInv, RecordInv, PlaceInv, Sums, Spent
<1>4. Replay' = Replay /\ State' = State /\ (HasEnded' <=> HasEnded)
  BY <1>1 DEF Replay, State, HasEnded
<1> HIDE DEF hour
<1>5. RecordInv' BY <1>1, <1>2, <1>3 DEF MeterInv, RecordInv
<1>6. PlaceInv'
  <2>1. Replay.since <= clock' BY <1>1, <1>3
  <2> QED BY <1>1, <1>4, <2>1 DEF MeterInv, PlaceInv
<1>7. ChargeInv'
  <2>1. t \in Nat BY <1>3
  <2>2. (t + 1) * hour = t * hour + hour /\ t * hour \in Nat BY <1>2, <2>1, Products
  <2>3. clock' - Replay.since = t + 1 BY <1>1, <1>3
  <2>4. metered' + assumed' = metered + assumed + hour BY <1>1, <1>2, <1>3
  <2>5. Spent(Replay) + t * hour = metered + assumed BY <1>2 DEF MeterInv, ChargeInv
  <2>6. Spent(Replay) + (t + 1) * hour = metered' + assumed'
    <3> DEFINE x == t * hour
    <3>1. x \in Nat /\ (t + 1) * hour = x + hour /\ Spent(Replay) + x = metered + assumed
      BY <2>2, <2>5
    <3> HIDE DEF x, t
    <3> QED BY <1>2, <1>3, <2>4, <3>1
  <2>7. Spent(Replay) + (clock' - Replay.since) * HourOf(Replay) = metered' + assumed'
    BY <1>2, <2>3, <2>6
  <2> QED BY <1>1, <1>4, <2>7 DEF MeterInv, ChargeInv
<1> QED BY <1>5, <1>6, <1>7 DEF MeterInv

LEMMA BilledStep ==
  ASSUME MeterInv, NEW to \in {"none", "running", "stopped"}, MachineMoves(to)
  PROVE  MeterInv'
<1>1. /\ rented' = TRUE /\ clock' = clock /\ journal' = journal /\ metered' = metered /\ assumed' = assumed
      /\ reached' = reached /\ (instance = "none" => ~HasEnded)
  BY DEF MachineMoves
<1>2. Replay' = Replay /\ State' = State /\ (HasEnded' <=> HasEnded)
  BY <1>1 DEF Replay, State, HasEnded
<1>3. RecordInv' BY <1>1 DEF MeterInv, RecordInv
<1>4. ~Replay.absent BY <1>1 DEF MeterInv, RecordInv, PlaceInv
<1>5. PlaceInv' BY <1>1, <1>2, <1>4 DEF MeterInv, PlaceInv
<1>6. ChargeInv' BY <1>1, <1>2 DEF MeterInv, ChargeInv
<1> QED BY <1>3, <1>5, <1>6 DEF MeterInv

LEMMA EntryIs ==
  ASSUME NEW to \in Writes, NEW answered \in BOOLEAN, NEW absent \in BOOLEAN, clock \in Nat
  PROVE  LET e == Entry(to, answered, absent)
         IN e \in Recorded /\ e.at = clock /\ e.to = to /\ e.absent = absent
<1>1. /\ Billed \in Nat /\ Quoted \in Nat /\ Billed # 0 /\ Quoted # 0 /\ Stored \in Nat
  BY CostAssumption
<1>2. /\ (IF answered THEN Billed ELSE Quoted) \in Nat \ {0} /\ (IF answered THEN Stored ELSE 0) \in Nat
  BY <1>1
<1> QED BY <1>2 DEF Entry, Recorded

LEMMA RecordStep ==
  ASSUME MeterInv, NEW to \in Writes, NEW answered \in BOOLEAN, RecordIntent(to, answered)
  PROVE  MeterInv'
<1>1. /\ clock' = clock /\ instance' = instance /\ rented' = rented /\ metered' = metered /\ assumed' = assumed
      /\ reached' = IF to = "READY" /\ reached = -1 /\ ~HasEnded THEN metered + assumed ELSE reached
  BY DEF RecordIntent
<1>2. PICK absent \in BOOLEAN : /\ absent => to = "DESTROYED" /\ ~rented
                                /\ journal' = Append(journal, Entry(to, answered, absent))
  BY DEF RecordIntent
<1>3. /\ clock \in Nat /\ journal \in Seq(Recorded) /\ metered \in Nat /\ assumed \in Nat
      /\ reached \in Nat \cup {-1} /\ Replay \in Sums /\ Replay.since \in Nat /\ Replay.since <= clock
  BY DEF MeterInv, RecordInv, PlaceInv, Sums
<1> DEFINE e == Entry(to, answered, absent)
           n == Len(journal)
<1>4. e \in Recorded /\ e.at = clock /\ e.to = to /\ e.absent = absent
  BY <1>3, EntryIs
<1> HIDE DEF e
<1>5. Replay' = Replayed(Replay, e, 0)
  <2>1. replay(Append(journal, e), 0) = Replayed(replay(journal, 0), e, 0)
    BY <1>3, <1>4, ReplayStep
  <2> QED BY <1>2, <2>1 DEF Replay, e
<1>6. /\ Replay' \in Sums /\ Replay'.since <= clock
      /\ Replay'.absent <=> Replay.absent \/ absent
      /\ Replay.state = "DESTROYED" =>
           /\ Replay'.state = "DESTROYED" /\ Spent(Replay') = Spent(Replay)
           /\ Replay'.boot = Replay.boot /\ (Replay'.ready <=> Replay.ready)
      /\ Replay.state # "DESTROYED" =>
           /\ Replay'.state = to /\ Replay'.since = clock
           /\ Spent(Replay') = Spent(Replay) + (clock - Replay.since) * HourOf(Replay)
           /\ Replay'.rates.price = e.price
           /\ Replay'.rates.stored = IF e.stored = 0 THEN Replay.rates.stored ELSE e.stored
           /\ Replay'.ready <=> Replay.ready \/ to = "READY"
           /\ Replay'.boot = IF to = "READY" /\ ~Replay.ready THEN Spent(Replay') ELSE Replay.boot
  BY <1>3, <1>4, <1>5, OneEntry
<1>7. /\ n \in Nat /\ journal' \in Seq(Recorded) /\ Len(journal') = n + 1 /\ journal' # <<>>
      /\ DOMAIN journal' = 1..n + 1 /\ DOMAIN journal = 1..n
      /\ journal'[n + 1] = e /\ \A i \in 1..n : journal'[i] = journal[i]
  <2>1. journal' = Append(journal, e) BY <1>2 DEF e
  <2> QED BY <1>3, <1>4, <2>1
<1>8. RecordInv' BY <1>1, <1>3, <1>7 DEF MeterInv, RecordInv
<1>9. HasEnded' <=> HasEnded \/ to = "DESTROYED" BY <1>4, <1>7 DEF HasEnded
<1>10. State' = IF HasEnded THEN "DESTROYED" ELSE to
  BY <1>4, <1>7, <1>9 DEF State
<1>11. Replay.state = "DESTROYED" <=> HasEnded
  BY StateIs DEF MeterInv, PlaceInv
<1>12. Replay'.state = State' BY <1>6, <1>10, <1>11
<1>13. PlaceInv'
  <2>1. State' # "DESTROYED" => Replay'.rates.stored = LastNamed(journal')
    <3>1. LastNamed(Append(journal, e)) = IF e.stored = 0 THEN LastNamed(journal) ELSE e.stored
      BY <1>3, <1>4, NamedNext
    <3>2. journal' = Append(journal, e) BY <1>2 DEF e
    <3>3. State # "DESTROYED" => Replay.rates.stored = LastNamed(journal) BY DEF MeterInv, PlaceInv
    <3>4. Replay.state = State BY DEF MeterInv, PlaceInv
    <3> QED BY <1>6, <1>10, <1>11, <3>1, <3>2, <3>3, <3>4
  <2>2. State' \notin {"none", "DESTROYED"} => Replay'.rates.price = journal'[Len(journal')].price
    BY <1>6, <1>7, <1>10, <1>11
  <2>3. Replay'.absent => ~rented' /\ HasEnded'
    BY <1>1, <1>2, <1>6, <1>9 DEF MeterInv, PlaceInv
  <2> QED BY <1>1, <1>6, <1>12, <2>1, <2>2, <2>3 DEF PlaceInv
<1>14. ChargeInv'
  <2>1. /\ Spent(Replay) + (clock - Replay.since) * HourOf(Replay) = metered + assumed
        /\ Replay.ready <=> reached # -1
        /\ reached # -1 => Replay.boot = reached
    BY DEF MeterInv, ChargeInv
  <2>2. CASE HasEnded
    <3>1. HourOf(Replay) = 0 /\ HourOf(Replay') = 0
      BY <1>6, <1>11, <2>2 DEF HourOf, storageBilling
    <3>2. /\ clock - Replay.since \in Nat /\ clock - Replay'.since \in Nat
      BY <1>3, <1>6 DEF Sums
    <3>3. (clock - Replay.since) * HourOf(Replay) = 0 /\ (clock - Replay'.since) * HourOf(Replay') = 0
      BY <3>1, <3>2, Products
    <3>4. reached' = reached BY <1>1, <2>2
    <3>5. Spent(Replay') + (clock - Replay'.since) * HourOf(Replay') = metered + assumed
      BY <1>6, <1>11, <2>1, <2>2, <3>3
    <3> QED BY <1>1, <1>6, <1>11, <2>1, <2>2, <3>4, <3>5 DEF ChargeInv
  <2>3. CASE ~HasEnded
    <3>1. HourOf(Replay') \in Nat
      BY <1>6 DEF HourOf, Sums, RatesOf
    <3>2. clock - Replay'.since = 0 BY <1>3, <1>6, <1>11, <2>3
    <3>3. (clock - Replay'.since) * HourOf(Replay') = 0 BY <3>1, <3>2, Products
    <3>4. Spent(Replay') = metered + assumed BY <1>6, <1>11, <2>1, <2>3
    <3>5. Spent(Replay') + (clock - Replay'.since) * HourOf(Replay') = metered + assumed
      BY <1>3, <3>3, <3>4
    <3>6. (Replay'.ready <=> reached' # -1) /\ (reached' # -1 => Replay'.boot = reached')
      BY <1>1, <1>3, <1>6, <1>11, <2>1, <2>3, <3>4
    <3> QED BY <1>1, <3>5, <3>6 DEF ChargeInv
  <2> QED BY <2>2, <2>3
<1> QED BY <1>8, <1>13, <1>14 DEF MeterInv

LEMMA MeterServes == MeterInv => SpendMatchesMeter
<1> SUFFICES ASSUME MeterInv PROVE SpendMatchesMeter OBVIOUS
<1> DEFINE sum == IF Replay.state # "none" /\ Billable(Replay.state)
                  THEN accrue(Replay, clock, 0) ELSE Replay
           told == cost(journal, clock, 0)
<1>1. /\ clock \in Nat /\ metered \in Nat /\ assumed \in Nat /\ Replay \in Sums
      /\ Replay.since \in Nat /\ Replay.since <= clock
      /\ Spent(Replay) + (clock - Replay.since) * HourOf(Replay) = metered + assumed
      /\ reached # -1 => Replay.boot = reached
      /\ Replay.absent => metered = 0
  BY DEF MeterInv, RecordInv, PlaceInv, ChargeInv, Sums
<1>2. /\ sum.absent = Replay.absent /\ sum.boot = Replay.boot /\ sum \in Sums
      /\ Spent(sum) = metered + assumed
  <2>1. CASE Replay.state # "none" /\ Billable(Replay.state)
    <3>1. sum = accrue(Replay, clock, 0) BY <2>1
    <3> HIDE DEF sum
    <3> QED BY <1>1, <3>1, Accrued
  <2>2. CASE ~(Replay.state # "none" /\ Billable(Replay.state))
    <3>1. sum = Replay BY <2>2
    <3>2. HourOf(Replay) = 0 BY <2>2 DEF HourOf, Billable, storageBilling
    <3>3. clock - Replay.since \in Nat BY <1>1
    <3>4. (clock - Replay.since) * HourOf(Replay) = 0 BY <3>2, <3>3, Products
    <3>5. Spent(Replay) \in Nat BY <1>1 DEF Sums, Spent
    <3> HIDE DEF sum
    <3> QED BY <1>1, <3>1, <3>4, <3>5
  <2> QED BY <2>1, <2>2
<1>3. told = IF sum.absent THEN [sum EXCEPT !.compute = 0, !.storage = 0, !.boot = 0] ELSE sum
  BY DEF cost, Replay
<1> HIDE DEF sum
<1>4. CASE sum.absent
  <2>1. told = [sum EXCEPT !.compute = 0, !.storage = 0, !.boot = 0] BY <1>3, <1>4
  <2> HIDE DEF told
  <2>2. told.absent = sum.absent /\ told.compute = 0 /\ told.storage = 0 BY <1>2, <2>1 DEF Sums
  <2>3. told.compute + told.storage = 0 BY <2>2
  <2>4. metered = 0 BY <1>1, <1>2, <1>4
  <2> QED BY <1>4, <2>2, <2>3, <2>4 DEF SpendMatchesMeter, told
<1>5. CASE ~sum.absent
  <2>1. told = sum BY <1>3, <1>5
  <2> HIDE DEF told
  <2>2. told.compute + told.storage = metered + assumed BY <1>2, <2>1 DEF Spent
  <2>3. reached # -1 => told.boot = reached BY <1>1, <1>2, <2>1
  <2> QED BY <1>5, <2>1, <2>2, <2>3 DEF SpendMatchesMeter, told
<1> QED BY <1>4, <1>5

\* What the journal is replayed to is what the meter of the machine came to: every
\* hour once, at the rate on record, with the hours for which one had to be assumed
\* until a teardown recorded that there was none; and the boot is what there was of
\* it when the rig first served.  For any rates, times and number of entries.
THEOREM SpendIsMetered == CostSpec => []SpendMatchesMeter
<1>1. CostInit => MeterInv BY MeterStarts
<1>2. MeterInv /\ [CostNext]_cvars => MeterInv'
  <2> SUFFICES ASSUME MeterInv, [CostNext]_cvars PROVE MeterInv' OBVIOUS
  <2>1. CASE Passes BY <2>1, PassesStep
  <2>2. ASSUME NEW to \in {"none", "running", "stopped"}, MachineMoves(to) PROVE MeterInv'
    BY <2>2, BilledStep
  <2>3. ASSUME NEW to \in Writes, NEW answered \in BOOLEAN, RecordIntent(to, answered) PROVE MeterInv'
    BY <2>3, RecordStep
  <2>4. CASE UNCHANGED cvars
    <3>1. /\ clock' = clock /\ journal' = journal /\ instance' = instance /\ rented' = rented
          /\ metered' = metered /\ assumed' = assumed /\ reached' = reached
      BY <2>4 DEF cvars
    <3>2. Replay' = Replay /\ State' = State /\ (HasEnded' <=> HasEnded)
      BY <3>1 DEF Replay, State, HasEnded
    <3> QED BY <3>1, <3>2 DEF MeterInv, RecordInv, PlaceInv, ChargeInv
  <2> QED BY <2>1, <2>2, <2>3, <2>4 DEF CostNext
<1>3. MeterInv => SpendMatchesMeter BY MeterServes
<1> QED BY <1>1, <1>2, <1>3, PTL DEF CostSpec

-----------------------------------------------------------------------------
(* Weights                                                                 *)

\* A set's parts, by their numbers.
LEMMA PartsOf ==
  ASSUME NEW n \in FileName
  PROVE  /\ First(n) \in FileName /\ First(n).parts = n.parts /\ First(n) \in ShardFiles(n)
         /\ ShardFiles(First(n)) = ShardFiles(n)
         /\ \A p \in ShardFiles(n) :
              p \in FileName /\ p.dir = n.dir /\ p.stem = n.stem /\ p.parts = n.parts
         /\ \A p, q \in ShardFiles(n) : localName(p) = localName(q) => p = q
<1>t. /\ n \in [dir : STRING, stem : STRING, part : Nat, parts : Nat]
      /\ n.parts = 0 => n.part = 0
      /\ n.parts \in Nat /\ n.part \in Nat
  BY DEF FileName
<1>a. \A i \in Nat : LET p == [n EXCEPT !.part = i]
                     IN /\ p \in [dir : STRING, stem : STRING, part : Nat, parts : Nat]
                        /\ p.part = i /\ p.dir = n.dir /\ p.stem = n.stem /\ p.parts = n.parts
  BY <1>t
<1>l. \A p, q \in [dir : STRING, stem : STRING, part : Nat, parts : Nat] :
        /\ p.part = q.part /\ p.dir = q.dir /\ p.stem = q.stem /\ p.parts = q.parts => p = q
        /\ localName(p) = localName(q) => p.part = q.part
  <2> TAKE p, q \in [dir : STRING, stem : STRING, part : Nat, parts : Nat]
  <2>1. p.part = q.part /\ p.dir = q.dir /\ p.stem = q.stem /\ p.parts = q.parts => p = q
    <3>1. /\ p = [dir |-> p.dir, stem |-> p.stem, part |-> p.part, parts |-> p.parts]
          /\ q = [dir |-> q.dir, stem |-> q.stem, part |-> q.part, parts |-> q.parts]
      OBVIOUS
    <3> QED BY <3>1
  <2>2. localName(p).part = p.part /\ localName(q).part = q.part BY DEF localName
  <2> QED BY <2>1, <2>2
<1>1. CASE n.parts = 0
  <2>1. ShardFiles(n) = {n} BY <1>1 DEF ShardFiles
  <2>2. First(n) = n
    <3>1. Min({n.parts, 1}) = 0 BY <1>1 DEF Min
    <3>2. First(n) = [n EXCEPT !.part = 0] BY <3>1 DEF First
    <3>3. First(n).part = n.part BY <1>1, <1>a, <1>t, <3>2
    <3> QED BY <1>a, <1>l, <1>t, <3>2, <3>3
  <2> QED BY <2>1, <2>2
<1>2. CASE n.parts # 0
  <2> DEFINE part(i) == [n EXCEPT !.part = i]
  <2>1. ShardFiles(n) = {part(i) : i \in 1..n.parts} BY <1>2 DEF ShardFiles
  <2>2. First(n) = part(1)
    <3>1. Min({n.parts, 1}) = 1 BY <1>2, <1>t DEF Min
    <3> QED BY <3>1 DEF First
  <2>3. \A i \in Nat : /\ part(i) \in FileName /\ part(i).part = i /\ part(i).dir = n.dir
                       /\ part(i).stem = n.stem /\ part(i).parts = n.parts
    BY <1>2, <1>a DEF FileName
  <2>4. 1 \in 1..n.parts BY <1>2, <1>t
  <2>5. ShardFiles(First(n)) = ShardFiles(n)
    <3>1. \A i : [part(1) EXCEPT !.part = i] = part(i) OBVIOUS
    <3>2. part(1).parts = n.parts BY <2>3
    <3>3. ShardFiles(part(1)) = {[part(1) EXCEPT !.part = i] : i \in 1..n.parts}
      <4> HIDE DEF part
      <4> QED BY <1>2, <3>2 DEF ShardFiles
    <3> HIDE DEF part
    <3> QED BY <2>1, <2>2, <3>1, <3>3
  <2> HIDE DEF part
  <2>6. \A p \in ShardFiles(n) : \E i \in 1..n.parts : p = part(i) BY <2>1
  <2>7. \A p \in ShardFiles(n) :
          p \in FileName /\ p.dir = n.dir /\ p.stem = n.stem /\ p.parts = n.parts
    BY <1>t, <2>3, <2>6
  <2>8. \A p, q \in ShardFiles(n) : localName(p) = localName(q) => p = q
    BY <1>l, <2>7 DEF FileName
  <2> QED BY <2>1, <2>2, <2>3, <2>4, <2>5, <2>7, <2>8
<1> QED BY <1>1, <1>2

LEMMA Bijects ==
  ASSUME NEW S, NEW T, NEW F \in [S -> T],
         \A i, j \in S : F[i] = F[j] => i = j,
         \A t \in T : \E i \in S : F[i] = t
  PROVE  F \in Bijection(S, T)
BY DEF Bijection, Injection, Surjection, IsInjective

\* As many as the name says.
LEMMA HowMany ==
  ASSUME NEW n \in FileName, NEW got, IsFiniteSet(got),
         \A f \in got : f.name \in ShardFiles(n),
         \A f, g \in got : localName(f.name) = localName(g.name) => f = g,
         \A p \in ShardFiles(n) : \E f \in got : localName(f.name) = localName(p)
  PROVE  Cardinality(got) = IF n.parts = 0 THEN 1 ELSE n.parts
<1>t. n.parts \in Nat BY DEF FileName
<1>1. CASE n.parts = 0
  <2>1. ShardFiles(n) = {n} BY <1>1 DEF ShardFiles
  <2>2. PICK f \in got : f.name = n BY <2>1
  <2>3. got = {f} BY <2>1, <2>2
  <2> QED BY <1>1, <2>3, FS_Singleton
<1>2. CASE n.parts # 0
  <2> DEFINE part(i) == [n EXCEPT !.part = i]
             held(i) == CHOOSE f \in got : f.name = part(i)
             F == [i \in 1..n.parts |-> held(i)]
  <2>1. ShardFiles(n) = {part(i) : i \in 1..n.parts} BY <1>2 DEF ShardFiles
  <2>2. \A i \in 1..n.parts : \E f \in got : f.name = part(i)
    <3> SUFFICES ASSUME NEW i \in 1..n.parts PROVE \E f \in got : f.name = part(i) OBVIOUS
    <3>1. part(i) \in ShardFiles(n) BY <2>1
    <3>2. PICK f \in got : localName(f.name) = localName(part(i)) BY <3>1
    <3>3. f.name \in ShardFiles(n) OBVIOUS
    <3>4. f.name = part(i)
      <4> HIDE DEF part
      <4> QED BY <3>1, <3>2, <3>3, PartsOf
    <3> QED BY <3>4
  <2>3. \A i \in 1..n.parts : held(i) \in got /\ held(i).name = part(i) BY <2>2
  <2>4. F \in Bijection(1..n.parts, got)
    <3>1. F \in [1..n.parts -> got] BY <2>3
    <3>2. \A i, j \in 1..n.parts : F[i] = F[j] => i = j
      <4>1. \A i \in 1..n.parts : part(i).part = i BY DEF FileName
      <4>2. \A i \in 1..n.parts : F[i] = held(i) OBVIOUS
      <4>3. ASSUME NEW i \in 1..n.parts, NEW j \in 1..n.parts, held(i) = held(j) PROVE i = j
        <5>1. held(i).name = part(i) /\ held(j).name = part(j) BY <2>3
        <5>2. part(i) = part(j) BY <4>3, <5>1
        <5> QED BY <4>1, <5>2
      <4> QED BY <4>2, <4>3
    <3>3. \A f \in got : \E i \in 1..n.parts : F[i] = f
      <4> SUFFICES ASSUME NEW f \in got PROVE \E i \in 1..n.parts : F[i] = f OBVIOUS
      <4>1. PICK i \in 1..n.parts : f.name = part(i) BY <2>1
      <4> HIDE DEF part, held
      <4>2. F[i] = held(i) BY DEF F
      <4>3. held(i).name = f.name /\ held(i) \in got BY <2>3, <4>1
      <4>4. held(i) = f BY <4>3
      <4> QED BY <4>2, <4>4
    <3> QED BY <3>1, <3>2, <3>3, Bijects
  <2>5. Cardinality(got) = Cardinality(1..n.parts)
    <3>1. IsFiniteSet(1..n.parts) BY <1>t, FS_Interval
    <3> QED BY <2>4, <3>1, FS_Bijection DEF ExistsBijection
  <2>6. Cardinality(1..n.parts) = n.parts BY <1>t, <1>2, FS_Interval
  <2> QED BY <1>2, <2>5, <2>6
<1> QED BY <1>1, <1>2

-----------------------------------------------------------------------------
(* What is settled                                                         *)

\* What a file and its set were settled on says of each of the set's parts.
Resolves(files, a, s) ==
  /\ s.file \in FileName /\ First(s.file) \in ShardFiles(s.file)
  /\ \A p \in ShardFiles(s.file) : \E f \in files : f.name = p
  /\ s.bytes = shardBytes(files, s.file)
  /\ \A f \in files : f.name \in ShardFiles(s.file) =>
       LET wanted == IF a.quant = NoQuant /\ a.file = Unset THEN DefaultQuant ELSE a.quant
       IN /\ f.holds # "other"
          /\ \/ f.holds = quantAliases(wanted) \/ wanted = NoQuant
             \/ f.tag = NoQuant /\ (a.file # Unset \/ {f.holds, quantAliases(wanted)} \subseteq f.words)

LEMMA UniqueFile ==
  ASSUME NEW r \in Repositories, NEW name \in Names(r.files)
  PROVE  /\ File(r.files, name) \in r.files /\ File(r.files, name).name = name
         /\ File(r.files, name) \in Published
         /\ \A f \in r.files : f.name = name => f = File(r.files, name)
BY WeightsAssumption DEF Names, File

LEMMA PartsThere ==
  ASSUME NEW files, NEW name, completeSet(files, name), NEW p \in ShardFiles(name)
  PROVE  \E f \in files : f.name = p
BY DEF completeSet, Names

\* A file of a format, in a set that is all there.
LEMMA OfAFormat ==
  ASSUME NEW r \in Repositories, NEW f \in r.files, ~f.auxiliary,
         NEW g \in r.files, g.name \in ShardFiles(f.name)
  PROVE  /\ g.holds # "other" /\ g.tag = f.tag
         /\ \A quant : matchesQuant(f, quant) =>
              \/ g.holds = quantAliases(quant)
              \/ g.tag = NoQuant /\ {g.holds, quantAliases(quant)} \subseteq g.words
<1>1. /\ f.holds # "other"
      /\ f.tag # NoQuant => f.holds = f.tag
      /\ f.words # {} => f.holds \in f.words
      /\ g.tag = f.tag /\ g.words = f.words /\ g.holds = f.holds
  BY NamesTell
<1>2. ASSUME NEW quant, matchesQuant(f, quant)
      PROVE  \/ f.holds = quantAliases(quant)
             \/ f.tag = NoQuant /\ {f.holds, quantAliases(quant)} \subseteq f.words
  <2>1. CASE f.tag # NoQuant BY <1>1, <1>2, <2>1 DEF matchesQuant
  <2>2. CASE f.tag = NoQuant
    <3>1. quantAliases(quant) \in f.words BY <1>2, <2>2 DEF matchesQuant
    <3> QED BY <1>1, <2>2, <3>1
  <2> QED BY <2>1, <2>2
<1> QED BY <1>1, <1>2

LEMMA GGUFResolves ==
  ASSUME NEW r \in Repositories, NEW a \in Order,
         NEW s \in ResolveGGUF(r.files, a), s.kind = "settled"
  PROVE  Resolves(r.files, a, s)
<1> DEFINE files == r.files
           wanted == IF a.quant = NoQuant /\ a.file = Unset THEN DefaultQuant ELSE a.quant
<1>d. Declined.kind # "settled" BY DEF Declined
<1>1. CASE a.file # Unset
  <2> DEFINE first == First(a.file)
             f == File(files, first)
  <2>1. s = namedFile(files, a.file, a.quant) BY <1>1 DEF ResolveGGUF
  <2>2. a.file \in FileName BY <1>1 DEF Order
  <2>3. /\ a.file \in Names(files) /\ completeSet(files, first) /\ ~f.auxiliary
        /\ ~(a.quant # NoQuant /\ f.tag # NoQuant /\ ~matchesQuant(f, a.quant))
        /\ ~(a.quant = NoQuant /\ f.tag = NoQuant)
        /\ s = Settled(files, first, IF f.tag = NoQuant THEN a.quant ELSE f.tag)
    BY <1>d, <2>1 DEF namedFile
  <2>4. s.file = first /\ s.bytes = shardBytes(files, first) BY <2>3 DEF Settled
  <2>5. first \in FileName /\ ShardFiles(first) = ShardFiles(a.file) /\ first \in ShardFiles(a.file)
    BY <2>2, PartsOf
  <2>6. First(first) \in ShardFiles(first) BY <2>5, PartsOf
  <2>7. \A p \in ShardFiles(first) : \E g \in files : g.name = p BY <2>3, PartsThere
  <2>8. f \in files /\ f.name = first
    <3>1. first \in Names(files) BY <2>5, <2>7 DEF Names
    <3> QED BY <3>1, UniqueFile
  <2> HIDE DEF f, first
  <2>9. ASSUME NEW g \in files, g.name \in ShardFiles(first)
        PROVE  /\ g.holds # "other"
               /\ \/ g.holds = quantAliases(wanted) \/ wanted = NoQuant
                  \/ g.tag = NoQuant /\ (a.file # Unset \/ {g.holds, quantAliases(wanted)} \subseteq g.words)
    <3>1. /\ g.holds # "other" /\ g.tag = f.tag
          /\ \A quant : matchesQuant(f, quant) =>
               \/ g.holds = quantAliases(quant)
               \/ g.tag = NoQuant /\ {g.holds, quantAliases(quant)} \subseteq g.words
      BY <2>3, <2>8, <2>9, OfAFormat
    <3>2. wanted = a.quant BY <1>1
    <3> QED BY <1>1, <2>3, <3>1, <3>2
  <2> QED BY <2>4, <2>5, <2>6, <2>7, <2>9 DEF Resolves
<1>2. CASE a.file = Unset
  <2>1. wanted = IF a.quant = NoQuant THEN DefaultQuant ELSE a.quant BY <1>2
  <2>2. s \in pickQuant(files, wanted) BY <1>2, <1>d, <2>1 DEF ResolveGGUF
  <2>3. PICK f \in Candidates(files, wanted) :
          s = IF completeSet(files, f.name) THEN Settled(files, f.name, wanted) ELSE Declined
    <3> HIDE DEF wanted
    <3> QED BY <2>2 DEF pickQuant
  <2>4. /\ f \in files /\ ~f.auxiliary /\ matchesQuant(f, wanted)
    BY DEF Candidates
  <2>5. completeSet(files, f.name) /\ s = Settled(files, f.name, wanted) BY <1>d, <2>3
  <2>6. s.file = f.name /\ s.bytes = shardBytes(files, f.name) BY <2>5 DEF Settled
  <2>7. f.name \in FileName BY <2>4, WeightsAssumption DEF Published
  <2>8. First(f.name) \in ShardFiles(f.name) BY <2>7, PartsOf
  <2>9. \A p \in ShardFiles(f.name) : \E g \in files : g.name = p BY <2>5, PartsThere
  <2> HIDE DEF wanted
  <2>10. \A g \in files : g.name \in ShardFiles(f.name) =>
           /\ g.holds # "other"
           /\ \/ g.holds = quantAliases(wanted)
              \/ g.tag = NoQuant /\ {g.holds, quantAliases(wanted)} \subseteq g.words
    BY <2>4, OfAFormat
  <2> QED BY <2>6, <2>7, <2>8, <2>9, <2>10 DEF Resolves, wanted
<1> QED BY <1>1, <1>2

-----------------------------------------------------------------------------
(* The rental, the host, and the process that serves                       *)

\* What a host is known by; its room takes no part.
HostType(n) ==
  /\ n.begun \in BOOLEAN /\ n.got \subseteq Published /\ IsFiniteSet(n.got)
  /\ DOMAIN n = {"kind", "space", "begun", "got", "launched", "servers"}

\* Names that a host has, of a file's parts.
HeldBy(n, name) == \E f \in n.got : localName(f.name) = localName(name)

SettledInv ==
  /\ ask \in Orders /\ repository \in Repositories /\ moved \in BOOLEAN
  /\ settled # Unset => settled.kind # "none"
  /\ settled # Unset /\ settled.kind = "settled" =>
       settled.file \in FileName /\ (~moved => Resolves(repository.files, ask, settled))

\* A host has of the file that was settled on the parts it downloaded, each once,
\* and from what was listed if that has not changed.
GotInv ==
  node # Unset =>
    /\ HostType(node) /\ settled # Unset
    /\ node.got # {} => settled.kind = "settled"
    /\ \A f \in node.got : f.name \in ShardFiles(settled.file) /\ (~moved => f \in repository.files)
    /\ \A f, g \in node.got : localName(f.name) = localName(g.name) => f = g

\* A server is started when all of it is there; those of larri's on the host are
\* that one, or before it Ollama's daemon.
ServerInv ==
  /\ node # Unset /\ node.launched # Unset =>
       /\ node.begun
       /\ settled.kind = "settled" =>
            /\ node.launched.model = localName(settled.file)
            /\ \A name \in ShardFiles(settled.file) : HeldBy(node, name)
  /\ node # Unset => \A s \in node.servers : s.by = "larri" =>
       IF node.launched # Unset THEN s = node.launched
       ELSE Engine(ask) = "ollama" /\ s = launchCommand(0)
  /\ endpoint # Unset /\ endpoint.by = "larri" =>
       node # Unset /\ node.launched # Unset /\ endpoint = node.launched

RentalInv == SettledInv /\ GotInv /\ ServerInv

LEMMA HeldIs ==
  ASSUME NEW name
  PROVE  Held(name) <=> HeldBy(node, name)
BY DEF Held, HeldBy

LEMMA Launched ==
  ASSUME NEW capability
  PROVE  LET server == launchCommand(capability)
         IN /\ server # Unset /\ (settled.kind = "settled" => server.model = localName(settled.file))
            /\ Engine(ask) = "ollama" => server = launchCommand(0)
<1> DEFINE server == launchCommand(capability)
<1>1. DOMAIN server = {"by", "engine", "bind", "key", "model", "half"} BY DEF launchCommand
<1>2. DOMAIN Unset = {"kind"} BY DEF Unset
<1>3. "kind" \notin DOMAIN server BY <1>1
<1>4. server # Unset BY <1>2, <1>3
<1>5. server.model = IF settled.kind = "settled" THEN localName(settled.file) ELSE Unset
  BY DEF launchCommand
<1>6. Engine(ask) = "ollama" => server = launchCommand(0) BY DEF launchCommand
<1> QED BY <1>4, <1>5, <1>6

-----------------------------------------------------------------------------
(* The steps of WeightsSpec                                                *)

LEMMA RentalStarts == WeightsInit => RentalInv
<1> SUFFICES ASSUME WeightsInit PROVE RentalInv OBVIOUS
<1>1. /\ ask \in Orders /\ repository \in Repositories /\ settled = Unset /\ node = Unset
      /\ endpoint = Unset /\ moved = FALSE
  BY DEF WeightsInit
<1> QED BY <1>1 DEF RentalInv, SettledInv, GotInv, ServerInv

LEMMA SettleStep ==
  ASSUME RentalInv, Settle
  PROVE  RentalInv'
<1>1. /\ settled = Unset /\ ask' = ask /\ repository' = repository /\ node' = node
      /\ endpoint' = endpoint /\ moved' = moved
  BY DEF Settle
<1>2. node = Unset BY <1>1 DEF RentalInv, GotInv
<1>3. ask \in Order /\ ask \in Orders /\ repository \in Repositories /\ moved \in BOOLEAN
  BY WeightsAssumption DEF RentalInv, SettledInv
<1>4. settled'.kind # "none" /\ (settled'.kind = "settled" => settled' \in ResolveGGUF(repository.files, ask))
  <2>1. Declined.kind = "refused" BY DEF Declined
  <2>2. CASE settled' = Declined BY <2>1, <2>2
  <2>3. CASE settled' \in ResolveWeights(repository, ask)
    <3>1. CASE Engine(ask) = "llamacpp"
      <4>1. settled' \in ResolveGGUF(repository.files, ask) BY <2>3, <3>1 DEF ResolveWeights
      <4>2. settled' = Declined \/ settled'.kind = "settled"
        <5>1. \A files, name, quant : Settled(files, name, quant).kind = "settled" BY DEF Settled
        <5>2. \A files, name, quant : namedFile(files, name, quant) = Declined
                                        \/ namedFile(files, name, quant).kind = "settled"
          BY <5>1 DEF namedFile
        <5>3. \A files, quant : \A s \in pickQuant(files, quant) : s = Declined \/ s.kind = "settled"
          BY <5>1 DEF pickQuant
        <5> HIDE DEF Declined
        <5> QED BY <4>1, <5>2, <5>3 DEF ResolveGGUF
      <4> QED BY <2>1, <4>1, <4>2
    <3>2. CASE Engine(ask) # "llamacpp"
      <4>1. settled' \in {Declined, [Declined EXCEPT !.kind = "tag"], [Declined EXCEPT !.kind = "format"]}
        BY <2>3, <3>2 DEF ResolveWeights
      <4>2. \A s \in {Declined, [Declined EXCEPT !.kind = "tag"], [Declined EXCEPT !.kind = "format"]} :
              s.kind # "none" /\ s.kind # "settled"
        BY DEF Declined
      <4> QED BY <4>1, <4>2
    <3> QED BY <3>1, <3>2
  <2> QED BY <2>2, <2>3 DEF Settle
<1>5. settled'.kind = "settled" => Resolves(repository.files, ask, settled')
  BY <1>3, <1>4, GGUFResolves
<1>6. settled'.kind = "settled" => settled'.file \in FileName BY <1>5 DEF Resolves
<1>7. SettledInv' BY <1>1, <1>3, <1>4, <1>5, <1>6 DEF SettledInv
<1>8. GotInv' BY <1>1, <1>2 DEF GotInv
<1>9. ServerInv' BY <1>1, <1>2 DEF RentalInv, ServerInv
<1> QED BY <1>7, <1>8, <1>9 DEF RentalInv

LEMMA RepublishStep ==
  ASSUME RentalInv, NEW r \in Repositories, Republish(r)
  PROVE  RentalInv'
<1>1. /\ repository' = r /\ moved' = (settled # Unset) /\ ask' = ask /\ settled' = settled
      /\ node' = node /\ endpoint' = endpoint
  BY DEF Republish
<1>2. CASE settled = Unset
  <2>1. node = Unset BY <1>2 DEF RentalInv, GotInv
  <2>2. moved' \in BOOLEAN BY <1>1, <1>2
  <2> QED BY <1>1, <1>2, <2>1, <2>2 DEF RentalInv, SettledInv, GotInv, ServerInv
<1>3. CASE settled # Unset
  <2>1. moved' = TRUE BY <1>1, <1>3
  <2>2. SettledInv' BY <1>1, <2>1 DEF RentalInv, SettledInv
  <2>3. GotInv' BY <1>1, <2>1 DEF RentalInv, GotInv, HostType
  <2>4. ServerInv' BY <1>1 DEF RentalInv, ServerInv, HeldBy, launchCommand, Engine
  <2> QED BY <2>2, <2>3, <2>4 DEF RentalInv
<1> QED BY <1>2, <1>3

LEMMA RentStep ==
  ASSUME RentalInv, NEW space, Rent(space)
  PROVE  RentalInv'
<1>1. /\ settled.kind \notin {"none", "refused"} /\ node = Unset /\ node' = Fresh(space)
      /\ ask' = ask /\ repository' = repository /\ settled' = settled /\ endpoint' = endpoint /\ moved' = moved
  BY DEF Rent
<1>2. /\ node'.got = {} /\ node'.launched = Unset /\ node'.servers = {} /\ HostType(node')
  <2>1. IsFiniteSet({}) BY FS_EmptySet
  <2> QED BY <1>1, <2>1 DEF Fresh, HostType
<1>3. settled # Unset BY <1>1 DEF Unset
<1>4. SettledInv' BY <1>1 DEF RentalInv, SettledInv
<1>5. GotInv' BY <1>1, <1>2, <1>3 DEF GotInv
<1>6. ServerInv' BY <1>1, <1>2 DEF RentalInv, ServerInv
<1> QED BY <1>4, <1>5, <1>6 DEF RentalInv

LEMMA FailsStep ==
  ASSUME RentalInv, Fails
  PROVE  RentalInv'
<1>1. /\ node.launched = Unset /\ node' = Unset
      /\ ask' = ask /\ repository' = repository /\ settled' = settled /\ endpoint' = endpoint /\ moved' = moved
  BY DEF Fails
<1> QED BY <1>1 DEF RentalInv, SettledInv, GotInv, ServerInv

LEMMA SpaceStep ==
  ASSUME RentalInv, NEW measured \in BOOLEAN, checkFreeSpace(measured)
  PROVE  RentalInv'
<1>1. /\ node # Unset /\ node' = [node EXCEPT !.begun = TRUE]
      /\ ask' = ask /\ repository' = repository /\ settled' = settled /\ endpoint' = endpoint /\ moved' = moved
  BY DEF checkFreeSpace
<1>2. HostType(node) BY <1>1 DEF RentalInv, GotInv
<1>3. /\ HostType(node') /\ node'.begun /\ node'.got = node.got /\ node'.launched = node.launched
      /\ node'.servers = node.servers
  BY <1>1, <1>2 DEF HostType
<1>4. SettledInv' BY <1>1 DEF RentalInv, SettledInv
<1>5. GotInv' BY <1>1, <1>3 DEF RentalInv, GotInv
<1>6. ServerInv'
  <2>n. node' # Unset
    <3>1. "got" \in DOMAIN node' BY <1>3 DEF HostType
    <3>2. "got" \notin DOMAIN Unset BY DEF Unset
    <3> QED BY <3>1, <3>2
  <2>1. \A n : HeldBy(node', n) <=> HeldBy(node, n) BY <1>3 DEF HeldBy
  <2> QED BY <1>1, <1>3, <2>n, <2>1 DEF RentalInv, ServerInv, launchCommand, Engine
<1> QED BY <1>4, <1>5, <1>6 DEF RentalInv

LEMMA DownloadStep ==
  ASSUME RentalInv, NEW name, downloadCmd(name)
  PROVE  RentalInv'
<1> DEFINE f == File(repository.files, name)
<1>1. /\ node # Unset /\ settled.kind = "settled" /\ name \in ShardFiles(settled.file) /\ ~Held(name)
      /\ name \in Names(repository.files) /\ node' = [node EXCEPT !.got = node.got \cup {f}]
      /\ ask' = ask /\ repository' = repository /\ settled' = settled /\ endpoint' = endpoint /\ moved' = moved
  BY DEF downloadCmd
<1>2. HostType(node) /\ settled # Unset BY <1>1 DEF RentalInv, GotInv
<1>3. f \in repository.files /\ f.name = name /\ f \in Published
  BY <1>1, UniqueFile DEF RentalInv, SettledInv
<1> HIDE DEF f
<1>4. /\ HostType(node') /\ node'.begun = node.begun /\ node'.got = node.got \cup {f} /\ node'.launched = node.launched
      /\ node'.servers = node.servers
  <2>1. IsFiniteSet(node.got \cup {f}) BY <1>2, FS_AddElement DEF HostType
  <2> QED BY <1>1, <1>2, <1>3, <2>1 DEF HostType
<1>5. \A g \in node.got : localName(g.name) # localName(name) BY <1>1, HeldIs DEF HeldBy
<1>6. SettledInv' BY <1>1 DEF RentalInv, SettledInv
<1>7. GotInv'
  <2>1. \A g \in node'.got : g.name \in ShardFiles(settled.file) /\ (~moved => g \in repository.files)
    BY <1>1, <1>3, <1>4 DEF RentalInv, GotInv
  <2>2. \A g, h \in node'.got : localName(g.name) = localName(h.name) => g = h
    BY <1>1, <1>3, <1>4, <1>5 DEF RentalInv, GotInv
  <2> QED BY <1>1, <1>2, <1>4, <2>1, <2>2 DEF GotInv
<1>8. ServerInv'
  <2>n. node' # Unset
    <3>1. "got" \in DOMAIN node' BY <1>4 DEF HostType
    <3>2. "got" \notin DOMAIN Unset BY DEF Unset
    <3> QED BY <3>1, <3>2
  <2>1. \A n : HeldBy(node, n) => HeldBy(node', n) BY <1>4 DEF HeldBy
  <2> QED BY <1>1, <1>4, <2>n, <2>1 DEF RentalInv, ServerInv, launchCommand, Engine
<1> QED BY <1>6, <1>7, <1>8 DEF RentalInv

\* What is the server larri's command stands for is so after a step that leaves
\* the order and what was settled alone.
LEMMA SameCommand ==
  ASSUME ask' = ask, settled' = settled
  PROVE  Engine(ask') = Engine(ask) /\ \A c : launchCommand(c)' = launchCommand(c)
BY DEF launchCommand, Engine

\* A step of the host's servers that starts none, or larri's.
LEMMA HostStep ==
  ASSUME RentalInv, node # Unset, NEW begun \in BOOLEAN, NEW launched1, NEW servers1,
         node' = [node EXCEPT !.begun = begun, !.launched = launched1, !.servers = servers1],
         ask' = ask, repository' = repository, settled' = settled, moved' = moved
  PROVE  /\ node' # Unset /\ node'.begun = begun /\ node'.got = node.got
         /\ node'.launched = launched1 /\ node'.servers = servers1
         /\ SettledInv' /\ GotInv'
<1>1. HostType(node) BY DEF RentalInv, GotInv
<1>2. /\ HostType(node') /\ node'.got = node.got /\ node'.begun = begun
      /\ node'.launched = launched1 /\ node'.servers = servers1
  BY <1>1 DEF HostType
<1>3. node' # Unset
  <2>1. "got" \in DOMAIN node' BY <1>2 DEF HostType
  <2>2. "got" \notin DOMAIN Unset BY DEF Unset
  <2> QED BY <2>1, <2>2
<1>4. SettledInv' BY DEF RentalInv, SettledInv
<1>5. GotInv' BY <1>2 DEF RentalInv, GotInv
<1> QED BY <1>2, <1>3, <1>4, <1>5

LEMMA LaunchStep ==
  ASSUME RentalInv, NEW capability, Launch(capability)
  PROVE  RentalInv'
<1> DEFINE server == launchCommand(capability)
<1>1. /\ node # Unset /\ Bootstrapped /\ node.launched = Unset /\ endpoint' = server
      /\ ask' = ask /\ repository' = repository /\ settled' = settled /\ moved' = moved
  BY DEF Launch
<1>n. PICK now : /\ node' = [node EXCEPT !.launched = server, !.servers = now]
                 /\ now \in IF Engine(ask) = "ollama" THEN {node.servers} ELSE Started(server)
  BY DEF Launch
<1>2. /\ server # Unset /\ (settled.kind = "settled" => server.model = localName(settled.file))
      /\ Engine(ask) = "ollama" => server = launchCommand(0)
  BY Launched
<1>3. HostType(node) BY <1>1 DEF RentalInv, GotInv
<1>4. \A s \in now : s.by = "larri" => s = server
  <2>1. \A s \in node.servers : s.by = "larri" => Engine(ask) = "ollama" /\ s = launchCommand(0)
    BY <1>1 DEF RentalInv, ServerInv
  <2>2. CASE Engine(ask) = "ollama"
    <3>1. now = node.servers BY <1>n, <2>2
    <3> QED BY <1>2, <2>1, <2>2, <3>1
  <2>3. CASE Engine(ask) # "ollama"
    <3>1. PICK kept \in SUBSET node.servers : now = {server} \cup kept BY <1>n, <2>3 DEF Started
    <3> QED BY <2>1, <2>3, <3>1
  <2> QED BY <2>2, <2>3
<1> HIDE DEF server
<1>5. /\ node' # Unset /\ node'.launched = server /\ node'.servers = now /\ node'.got = node.got
      /\ node'.begun /\ SettledInv' /\ GotInv'
  <2>1. node' = [node EXCEPT !.begun = node.begun, !.launched = server, !.servers = now]
    BY <1>n, <1>3 DEF HostType
  <2>2. node.begun \in BOOLEAN /\ node.begun BY <1>1, <1>3 DEF HostType, Bootstrapped
  <2> QED BY <1>1, <2>1, <2>2, HostStep
<1>8. settled.kind = "settled" => \A name \in ShardFiles(settled.file) : HeldBy(node', name)
  BY <1>1, <1>5, HeldIs DEF Bootstrapped, HeldBy
<1>9. ServerInv' BY <1>1, <1>2, <1>4, <1>5, <1>8 DEF ServerInv
<1> QED BY <1>5, <1>9 DEF RentalInv

\* Ollama's daemon, before there is a server of larri's on the host.
LEMMA DaemonStep ==
  ASSUME RentalInv, StartsDaemon
  PROVE  RentalInv'
<1>1. /\ node # Unset /\ ~node.begun /\ Engine(ask) = "ollama" /\ endpoint' = endpoint
      /\ ask' = ask /\ repository' = repository /\ settled' = settled /\ moved' = moved
  BY DEF StartsDaemon
<1>2. PICK kept \in SUBSET node.servers :
        node' = [node EXCEPT !.begun = TRUE, !.servers = {launchCommand(0)} \cup kept]
  BY DEF StartsDaemon, Started
<1>3. HostType(node) BY <1>1 DEF RentalInv, GotInv
<1>4. /\ node' # Unset /\ node'.launched = node.launched /\ node'.servers = {launchCommand(0)} \cup kept
      /\ node'.got = node.got /\ SettledInv' /\ GotInv'
  <2>1. node' = [node EXCEPT !.begun = TRUE, !.launched = node.launched, !.servers = {launchCommand(0)} \cup kept]
    BY <1>2, <1>3 DEF HostType
  <2> QED BY <1>1, <2>1, HostStep
<1>5. Engine(ask') = Engine(ask) /\ launchCommand(0)' = launchCommand(0) BY <1>1, SameCommand
<1>6. node.launched = Unset BY <1>1 DEF RentalInv, ServerInv
<1>7. ServerInv'
  <2>1. \A s \in node'.servers : s.by = "larri" => Engine(ask') = "ollama" /\ s = launchCommand(0)'
    BY <1>1, <1>4, <1>5, <1>6 DEF RentalInv, ServerInv
  <2>2. endpoint # Unset /\ endpoint.by = "larri" => FALSE BY <1>6 DEF RentalInv, ServerInv
  <2> QED BY <1>1, <1>4, <1>6, <2>1, <2>2 DEF ServerInv
<1> QED BY <1>4, <1>7 DEF RentalInv

LEMMA ServerStep ==
  ASSUME RentalInv, Exits \/ Foreign
  PROVE  RentalInv'
<1>1. /\ node # Unset
      /\ ask' = ask /\ repository' = repository /\ settled' = settled /\ endpoint' = endpoint /\ moved' = moved
  BY DEF Exits, Foreign
<1>2. HostType(node) BY <1>1 DEF RentalInv, GotInv
<1>3. PICK now : /\ node' = [node EXCEPT !.servers = now]
                 /\ \A s \in now : s.by = "larri" => s \in node.servers
  <2>1. CASE Exits
    <3>1. PICK gone \in node.servers : node' = [node EXCEPT !.servers = node.servers \ {gone}]
      BY <2>1 DEF Exits
    <3> QED BY <3>1
  <2>2. CASE Foreign
    <3>1. PICK bind, key :
            node' = [node EXCEPT !.servers = node.servers \cup
              {[by |-> "another", engine |-> Engine(ask), bind |-> bind, key |-> key,
                model |-> Unset, half |-> FALSE]}]
      BY <2>2 DEF Foreign
    <3> DEFINE other == [by |-> "another", engine |-> Engine(ask), bind |-> bind, key |-> key,
                         model |-> Unset, half |-> FALSE]
    <3>2. other.by # "larri" OBVIOUS
    <3> HIDE DEF other
    <3>3. node' = [node EXCEPT !.servers = node.servers \cup {other}] BY <3>1 DEF other
    <3> QED BY <3>2, <3>3
  <2> QED BY <2>1, <2>2
<1>4. /\ node' # Unset /\ node'.launched = node.launched /\ node'.servers = now
      /\ node'.begun = node.begun /\ node'.got = node.got /\ SettledInv' /\ GotInv'
  <2>1. /\ node' = [node EXCEPT !.begun = node.begun, !.launched = node.launched, !.servers = now]
        /\ node.begun \in BOOLEAN
    BY <1>2, <1>3 DEF HostType
  <2> QED BY <1>1, <2>1, HostStep
<1>5. Engine(ask') = Engine(ask) /\ launchCommand(0)' = launchCommand(0) BY <1>1, SameCommand
<1>6. ServerInv'
  <2>1. \A name : HeldBy(node', name) <=> HeldBy(node, name) BY <1>4 DEF HeldBy
  <2> QED BY <1>1, <1>3, <1>4, <1>5, <2>1 DEF RentalInv, ServerInv
<1> QED BY <1>4, <1>6 DEF RentalInv

LEMMA ProcessStep ==
  ASSUME RentalInv, Forget \/ Reattach
  PROVE  RentalInv'
<1>1. /\ node' = node /\ ask' = ask /\ repository' = repository /\ settled' = settled /\ moved' = moved
  BY DEF Forget, Reattach
<1>2. SettledInv' /\ GotInv' BY <1>1 DEF RentalInv, SettledInv, GotInv
<1>3. endpoint' # Unset /\ endpoint'.by = "larri" =>
        node # Unset /\ node.launched # Unset /\ endpoint' = node.launched
  <2>1. CASE Forget BY <2>1 DEF Forget
  <2>2. CASE Reattach
    <3>1. PICK s \in node.servers : endpoint' = s /\ node # Unset /\ node.launched # Unset
      BY <2>2 DEF Reattach
    <3> QED BY <3>1 DEF RentalInv, ServerInv
  <2> QED BY <2>1, <2>2
<1>5. Engine(ask') = Engine(ask) /\ launchCommand(0)' = launchCommand(0) BY <1>1, SameCommand
<1>4. ServerInv' BY <1>1, <1>3, <1>5 DEF RentalInv, ServerInv, HeldBy
<1> QED BY <1>2, <1>4 DEF RentalInv

-----------------------------------------------------------------------------
(* What is served                                                          *)

LEMMA RentalSteps ==
  ASSUME RentalInv, [WeightsNext]_wvars
  PROVE  RentalInv'
<1>1. CASE Settle BY <1>1, SettleStep
<1>2. ASSUME NEW r \in Repositories, Republish(r) PROVE RentalInv' BY <1>2, RepublishStep
<1>3. ASSUME NEW space \in Spaces, Rent(space) PROVE RentalInv' BY <1>3, RentStep
<1>4. CASE Fails BY <1>4, FailsStep
<1>5. CASE Exits \/ Foreign BY <1>5, ServerStep
<1>6. CASE Forget \/ Reattach BY <1>6, ProcessStep
<1>7. ASSUME NEW measured \in BOOLEAN, checkFreeSpace(measured) PROVE RentalInv' BY <1>7, SpaceStep
<1>8. ASSUME NEW name, downloadCmd(name) PROVE RentalInv' BY <1>8, DownloadStep
<1>9. ASSUME NEW capability, Launch(capability) PROVE RentalInv' BY <1>9, LaunchStep
<1>11. CASE StartsDaemon BY <1>11, DaemonStep
<1>10. CASE UNCHANGED wvars
  BY <1>10 DEF wvars, RentalInv, SettledInv, GotInv, ServerInv, launchCommand
<1> QED BY <1>1, <1>2, <1>3, <1>4, <1>5, <1>6, <1>7, <1>8, <1>9, <1>10, <1>11 DEF WeightsNext

\* All of the parts that were listed, if none of them changed, and so as large.
LEMMA AllHeld ==
  ASSUME RentalInv, node # Unset, node.launched # Unset, settled.kind = "settled", ~moved
  PROVE  /\ node.got = {f \in repository.files : f.name \in ShardFiles(settled.file)}
         /\ settled.bytes # 0 => settled.bytes = Bytes(node.got)
<1> DEFINE parts == {f \in repository.files : f.name \in ShardFiles(settled.file)}
<1>1. settled.file \in FileName /\ Resolves(repository.files, ask, settled) /\ repository \in Repositories
  <2>1. settled # Unset BY DEF RentalInv, GotInv
  <2> QED BY <2>1 DEF RentalInv, SettledInv
<1>2. node.got \subseteq parts BY DEF RentalInv, GotInv
<1>3. ASSUME NEW f \in parts PROVE f \in node.got
  <2>1. f.name \in ShardFiles(settled.file) /\ f \in repository.files BY <1>3
  <2>2. PICK g \in node.got : localName(g.name) = localName(f.name)
    BY <2>1 DEF RentalInv, ServerInv, HeldBy
  <2>3. g \in repository.files /\ g.name \in ShardFiles(settled.file) BY <1>2
  <2>4. g.name = f.name BY <1>1, <2>1, <2>2, <2>3, PartsOf
  <2>5. g = f BY <1>1, <2>1, <2>3, <2>4, WeightsAssumption
  <2> QED BY <2>5
<1>4. node.got = parts BY <1>2, <1>3
<1>5. settled.bytes = shardBytes(repository.files, settled.file) BY <1>1 DEF Resolves
<1>6. settled.bytes # 0 => settled.bytes = Bytes(parts) BY <1>5 DEF shardBytes
<1> QED BY <1>4, <1>6

LEMMA HostServes == RentalInv => ServesWhatWasAsked
<1> SUFFICES ASSUME RentalInv PROVE ServesWhatWasAsked OBVIOUS
<1>1. endpoint # Unset /\ endpoint.by = "larri" => endpoint = node.launched BY DEF RentalInv, ServerInv
<1>2. ASSUME node # Unset, node.launched # Unset, settled.kind = "settled"
      PROVE  LET parts == {f \in node.got : localName(f.name) \in
                                              {localName(n) : n \in ShardFiles(settled.file)}}
             IN /\ node.launched.model = localName(settled.file)
                /\ Cardinality(parts) = IF settled.file.parts = 0 THEN 1 ELSE settled.file.parts
                /\ ~moved =>
                     /\ \A f \in parts :
                          /\ f.holds # "other"
                          /\ f.holds = FormatWanted \/ FormatWanted = NoQuant \/ TakenByItsName(f, FormatWanted)
                     /\ settled.bytes # 0 => Bytes(parts) = settled.bytes
  <2> DEFINE parts == {f \in node.got : localName(f.name) \in
                                          {localName(n) : n \in ShardFiles(settled.file)}}
  <2>1. settled # Unset /\ settled.file \in FileName
    BY <1>2 DEF RentalInv, GotInv, SettledInv
  <2>2. node.launched.model = localName(settled.file) BY <1>2 DEF RentalInv, ServerInv
  <2>3. parts = node.got
    <3>1. \A f \in node.got : f.name \in ShardFiles(settled.file) BY <1>2 DEF RentalInv, GotInv
    <3> QED BY <3>1
  <2>4. Cardinality(node.got) = IF settled.file.parts = 0 THEN 1 ELSE settled.file.parts
    <3>1. IsFiniteSet(node.got) BY <1>2 DEF RentalInv, GotInv, HostType
    <3>2. \A f \in node.got : f.name \in ShardFiles(settled.file) BY <1>2 DEF RentalInv, GotInv
    <3>3. \A f, g \in node.got : localName(f.name) = localName(g.name) => f = g
      BY <1>2 DEF RentalInv, GotInv
    <3>4. \A p \in ShardFiles(settled.file) : \E f \in node.got : localName(f.name) = localName(p)
      BY <1>2 DEF RentalInv, ServerInv, HeldBy
    <3> QED BY <2>1, <3>1, <3>2, <3>3, <3>4, HowMany
  <2>5. ASSUME ~moved
        PROVE  /\ \A f \in node.got :
                    /\ f.holds # "other"
                    /\ f.holds = FormatWanted \/ FormatWanted = NoQuant \/ TakenByItsName(f, FormatWanted)
               /\ settled.bytes # 0 => Bytes(node.got) = settled.bytes
    <3>1. Resolves(repository.files, ask, settled)
      BY <1>2, <2>1, <2>5 DEF RentalInv, SettledInv
    <3>2. node.got = {f \in repository.files : f.name \in ShardFiles(settled.file)}
      BY <1>2, <2>5, AllHeld
    <3>3. \A f \in node.got :
            /\ f.holds # "other"
            /\ f.holds = FormatWanted \/ FormatWanted = NoQuant \/ TakenByItsName(f, FormatWanted)
      <4>1. quantAliases(NoQuant) = NoQuant BY DEF quantAliases, NoQuant
      <4> QED BY <3>1, <3>2, <4>1 DEF Resolves, TakenByItsName, FormatWanted
    <3>4. settled.bytes # 0 => Bytes(node.got) = settled.bytes BY <1>2, <2>5, AllHeld
    <3> QED BY <3>3, <3>4
  <2> QED BY <2>2, <2>3, <2>4, <2>5
<1> QED BY <1>1, <1>2 DEF ServesWhatWasAsked

\* A llama.cpp server is started on a host that has every part of the model that was
\* settled on, each once, in the format asked for as far as names tell, and as many
\* bytes as the rental was sized by, unless the repository changed meanwhile; and of
\* larri's servers a later process can only find that one, of however many there are
\* on the host.  By the rental's invariant.
THEOREM ServesTheAsked == WeightsSpec => []ServesWhatWasAsked
<1>1. WeightsInit => RentalInv BY RentalStarts
<1>2. RentalInv /\ [WeightsNext]_wvars => RentalInv' BY RentalSteps
<1>3. RentalInv => ServesWhatWasAsked BY HostServes
<1> QED BY <1>1, <1>2, <1>3, PTL DEF WeightsSpec
=============================================================================
