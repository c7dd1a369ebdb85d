-------------------------------- MODULE Cost --------------------------------
(***************************************************************************)
(* What a rig spent, replayed from its journal (internal/state/cost.go),     *)
(* beside the meter of the machine it rented.  Times are whole hours and     *)
(* rates whole units an hour.  Entries are appended in the order of their    *)
(* times.                                                                    *)
(***************************************************************************)
EXTENDS Integers, Sequences, FiniteSetsExt, Lifecycle

CONSTANTS Quoted, Billed, Stored,   \* the rates: at selection, running, stopped
          MaxClock, MaxEntries

ASSUME CostAssumption ==
  /\ {Quoted, Billed, MaxClock, MaxEntries} \subseteq Nat \ {0} /\ Stored \in Nat /\ Stored % 12 = 0

VARIABLES
  clock,
  journal,     \* of the one rig
  instance,    \* what there is of it at the provider
  rented,      \* observer: there has been a machine
  metered,     \* observer: of the hours a machine was there, at the rates on record
  assumed,     \* observer: of the hours the record took one to be there and none was
  reached      \* observer: all of it when READY was first recorded
cvars == <<clock, journal, instance, rented, metered, assumed, reached>>

-----------------------------------------------------------------------------
(* The replay                                                              *)

computeBilling(s) ==
  s \in {"CREATING", "PROVISIONED", "BOOTSTRAPPING", "READY", "DEGRADED", "DRAINING", "FAILED", "ORPHANED"}
storageBilling(s) == s \notin {"IDLE", "SEARCHING", "SELECTED", "DESTROYED"}

\* What an hour in a state is charged, compute first.  Entries from before the
\* billed rate was journalled, of a rig whose snapshot has none, have storage on
\* top of compute.
Hourly(s, rates, billedHr) ==
  IF rates.legacy /\ billedHr = 0
  THEN <<IF computeBilling(s) THEN rates.price ELSE 0, IF storageBilling(s) THEN rates.stored ELSE 0>>
  ELSE IF computeBilling(s) THEN <<rates.price, 0>>
  ELSE <<0, IF storageBilling(s) THEN rates.stored ELSE 0>>

\* The rates an entry leaves: its own where it has them, a quote replaced by what
\* the snapshot says was billed, a price per gigabyte and month made an hour's.
Rates(rates, e, billedHr) ==
  [price |-> IF e.price = 0 THEN rates.price ELSE IF e.legacy /\ billedHr > 0 THEN billedHr ELSE e.price,
   stored |-> IF e.stored = 0 THEN rates.stored ELSE IF e.legacy THEN (e.stored * 60) \div 720 ELSE e.stored,
   legacy |-> e.legacy]

Nothing == [state |-> "none", since |-> 0, rates |-> [price |-> 0, stored |-> 0, legacy |-> FALSE],
            compute |-> 0, storage |-> 0, boot |-> 0, ready |-> FALSE, absent |-> FALSE]

accrue(sum, until, billedHr) ==
  IF sum.state = "none" \/ until < sum.since THEN sum
  ELSE LET hour == Hourly(sum.state, sum.rates, billedHr)
       IN [sum EXCEPT !.compute = @ + (until - sum.since) * hour[1],
                      !.storage = @ + (until - sum.since) * hour[2]]

\* Mutant of Replayed: what follows the end of a rig is replayed like the rest.
ReplayedOn(sum, e, billedHr) ==
  LET spent == accrue(sum, e.at, billedHr)
      ready == e.to = "READY" /\ ~spent.ready
  IN [spent EXCEPT !.absent = @ \/ e.absent, !.rates = Rates(@, e, billedHr),
                   !.state = e.to, !.since = e.at, !.ready = @ \/ ready,
                   !.boot = IF ready THEN spent.compute + spent.storage ELSE @]

\* One entry.  Nothing follows the end of a rig, and a second record of it does
\* not move it; what was spent by the first READY was spent to get there.
Replayed(sum, e, billedHr) ==
  LET spent == accrue([sum EXCEPT !.absent = @ \/ e.absent], e.at, billedHr)
      ended == sum.state = "DESTROYED"
      ready == e.to = "READY" /\ ~spent.ready
  IN IF ended /\ e.to # "DESTROYED" THEN spent
     ELSE [spent EXCEPT !.rates = Rates(@, e, billedHr), !.state = e.to,
                        !.since = IF ended THEN @ ELSE e.at, !.ready = @ \/ ready,
                        !.boot = IF ready THEN spent.compute + spent.storage ELSE @]

\* One entry after another, from the first.
replay(entries, billedHr) ==
  LET upto[i \in 0..Len(entries)] ==
        IF i = 0 THEN Nothing ELSE Replayed(upto[i - 1], entries[i], billedHr)
  IN upto[Len(entries)]

\* A rig that bills still is brought up to now.  A teardown that recorded that
\* nothing was ever created ends the assumption that there was.
cost(entries, now, billedHr) ==
  LET replayed == replay(entries, billedHr)
      sum == IF replayed.state # "none" /\ Billable(replayed.state)
             THEN accrue(replayed, now, billedHr) ELSE replayed
  IN IF sum.absent THEN [sum EXCEPT !.compute = 0, !.storage = 0, !.boot = 0] ELSE sum

-----------------------------------------------------------------------------
(* The rig, its machine, and its writers                                    *)

HasEnded == \E i \in DOMAIN journal : journal[i].to = "DESTROYED"

\* What the record says of the rig: nothing counts after an end.
State ==
  IF journal = <<>> THEN "none" ELSE IF HasEnded THEN "DESTROYED" ELSE journal[Len(journal)].to

\* An hour at the rates last named: the machine's, or the storage that it leaves.
HourOnRecord ==
  LET named == {i \in DOMAIN journal : journal[i].stored # 0}
  IN IF journal = <<>> \/ ~storageBilling(State) THEN 0
     ELSE IF computeBilling(State) THEN journal[Len(journal)].price
     ELSE IF named = {} THEN 0 ELSE journal[Max(named)].stored

\* An hour passes: the machine bills, at the rates the record has for the state it
\* has, or the record bills for a machine that is not there.
Passes ==
  /\ clock < MaxClock /\ clock' = clock + 1
  /\ IF instance # "none"
     THEN metered' = metered + HourOnRecord /\ UNCHANGED assumed
     ELSE assumed' = assumed + HourOnRecord /\ UNCHANGED metered
  /\ UNCHANGED <<journal, instance, rented, reached>>

\* The machine comes of a create that was sent, whether or not it was answered,
\* is stopped or started, or goes.
MachineMoves(to) ==
  /\ to # instance
  /\ instance = "none" => ~rented /\ to = "running" /\ ~HasEnded /\ State \in {"CREATING", "FAILED"}
  /\ instance' = to /\ rented' = TRUE
  /\ UNCHANGED <<clock, journal, metered, assumed, reached>>

\* What a writer records is what it was told: an instance, or its end.
Entry(to, answered, absent) ==
  [at |-> clock, to |-> to, price |-> IF answered THEN Billed ELSE Quoted,
   stored |-> IF answered THEN Stored ELSE 0, legacy |-> FALSE, absent |-> absent]

Believed(to) ==
  CASE to \in {"SELECTED", "CREATING"} -> journal = <<>> \/ State = "SELECTED"
    [] to \in {"PROVISIONED", "BOOTSTRAPPING", "READY"} -> instance = "running"
    [] to = "STOPPED" -> instance = "stopped"
    [] to = "DESTROYED" -> instance = "none" /\ journal # <<>>
    [] OTHER -> journal # <<>>

\* RecordIntent: any writer, also one whose copy is older than the rig's end.
RecordIntent(to, answered) ==
  /\ Len(journal) < MaxEntries
  /\ HasEnded \/ Believed(to)
  /\ answered => rented
  /\ \E absent \in BOOLEAN :
       /\ absent => to = "DESTROYED" /\ ~rented
       /\ journal' = Append(journal, Entry(to, answered, absent))
  /\ reached' = IF to = "READY" /\ reached = -1 /\ ~HasEnded THEN metered + assumed ELSE reached
  /\ UNCHANGED <<clock, instance, rented, metered, assumed>>

Writes == {"SELECTED", "CREATING", "PROVISIONED", "READY", "DEGRADED", "STOPPED", "DRAINING", "DESTROYED", "FAILED"}

CostInit == clock = 0 /\ journal = <<>> /\ instance = "none" /\ rented = FALSE
        /\ metered = 0 /\ assumed = 0 /\ reached = -1

CostNext ==
  \/ Passes
  \/ \E to \in {"none", "running", "stopped"} : MachineMoves(to)
  \/ \E to \in Writes, answered \in BOOLEAN : RecordIntent(to, answered)

CostSpec == CostInit /\ [][CostNext]_cvars

-----------------------------------------------------------------------------
(* Properties                                                              *)

\* The replay agrees with the meter: every hour a machine was there is charged
\* once and at the rate then on record, and beyond that only the hours for which
\* the record had to assume one, until a teardown recorded that there was none;
\* and of that, what was spent before the rig first served.
SpendMatchesMeter ==
  LET sum == cost(journal, clock, 0)
      total == sum.compute + sum.storage
  IN IF sum.absent THEN total = 0 /\ metered = 0
     ELSE total = metered + assumed /\ (reached # -1 => sum.boot = reached)
=============================================================================
