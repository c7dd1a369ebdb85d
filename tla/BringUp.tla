------------------------------- MODULE BringUp -------------------------------
(***************************************************************************)
(* UpAndServe: rent the best offer left, bring the host up, and when it     *)
(* proves unusable tear it down and rent the next.  The market is asked     *)
(* again at every attempt and answers as it likes; which of its offers is   *)
(* best is left open.  Boot is the host's part of an attempt.               *)
(***************************************************************************)
EXTENDS Boot, Sequences

CONSTANTS
  Offers,           \* what may be listed
  MachineOf,        \* the machine behind an offer, NoMachine where the provider places it
  ModelOf,          \* its GPU model
  Fitting,          \* the offers the model fits on
  MaxHostAttempts,
  NoMachine, NoOffer

ASSUME BringUpAssumption ==
  /\ MaxHostAttempts \in Nat \ {0} /\ Fitting \subseteq Offers /\ NoOffer \notin Offers
  /\ DOMAIN MachineOf = Offers /\ DOMAIN ModelOf = Offers

VARIABLES
  attempt,           \* this one's number, and its rig's
  offer,             \* what was selected
  instance,          \* the rig has an instance, as far as this process knows
  excludedMachines, excludedOffers,
  failedModels,      \* host failures per GPU model and operation
  billing,           \* observer: the attempts whose machine bills, no one told of it
  tried,             \* observer: the offers of this bring-up that failed as hosts, in order
  carried            \* observer: the offers an earlier bring-up of the orchestrator barred

pool == <<excludedMachines, excludedOffers, failedModels, tried, carried>>
vars == <<boot, attempt, offer, instance, pool, billing>>

modelStrikes == 2
Attempts == 1..MaxHostAttempts
Models == {ModelOf[o] : o \in Offers}
Operations == {Faults[f] : f \in DOMAIN Faults}
NoStrikes == [k \in Models \X Operations |-> 0]

HostFailure(why) == why \notin NotTheHosts

\* Mutant of Begin: an earlier bring-up's machines stay excluded.
BeginKeeps ==
  /\ phase = "begin" /\ failedModels' = NoStrikes
  /\ phase' \in {"select", "returned"} /\ attempt' = 1
  /\ UNCHANGED <<spent, waits, fault, offer, instance, excludedMachines,
                 excludedOffers, tried, carried, billing>>

\* Exclusions belong to one bring-up, the comment says: those of machines and
\* models are dropped, those of offers are carried over.  The local port and the
\* client keys are checked before anything is rented.
Begin ==
  /\ phase = "begin" /\ excludedMachines' = {} /\ failedModels' = NoStrikes
  /\ phase' \in {"select", "returned"} /\ attempt' = 1
  /\ UNCHANGED <<spent, waits, fault, offer, instance, excludedOffers, tried,
                 carried, billing>>

-----------------------------------------------------------------------------
(* Selecting                                                               *)

retiredModels ==
  {m \in Models : \E op \in Operations : failedModels[<<m, op>>] >= modelStrikes}

\* Mutant of withoutTried: a fallback skips the offer that failed, not its machine.
withoutOffer(market) == {o \in market : \A i \in DOMAIN tried : tried[i] # o}

\* A machine already tried is skipped, and a listing that names no machine.
withoutTried(market) ==
  {o \in market : MachineOf[o] \notin excludedMachines /\ o \notin excludedOffers}

\* Retired models are skipped unless nothing else is listed.
withoutRetired(market) ==
  LET kept == {o \in market : ModelOf[o] \notin retiredModels}
  IN IF kept # {} THEN kept ELSE market

\* Up before it spends: nothing fits or the search or a check fails, and
\* the call returns; or the operator agrees to an offer.
Survey ==
  /\ phase = "select" /\ fault' = "none"
  /\ \/ phase' = "returned" /\ offer' = NoOffer
     \/ /\ \E market \in SUBSET Offers :
             offer' \in withoutRetired(withoutTried(market)) \cap Fitting
        /\ phase' = "create"
  /\ instance' = FALSE
  /\ UNCHANGED <<spent, waits, attempt, pool, billing>>

-----------------------------------------------------------------------------
(* Renting                                                                 *)

\* The create is answered, and journalled; a rig that cannot be ends the attempt.
Created ==
  /\ phase = "create" /\ instance' = TRUE /\ billing' = billing \cup {attempt}
  /\ \/ StartsWait("ssh")
     \/ GivesUp("journal")
  /\ UNCHANGED <<attempt, offer, pool>>

\* A create that fails may have created.  One that never left the client is
\* closed at once.  Otherwise the provider is asked: an instance under the rig's
\* label is torn down with the attempt; nothing listed settles it, unless the
\* outcome is unknown, as what landed may be listed later.  What is not settled
\* is reported and left to the sweep.  The attempt's deadline, where it cut the
\* call, makes the error the host's.
CreateFails(why, landed, asked, listed) ==
  LET definite == why # "unknown_create"
      reported == why # "not_sent" /\ ~listed /\ (~asked \/ ~definite)
  IN /\ phase = "create" /\ (why = "not_sent" => ~landed /\ ~asked)
     /\ (listed => landed /\ asked) /\ (definite /\ landed /\ asked => listed)
     /\ instance' = listed
     /\ \/ GivesUp(IF why = "not_sent" THEN "other_create" ELSE why)
        \/ ~definite /\ GivesUp("deadline")
     /\ billing' = (IF landed /\ ~reported THEN billing \cup {attempt} ELSE billing)
     /\ UNCHANGED <<attempt, offer, pool>>

Create ==
  \/ Created
  \/ \E why \in {"create", "unknown_create", "other_create", "not_sent"},
        landed, asked, listed \in BOOLEAN : CreateFails(why, landed, asked, listed)

-----------------------------------------------------------------------------
(* Falling back                                                            *)

\* A host that failed takes its machine out, or the listing that names none,
\* and counts against its model's way of failing.
excludeFailed ==
  /\ tried' = Append(tried, offer)
  /\ failedModels' = [failedModels EXCEPT ![<<ModelOf[offer], Faults[fault]>>] = @ + 1]
  /\ UNCHANGED carried
  /\ IF MachineOf[offer] # NoMachine
     THEN excludedMachines' = excludedMachines \cup {MachineOf[offer]} /\ UNCHANGED excludedOffers
     ELSE excludedOffers' = excludedOffers \cup {offer} /\ UNCHANGED excludedMachines

\* Mutant of teardownAfterFailure: only a failure of the host is torn down.
teardownHosts == billing' = IF HostFailure(fault) THEN billing \ {attempt} ELSE billing

\* The machine is destroyed, or its teardown is reported as unconfirmed.
teardownAfterFailure == billing' = IF instance THEN billing \ {attempt} ELSE billing

\* One attempt's failure, settled: the host excluded, its machine torn down.
\* Only a host's failure is worth another machine, and only to a caller who has
\* not left meanwhile.
Fails ==
  /\ phase = "failed"
  /\ IF HostFailure(fault) THEN excludeFailed ELSE UNCHANGED pool
  /\ teardownAfterFailure
  /\ \/ /\ HostFailure(fault) /\ attempt < MaxHostAttempts
        /\ StartsWait("select") /\ attempt' = attempt + 1
     \/ StartsWait("returned") /\ UNCHANGED attempt
  /\ UNCHANGED <<offer, instance>>

Returns ==
  /\ phase = "served" /\ StartsWait("returned")
  /\ UNCHANGED <<attempt, offer, instance, pool, billing>>

Serves == Serve /\ UNCHANGED <<attempt, offer, instance, pool, billing>>

Init ==
  /\ phase = "begin" /\ spent = 0 /\ age = 0 /\ quiet = 0 /\ reach = Unset /\ offline = Unset
  /\ spoke = FALSE /\ status = "none" /\ attached = FALSE /\ counted = FALSE /\ dead = 0
  /\ fault = "none" /\ news = 0 /\ line = 0
  /\ attempt = 0 /\ offer = NoOffer /\ instance = FALSE
  /\ excludedMachines \in SUBSET ({MachineOf[o] : o \in Offers} \ {NoMachine})
  /\ excludedOffers \in SUBSET {o \in Offers : MachineOf[o] = NoMachine}
  /\ carried = excludedOffers
  /\ failedModels = NoStrikes
  /\ billing = {} /\ tried = <<>>

Next == Begin \/ Survey \/ Create \/ Serves \/ Fails \/ Returns
Spec == Init /\ [][Next]_vars
FairSpec == Spec /\ WF_vars(Next)

-----------------------------------------------------------------------------
(* Properties                                                              *)

\* Each attempt pays for its own machine and no other: an earlier attempt's, and
\* the last one's after a bring-up that failed, is ended, or was reported as not
\* confirmed ended, and so is what a create that failed had made.
OneMachineBilling ==
  \A a \in billing :
    a = attempt /\ instance /\ (phase = "returned" => fault = "none")

\* What a failure leaves to be told apart: the machine, or the listing.
Source(o) == IF MachineOf[o] = NoMachine THEN <<"listing", o>> ELSE <<"machine", MachineOf[o]>>

\* A fallback never pays again for what has failed: no machine that failed in
\* this bring-up, and no listing that names none, is rented a second time.
NoMachineTwice ==
  /\ \A i, j \in DOMAIN tried : Source(tried[i]) = Source(tried[j]) => i = j
  /\ phase \in {"create", "ssh", "pin", "checks", "ready", "served"} =>
       \A i \in DOMAIN tried : Source(tried[i]) # Source(offer)

\* What is barred has failed: every excluded machine in this bring-up, of a
\* retired model two hosts in this bring-up, and every excluded offer in this
\* one or in an earlier one of the same orchestrator, which UpAndServe does not
\* reset though its comment says that exclusions belong to one bring-up.
BarredForCause ==
  attempt > 0 =>
    /\ \A o \in excludedOffers \ carried : \E i \in DOMAIN tried : tried[i] = o
    /\ \A m \in excludedMachines : \E i \in DOMAIN tried : MachineOf[tried[i]] = m
    /\ \A m \in retiredModels :
         \E i, j \in DOMAIN tried : i # j /\ ModelOf[tried[i]] = m /\ ModelOf[tried[j]] = m

\* What is barred has failed now, as UpAndServe's comment has it: not checked,
\* for offers that name no machine it does not hold.
BarredForThisBringUp ==
  attempt > 0 => \A o \in excludedOffers : \E i \in DOMAIN tried : tried[i] = o

\* A host is given up for silence only after silence: since what the wait looks
\* at last changed, as of the poll before, the limit had passed.  waitForSSH and
\* waitReady look at all that is reported, pinAndDial at the displayed line.
\* Polls that nobody answered count as silence.
SilenceBeforeGivingUp ==
  phase = "failed" =>
    /\ fault = "unreachable" => news > Unreachable
    /\ fault = "stalled" => news > BootStall
    /\ fault = "cold" => news > ColdLimit
    /\ fault = "warm" => news > WarmLimit
    /\ fault = "refused" => line >= AuthStall

\* The same of the whole report, as the comments at bootSignature and in
\* pinAndDial have it: not checked, and it does not hold, a rolling report may
\* change below the cut of the displayed line.
SilenceBeforeRefusal == phase = "failed" /\ fault = "refused" => news >= AuthStall

\* A bring-up ends: whatever hosts and providers say, and however long they go
\* on saying it, UpAndServe returns, unless the process died or a handshake
\* with a server that fell silent never does.
UpReturns == <>(phase \in {"returned", "crashed", "hung"})

\* A provider's outage is no dead host: a status query that fails is asked again
\* and the bring-up goes on.
OutageSurvived == phase # "crashed"
=============================================================================
