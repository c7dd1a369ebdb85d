----------------------------- MODULE RigLifecycle -----------------------------
(***************************************************************************)
(* One rig from the create to its confirmed absence, and every larri       *)
(* process that may touch it: the owner that rents, serves, supervises and *)
(* ends it (daemon.UpAndServe, Serve, Supervise, Down), `larri down` from  *)
(* other terminals, `larri resume` (Adopt), and `larri orphans --destroy`  *)
(* (SweepOrphans).  They share the store's snapshot, its journal and the   *)
(* rig's hold; behind them a provider creates late, fails, stops and loses *)
(* instances.  A process dies between any two steps.                       *)
(*                                                                         *)
(* A store call is one step here: RigStore shows it is one to its readers. *)
(* Its guard is Refused.  What the host does during a bring-up is one      *)
(* phase each: it succeeds, and its store write follows, or it fails.      *)
(***************************************************************************)
EXTENDS Lifecycle

CONSTANTS
  Owner,        \* the larri up process
  Downers,      \* larri down
  Resumers,     \* larri resume
  Sweepers,     \* larri orphans --destroy
  Nobody,       \* the hold's holder when it is free
  LateGateway   \* a create answered 5xx or 429 may still land afterwards

Others == Downers \cup Resumers \cup Sweepers
Proc == {Owner} \cup Others

ASSUME RoleAssumption ==
  /\ Owner \notin Others /\ Nobody \notin Proc
  /\ Downers \cap Resumers = {} /\ Downers \cap Sweepers = {}
  /\ Resumers \cap Sweepers = {}
ASSUME GatewayAssumption == LateGateway \in BOOLEAN

VARIABLES
  inst,      \* the instance carrying the rig's label, at the provider
  request,   \* the create call, as the provider sees it
  snap,      \* the rig's snapshot in the store
  intended,  \* the journal holds the create intent
  hold,      \* who holds the rig (Store.Hold)
  pc,        \* what each process does next
  copy,      \* each process's *core.Rig
  cause,     \* why the owner's create failed
  again      \* the owner is in the first of two teardowns of a failed create

vars == <<inst, request, snap, intended, hold, pc, copy, cause, again>>
store == <<snap, intended>>
provider == <<inst, request>>
owner == <<cause, again>>

Billing == {"running", "stopped"}   \* a stopped instance bills its storage

\* known: rig.Instance # nil.  end: the evidence in rig.End, if any - the
\* instance confirmed absent, or nothing ever created.
Evidence == {"none", "absent", "nothing"}
Rig == [state : LifecycleState, known : BOOLEAN, end : Evidence]
NoRig == [state |-> "IDLE", known |-> FALSE, end |-> "none"]
Selected == [NoRig EXCEPT !.state = "SELECTED"]

Phases == {"boot", "pin", "verify", "launch"}
Serving == {"serving"}
Teardown == {"down", "drain", "list", "destroy", "confirm", "record"}
Place == {"new", "intent", "create", "creating", "failed", "resolve", "never",
          "provisioned", "over", "idle", "take", "ask", "reconnect", "read",
          "reap", "kill", "proof", "reload", "reaped"}
         \cup Phases \cup Serving \cup Teardown

TypeOK ==
  /\ inst \in {"none", "gone"} \cup Billing
  /\ request \in {"none", "inflight", "landed", "refused"}
  /\ snap \in Rig
  /\ intended \in BOOLEAN
  /\ hold \in Proc \cup {Nobody}
  /\ pc \in [Proc -> Place]
  /\ copy \in [Proc -> Rig]
  /\ cause \in {"none", "notsent", "refused", "transient", "unknown"}
  /\ again \in BOOLEAN

Init ==
  /\ inst = "none" /\ request = "none"
  /\ snap = NoRig /\ intended = FALSE
  /\ hold = Nobody
  /\ pc = [p \in Proc |-> IF p = Owner THEN "new" ELSE "idle"]
  /\ copy = [p \in Proc |-> NoRig]
  /\ cause = "none" /\ again = FALSE

-----------------------------------------------------------------------------
(* Steps shared by the commands                                            *)

\* Process p was at `from` and goes on to `to`.
Moves(p, from, to) ==
  /\ pc[p] = from
  /\ pc' = [pc EXCEPT ![p] = to]

\* guardDestroyed: DESTROYED is written over only by one who knew of it.
Refused(p, to) ==
  /\ snap.state = "DESTROYED"
  /\ ~(to = "DESTROYED" /\ copy[p].state = "DESTROYED")

\* A Transition or Save of r that the guard let through.
Writes(p, r) ==
  /\ ~Refused(p, r.state)
  /\ snap' = r

Holds(p, r) == copy' = [copy EXCEPT ![p] = r]

\* The command ends, and with it the process's hold on the rig.
Leaves(p) ==
  /\ pc' = [pc EXCEPT ![p] = IF p = Owner THEN "over" ELSE "idle"]
  /\ hold' = IF hold = p THEN Nobody ELSE hold
  /\ Holds(p, NoRig)

\* Provider.Destroy: a nil error is a claim.  It may have removed the
\* instance, only stopped it, or done nothing.
DestroyCall ==
  /\ inst' \in {inst, "gone"} \cup (IF inst = "running" THEN {"stopped"} ELSE {})
  /\ UNCHANGED request

-----------------------------------------------------------------------------
(* Up: hold, save, intent, create                                          *)

Select ==
  /\ Moves(Owner, "new", "intent")
  /\ hold' = Owner
  /\ Writes(Owner, Selected) /\ Holds(Owner, Selected)
  /\ UNCHANGED <<provider, intended, owner>>

\* Mutant of Intend: the create goes out without its intent.
IntendSkipped ==
  /\ Moves(Owner, "intent", "create")
  /\ Holds(Owner, [copy[Owner] EXCEPT !.state = "CREATING"])
  /\ UNCHANGED <<provider, snap, intended, hold, owner>>

\* The journal knows of the create before the provider does; the snapshot
\* still says SELECTED.
Intend ==
  /\ Moves(Owner, "intent", "create")
  /\ intended' = TRUE
  /\ Holds(Owner, [copy[Owner] EXCEPT !.state = "CREATING"])
  /\ UNCHANGED <<provider, snap, hold, owner>>

IntendFails ==
  /\ pc[Owner] = "intent" /\ Leaves(Owner)
  /\ UNCHANGED <<provider, store, owner>>

SendCreate ==
  /\ Moves(Owner, "create", "creating")
  /\ request' = "inflight"
  /\ UNCHANGED <<inst, store, hold, copy, owner>>

CreateFails(c) ==
  /\ cause' = c
  /\ UNCHANGED <<provider, store, hold, copy, again>>

NotSent == Moves(Owner, "create", "failed") /\ CreateFails("notsent")

CreateReturns ==
  /\ Moves(Owner, "creating", "provisioned")
  /\ request = "landed"
  /\ Holds(Owner, [copy[Owner] EXCEPT !.known = TRUE])
  /\ UNCHANGED <<provider, store, hold, owner>>

\* A refusal (4xx) is the provider's last word; a lost answer (a transport
\* error or a timeout on a mutation) says nothing; a 5xx or 429 is taken to
\* be settled, which it is unless a gateway spoke for a create still running.
CreateErrs ==
  /\ Moves(Owner, "creating", "failed")
  /\ \/ request = "refused" /\ CreateFails("refused")
     \/ (LateGateway \/ request # "inflight") /\ CreateFails("transient")
     \/ CreateFails("unknown")

-----------------------------------------------------------------------------
(* resolveFailedCreate                                                     *)

\* A refused or failed write here is only warned about.
JournalFailed ==
  /\ Moves(Owner, "failed", IF cause = "notsent" THEN "never" ELSE "resolve")
  /\ LET r == [copy[Owner] EXCEPT !.state = "FAILED"] IN
       \/ Writes(Owner, r) /\ Holds(Owner, r)
       \/ UNCHANGED <<snap, copy>>
  /\ UNCHANGED <<provider, intended, hold, owner>>

ResolveUnreachable ==
  /\ pc[Owner] = "resolve" /\ Leaves(Owner)
  /\ UNCHANGED <<provider, store, owner>>

\* The create landed after all: torn down here, and once more by UpAndServe.
ResolveFound ==
  /\ Moves(Owner, "resolve", "down")
  /\ inst \in Billing
  /\ Holds(Owner, [copy[Owner] EXCEPT !.known = TRUE])
  /\ again' = TRUE
  /\ UNCHANGED <<provider, store, hold, cause>>

\* Mutant of ResolveAbsent: one empty listing settles a lost answer too.
ResolveAbsentAlways ==
  /\ Moves(Owner, "resolve", "never")
  /\ inst \notin Billing
  /\ UNCHANGED <<provider, store, hold, copy, owner>>

\* Nothing is listed: the rig stays FAILED if the answer was lost, and is
\* closed otherwise.
ResolveAbsent ==
  /\ pc[Owner] = "resolve" /\ inst \notin Billing
  /\ IF cause = "unknown" THEN Leaves(Owner)
     ELSE Moves(Owner, "resolve", "never") /\ UNCHANGED <<hold, copy>>
  /\ UNCHANGED <<provider, store, owner>>

CloseNeverCreated ==
  /\ pc[Owner] = "never" /\ Leaves(Owner)
  /\ \/ Writes(Owner, [copy[Owner] EXCEPT !.state = "DESTROYED",
                                          !.end = "nothing"])
     \/ UNCHANGED snap
  /\ UNCHANGED <<provider, intended, owner>>

-----------------------------------------------------------------------------
(* Serve                                                                   *)

PhaseAfter == [boot |-> "pin", pin |-> "verify", verify |-> "launch",
               launch |-> "serving"]
\* boot and pin Save what they learned; verify and launch Transition.
PhaseState == [boot |-> "PROVISIONED", pin |-> "PROVISIONED",
               verify |-> "BOOTSTRAPPING", launch |-> "READY"]

\* An instance in hand and the record refused, or the write failed: torn down.
RecordProvisioned ==
  /\ LET r == [copy[Owner] EXCEPT !.state = "PROVISIONED"] IN
       \/ /\ Moves(Owner, "provisioned", "boot")
          /\ Writes(Owner, r) /\ Holds(Owner, r)
       \/ /\ Moves(Owner, "provisioned", "down")
          /\ UNCHANGED <<snap, copy>>
  /\ UNCHANGED <<provider, intended, hold, owner>>

\* A Save's failure other than the guard's is ignored.
ServePhase ==
  /\ pc[Owner] \in Phases /\ inst = "running"
  /\ LET r == [copy[Owner] EXCEPT !.state = PhaseState[pc[Owner]]] IN
       \/ Writes(Owner, r) /\ Holds(Owner, r)
       \/ /\ pc[Owner] \in {"boot", "pin"} /\ snap.state # "DESTROYED"
          /\ UNCHANGED <<snap, copy>>
  /\ pc' = [pc EXCEPT ![Owner] = PhaseAfter[pc[Owner]]]
  /\ UNCHANGED <<provider, intended, hold, owner>>

\* Mutant of PhaseFails: a host that never comes up is waited for, unbounded.
PhaseFailsNever == FALSE /\ UNCHANGED vars

\* A stall, the attempt's deadline, an interrupt, a refused write: UpAndServe
\* tears the rig down, still holding it (EndServing).
PhaseFails ==
  /\ pc[Owner] \in Phases
  /\ pc' = [pc EXCEPT ![Owner] = "down"]
  /\ UNCHANGED <<provider, store, hold, copy, owner>>

-----------------------------------------------------------------------------
(* Supervise, by whoever serves the rig, and its caller                    *)

\* Mutant of EndServing: the hold goes when the tunnel does.
EndServingReleased(p) ==
  /\ Moves(p, "serving", "down")
  /\ hold' = Nobody

\* The tunnel closes and the teardown begins; the hold is kept for it.
EndServing(p) ==
  /\ Moves(p, "serving", "down")
  /\ UNCHANGED hold

\* Mutant of EndedElsewhere: the loop never looks at the store.
EndedElsewhereUnseen(p) ==
  /\ snap.state = "DESTROYED" /\ pc[p] = "serving" /\ FALSE
  /\ UNCHANGED vars

EndedElsewhere(p) ==
  /\ snap.state = "DESTROYED"
  /\ EndServing(p) /\ Holds(p, snap)
  /\ UNCHANGED <<provider, store, owner>>

\* The budget, the idle window, an instance found gone, an interrupt of the
\* owner or of a detached holder.
SuperviseEnds(p) ==
  /\ EndServing(p)
  /\ UNCHANGED <<provider, store, copy, owner>>

\* A foreground larri resume interrupted leaves the rig running.
ResumeInterrupted(p) ==
  /\ p \in Resumers /\ pc[p] = "serving" /\ Leaves(p)
  /\ UNCHANGED <<provider, store, owner>>

\* Three failed probes, and a recovery; their writes are not checked.
Health(p) ==
  /\ pc[p] = "serving"
  /\ \E s \in {"DEGRADED", "READY"} :
       /\ s = "READY" => copy[p].state = "DEGRADED"
       /\ LET r == [copy[p] EXCEPT !.state = s] IN Writes(p, r) /\ Holds(p, r)
  /\ UNCHANGED <<provider, intended, hold, pc, owner>>

-----------------------------------------------------------------------------
(* Down                                                                    *)

\* Down returns with r in hand.  A failed create's rig has another teardown
\* coming, and its hold is dropped in between.
DownReturns(p, r) ==
  IF p = Owner /\ again
  THEN /\ pc' = [pc EXCEPT ![p] = "down"]
       /\ hold' = IF hold = p THEN Nobody ELSE hold
       /\ again' = FALSE
       /\ Holds(p, r)
       /\ UNCHANGED cause
  ELSE Leaves(p) /\ UNCHANGED owner

\* larri down loads the rig, unless it is over already.
DownLoad(p) ==
  /\ p \in Downers /\ Moves(p, "idle", "down")
  /\ snap.state \notin {"IDLE", "DESTROYED"}
  /\ Holds(p, snap)
  /\ UNCHANGED <<provider, store, hold, owner>>

DownAlready(p) ==
  /\ pc[p] = "down"
  /\ copy[p].state = "DESTROYED" \/ snap.state = "DESTROYED"
  /\ DownReturns(p, IF copy[p].state = "DESTROYED" THEN copy[p] ELSE snap)
  /\ UNCHANGED <<provider, store>>

DownBegins(p) ==
  /\ Moves(p, "down", "drain")
  /\ copy[p].state # "DESTROYED" /\ snap.state # "DESTROYED"
  /\ UNCHANGED <<provider, store, hold, copy, owner>>

\* The intent is journalled; the snapshot is left as it is.
DownIntent(p) ==
  /\ Moves(p, "drain", IF copy[p].known THEN "destroy" ELSE "list")
  /\ Holds(p, [copy[p] EXCEPT !.state = "DRAINING"])
  /\ UNCHANGED <<provider, store, hold, owner>>

\* The copy knows of no instance: the provider is asked for its label.
DownListed(p) ==
  /\ inst \in Billing
  /\ Moves(p, "list", "destroy")
  /\ Holds(p, [copy[p] EXCEPT !.known = TRUE])
  /\ UNCHANGED <<provider, store, hold, owner>>

DownUnlisted(p) ==
  /\ inst \notin Billing
  /\ Moves(p, "list", "record")
  /\ Holds(p, [copy[p] EXCEPT !.end = "nothing"])
  /\ UNCHANGED <<provider, store, hold, owner>>

DownDestroy(p) ==
  /\ Moves(p, "destroy", "confirm")
  /\ DestroyCall
  /\ UNCHANGED <<store, hold, copy, owner>>

\* Mutant of DownConfirm: a destroy that returned is taken for absence.
DownConfirmClaimed(p) ==
  /\ Moves(p, "confirm", "record")
  /\ Holds(p, [copy[p] EXCEPT !.end = "absent"])
  /\ UNCHANGED <<provider, store, hold, owner>>

\* confirmAbsent: only a clean "not found" counts.
DownConfirm(p) ==
  /\ Moves(p, "confirm", "record")
  /\ inst = "gone"
  /\ Holds(p, [copy[p] EXCEPT !.end = "absent"])
  /\ UNCHANGED <<provider, store, hold, owner>>

\* The journal cannot be written, the provider does not answer, or ninety
\* seconds pass without proof of absence.
DownFails(p) ==
  /\ pc[p] \in {"drain", "list", "confirm"}
  /\ DownReturns(p, copy[p])
  /\ UNCHANGED <<provider, store>>

\* recordEnd: another teardown's record stands, and is adopted.
DownRecord(p) ==
  /\ pc[p] = "record"
  /\ LET r == [copy[p] EXCEPT !.state = "DESTROYED"] IN
       \/ Writes(p, r) /\ DownReturns(p, r)
       \/ /\ Refused(p, "DESTROYED") /\ DownReturns(p, snap)
          /\ UNCHANGED snap
       \/ /\ \E c \in {copy[p], r} : DownReturns(p, c)  \* the write failed,
          /\ UNCHANGED snap                             \* its entry or not
  /\ UNCHANGED <<provider, intended>>

-----------------------------------------------------------------------------
(* Adopt                                                                   *)

\* resumeTarget picks a billing rig; Adopt refuses one without an instance.
AdoptLoad(p) ==
  /\ p \in Resumers /\ Moves(p, "idle", "take")
  /\ Billable(snap.state) /\ snap.known
  /\ Holds(p, snap)
  /\ UNCHANGED <<provider, store, hold, owner>>

AdoptHold(p) ==
  /\ IF hold = Nobody
     THEN Moves(p, "take", "ask") /\ hold' = p /\ UNCHANGED copy
     ELSE pc[p] = "take" /\ Leaves(p)
  /\ UNCHANGED <<provider, store, owner>>

\* What the provider answers is written down before anything is rebuilt; a
\* write refused or failed is ignored.
AdoptFinds(p, answer, r) ==
  /\ pc[p] = "ask" /\ inst = answer
  /\ Writes(p, r) \/ UNCHANGED snap
  /\ UNCHANGED <<provider, intended, owner>>

AdoptGone(p) ==
  /\ AdoptFinds(p, "gone", [copy[p] EXCEPT !.state = "DESTROYED", !.end = "absent"])
  /\ Leaves(p)

AdoptStopped(p) ==
  /\ AdoptFinds(p, "stopped", [copy[p] EXCEPT !.state = "STOPPED"])
  /\ Leaves(p)

AdoptRunning(p) ==
  /\ AdoptFinds(p, "running", copy[p])
  /\ Moves(p, "ask", "reconnect")
  /\ UNCHANGED <<hold, copy>>

\* The provider does not answer, the host's key is not the recorded one, no
\* server runs, no completion comes back, READY is refused.
AdoptFails(p) ==
  /\ pc[p] \in {"ask", "reconnect"} /\ Leaves(p)
  /\ UNCHANGED <<provider, store, owner>>

AdoptReady(p) ==
  /\ Moves(p, "reconnect", "serving")
  /\ inst = "running"
  /\ LET r == [copy[p] EXCEPT !.state = "READY"] IN Writes(p, r) /\ Holds(p, r)
  /\ UNCHANGED <<provider, intended, hold, owner>>

-----------------------------------------------------------------------------
(* SweepOrphans                                                            *)

\* The provider's inventory first ...
SweepList(p) ==
  /\ p \in Sweepers /\ Moves(p, "idle", "read")
  /\ inst \in Billing
  /\ UNCHANGED <<provider, store, hold, copy, owner>>

\* Mutant of SweepRead: a tracked rig is listed as an orphan.
SweepReadTracked(p) ==
  /\ Moves(p, "read", "reap")
  /\ Holds(p, snap)
  /\ UNCHANGED <<provider, store, hold, owner>>

\* ... then the store: a rig in a state that expects an instance is skipped.
SweepRead(p) ==
  /\ IF ExpectsInstance(snap.state)
     THEN pc[p] = "read" /\ Leaves(p)
     ELSE Moves(p, "read", "reap") /\ Holds(p, snap) /\ UNCHANGED hold
  /\ UNCHANGED <<provider, store, owner>>

\* Store.List fails when any snapshot cannot be read, and its error is
\* ignored: no rig is known, and whatever is labelled is an orphan.
SweepReadFails(p) ==
  /\ Moves(p, "read", "reap")
  /\ Holds(p, NoRig)
  /\ UNCHANGED <<provider, store, hold, owner>>

SweepGet(p) ==
  /\ Moves(p, "reap", "kill")
  /\ inst \in Billing
  /\ UNCHANGED <<provider, store, hold, copy, owner>>

SweepDestroy(p) ==
  /\ Moves(p, "kill", "proof")
  /\ DestroyCall
  /\ UNCHANGED <<store, hold, copy, owner>>

SweepConfirm(p) ==
  /\ Moves(p, "proof", "reload")
  /\ inst = "gone"
  /\ UNCHANGED <<provider, store, hold, copy, owner>>

\* The provider does not answer, or no absence is seen; at "reload" the rig
\* cannot be loaded.
SweepGivesUp(p) ==
  /\ pc[p] \in {"reap", "proof", "reload"} /\ Leaves(p)
  /\ UNCHANGED <<provider, store, owner>>

\* recordReaped loads a rig that was known and ends it.
SweepReload(p) ==
  /\ Moves(p, "reload", "reaped")
  /\ copy[p] # NoRig
  /\ Holds(p, snap)
  /\ UNCHANGED <<provider, store, hold, owner>>

SweepRecord(p) ==
  /\ pc[p] = "reaped" /\ Leaves(p)
  /\ LET r == [copy[p] EXCEPT !.state = "DESTROYED", !.end = "absent"] IN
       Writes(p, r) \/ UNCHANGED snap
  /\ UNCHANGED <<provider, intended, owner>>

-----------------------------------------------------------------------------
(* The provider, and crashes                                               *)

CreateLands ==
  /\ request = "inflight"
  /\ request' = "landed" /\ inst' = "running"
  /\ UNCHANGED <<store, hold, pc, copy, owner>>

CreateRefused ==
  /\ request = "inflight"
  /\ request' = "refused"
  /\ UNCHANGED <<inst, store, hold, pc, copy, owner>>

\* An instance is stopped, or lost, without anyone here asking.
InstanceFails ==
  /\ \/ inst = "running" /\ inst' = "stopped"
     \/ inst \in Billing /\ inst' = "gone"
  /\ UNCHANGED <<request, store, hold, pc, copy, owner>>

Crash(p) ==
  /\ pc[p] \notin {"new", "over", "idle"} /\ Leaves(p)
  /\ UNCHANGED <<provider, store, owner>>

-----------------------------------------------------------------------------

\* What a running process does by itself, each step of it bounded in time.
BringUp ==
  \/ Intend \/ IntendFails \/ SendCreate \/ NotSent
  \/ CreateReturns \/ CreateErrs \/ JournalFailed
  \/ ResolveUnreachable \/ ResolveFound \/ ResolveAbsent \/ CloseNeverCreated
  \/ RecordProvisioned \/ ServePhase \/ PhaseFails

Down(p) ==
  \/ DownAlready(p) \/ DownBegins(p) \/ DownIntent(p) \/ DownListed(p)
  \/ DownUnlisted(p) \/ DownDestroy(p) \/ DownConfirm(p) \/ DownFails(p)
  \/ DownRecord(p)

Adopt(p) ==
  \/ AdoptHold(p) \/ AdoptGone(p) \/ AdoptStopped(p) \/ AdoptRunning(p)
  \/ AdoptFails(p) \/ AdoptReady(p)

Sweep(p) ==
  \/ SweepRead(p) \/ SweepReadFails(p) \/ SweepGet(p) \/ SweepDestroy(p)
  \/ SweepConfirm(p) \/ SweepGivesUp(p) \/ SweepReload(p) \/ SweepRecord(p)

Works(p) ==
  \/ p = Owner /\ BringUp
  \/ Down(p) \/ Adopt(p) \/ Sweep(p) \/ EndedElsewhere(p)

\* What waits on an operator, a policy or the model's answers.
Chooses(p) ==
  \/ SuperviseEnds(p) \/ ResumeInterrupted(p) \/ Health(p)
  \/ DownLoad(p) \/ AdoptLoad(p) \/ SweepList(p)

Next ==
  \/ Select
  \/ \E p \in Proc : Works(p) \/ Chooses(p) \/ Crash(p)
  \/ CreateLands \/ CreateRefused \/ InstanceFails

Spec == Init /\ [][Next]_vars

\* A live process is scheduled, and its waits all have deadlines.
FairSpec == Spec /\ \A p \in Proc : WF_vars(Works(p))

-----------------------------------------------------------------------------
(* Correctness                                                             *)

\* FR-PROV-01: whatever the provider was asked to create, the journal holds
\* the intent of it and a snapshot the rig's name, through any crash.
SpendIsOnRecord == request # "none" => intended /\ snap.state # "IDLE"

\* An ending recorded on confirmed absence is true: however many teardowns,
\* sweeps and adoptions race, the instance is gone, and never only stopped.
ConfirmedEndIsReal == snap.end = "absent" => inst = "gone"

\* An ending recorded as "nothing was created" is true, and stays so.
NothingCreatedIsTrue ==
  snap.end = "nothing" => inst \notin Billing /\ request # "inflight"

\* One larri process per rig: from Up's hold to the end of the teardown its
\* server runs, nobody else brings it up, reconnects to it or serves it.
\* (The second teardown of a failed create is the exception: dropUpHold.)
Engaged(p) ==
  \/ p = Owner /\ pc[p] \in {"intent", "create", "creating", "failed", "resolve",
                             "never", "provisioned"} \cup Phases
  \/ p = Owner /\ pc[p] \in Teardown /\ (cause = "none" \/ again)
  \/ pc[p] \in {"ask", "reconnect", "serving"}
  \/ p \in Resumers /\ pc[p] \in Teardown
NoRivalServer == \A p, q \in Proc : Engaged(p) /\ Engaged(q) => p = q

\* Why those three hold, for every number of processes: the inductive
\* invariant.  Nothing is asked of the provider before the intent, and nobody
\* has anything to act on before the owner selects an offer; whoever is engaged
\* took the hold and has not given it back; a second teardown belongs to a
\* failed create; the provider's instance is the one create's, so an instance
\* that is gone stays gone; and evidence of absence is only ever carried while
\* that is so.
NewInv ==
  /\ pc[Owner] \in {"new", "intent", "create"} => request = "none"
  /\ pc[Owner] = "new" => snap = NoRig /\ \A p \in Others : pc[p] = "idle"
  /\ pc[Owner] \in {"failed", "resolve", "never"} \/ again => cause # "none"

HoldInv == \A p \in Proc : Engaged(p) => hold = p

SpendInv ==
  /\ pc[Owner] \in {"create", "creating"} => intended
  /\ pc[Owner] \in {"intent", "create", "creating"} => snap.state # "IDLE"
  /\ \A p \in Proc : pc[p] \in {"take", "ask"} => copy[p].state # "IDLE"
  /\ SpendIsOnRecord

ProviderInv ==
  /\ inst # "none" <=> request = "landed"
  /\ snap.known => inst # "none"
  /\ \A p \in Proc :
       copy[p].known \/ pc[p] \in {"destroy", "read", "reap", "kill"} =>
         inst # "none"

AbsentInv ==
  /\ ConfirmedEndIsReal
  /\ \A p \in Proc :
       copy[p].end = "absent" \/ pc[p] \in {"reload", "reaped"} => inst = "gone"

LifecycleInv ==
  TypeOK /\ NewInv /\ HoldInv /\ SpendInv /\ ProviderInv /\ AbsentInv

\* However stale what a sweep read has become, it destroys the instance of a
\* rig that is coming up or serving only if it read the snapshot while it
\* still said SELECTED, or could read no snapshot: then it takes every rig.
SweepKillsOnlySelected ==
  [][\A w \in Sweepers, p \in Proc :
       pc[w] = "kill" /\ pc'[w] = "proof" /\ snap.state # "DESTROYED"
         /\ pc[p] \in Phases \cup Serving
       => copy[w].state = "SELECTED" \/ copy[w] = NoRig]_vars

\* Orphans skips the current rig: a live bring-up it "offered to destroy" is
\* the bug its comment tells of.  It still does, when it read the store too
\* early or not at all.
SweepSparesLiveBringUp ==
  [][\A w \in Sweepers :
       pc[w] = "kill" /\ pc'[w] = "proof" =>
         pc[Owner] \notin {"creating", "provisioned"} \cup Phases]_vars

\* FR-PROV-04: a bring-up ends, serving or given up, whatever the host does.
BringUpSettles ==
  pc[Owner] = "creating" ~> pc[Owner] \in {"serving", "over"}

\* A rig ended from another terminal is let go of by whoever brings it up,
\* serves it or reconnects to it.
EndedRigReleased == snap.state = "DESTROYED" ~> hold = Nobody

=============================================================================
