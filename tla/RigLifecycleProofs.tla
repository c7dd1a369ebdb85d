-------------------------- MODULE RigLifecycleProofs --------------------------
(***************************************************************************)
(* LifecycleInv is inductive for any number of processes in each role, and *)
(* what it says of spending, of confirmed absence and of rival servers     *)
(* holds for all of them.  One lemma per conjunct, one step per command.   *)
(* On it rest two more invariants: what a sweep may have read when it      *)
(* destroys (SweepInv), and when "nothing was created" is true             *)
(* (NothingInv).                                                           *)
(***************************************************************************)
EXTENDS RigLifecycle, TLAPS

\* The steps of the system, command by command.
LEMMA StepCases ==
  ASSUME Next
  PROVE  \/ Select \/ BringUp
         \/ \E p \in Proc : Down(p) \/ Adopt(p) \/ Sweep(p) \/ Crash(p)
         \/ \E p \in Proc : EndedElsewhere(p) \/ Chooses(p)
         \/ CreateLands \/ CreateRefused \/ InstanceFails
BY DEF Next, Works

\* Field by field, what changing a rig record does to it.
LEMMA RigFields ==
  \A r \in Rig :
    /\ [r EXCEPT !.known = TRUE] \in Rig
    /\ [r EXCEPT !.known = TRUE].state = r.state
    /\ [r EXCEPT !.known = TRUE].end = r.end
    /\ \A s \in LifecycleState :
         /\ [r EXCEPT !.state = s] \in Rig
         /\ [r EXCEPT !.state = s].state = s
         /\ [r EXCEPT !.state = s].known = r.known
         /\ [r EXCEPT !.state = s].end = r.end
    /\ \A e \in Evidence :
         /\ [r EXCEPT !.end = e] \in Rig
         /\ [r EXCEPT !.end = e].state = r.state
         /\ [r EXCEPT !.end = e].known = r.known
         /\ [r EXCEPT !.end = e].end = e
    /\ \A s \in LifecycleState, e \in Evidence :
         /\ [r EXCEPT !.state = s, !.end = e] \in Rig
         /\ [r EXCEPT !.state = s, !.end = e].state = s
         /\ [r EXCEPT !.state = s, !.end = e].known = r.known
         /\ [r EXCEPT !.state = s, !.end = e].end = e
BY DEF Rig

\* The records a process starts from.
LEMMA RigStarts ==
  /\ NoRig \in Rig /\ Selected \in Rig
  /\ NoRig.state = "IDLE" /\ Selected.state = "SELECTED"
  /\ ~NoRig.known /\ ~Selected.known
  /\ NoRig.end = "none" /\ Selected.end = "none"
BY DEF Rig, NoRig, Selected, LifecycleState, Evidence

\* The names the actions use are states, evidence and places.
LEMMA Names ==
  /\ {"SELECTED", "CREATING", "PROVISIONED", "BOOTSTRAPPING", "READY", "DEGRADED",
      "STOPPED", "DRAINING", "DESTROYED", "FAILED"} \subseteq LifecycleState
  /\ {"none", "absent", "nothing"} \subseteq Evidence
  /\ \A x \in Phases : /\ PhaseState[x] \in LifecycleState
                       /\ PhaseAfter[x] \in Phases \cup Serving
                       /\ PhaseState[x] # "IDLE"
BY DEF LifecycleState, Evidence, PhaseState, PhaseAfter, Phases, Serving

-----------------------------------------------------------------------------

LEMMA TypeStep == TypeOK /\ [Next]_vars => TypeOK'
<1> SUFFICES ASSUME TypeOK, [Next]_vars PROVE TypeOK'
  OBVIOUS
<1> USE RigStarts, Names
    DEF TypeOK, provider, store, owner
<1>o. /\ Owner \in Proc /\ \A p \in Proc : copy[p] \in Rig
  BY DEF Proc
<1>m. ASSUME NEW p \in Proc, NEW from, NEW to, Moves(p, from, to), to \in Place
      PROVE  pc' \in [Proc -> Place]
  BY <1>m DEF Moves
<1>h. ASSUME NEW p \in Proc, NEW r \in Rig, Holds(p, r) PROVE copy' \in [Proc -> Rig]
  BY <1>h DEF Holds
<1>p. /\ {"new", "intent", "create", "creating", "failed", "resolve", "never",
          "provisioned", "over", "idle", "take", "ask", "reconnect", "read",
          "reap", "kill", "proof", "reload", "reaped"} \subseteq Place
      /\ {"boot", "down", "drain", "list", "destroy", "confirm", "record"} \subseteq Place
      /\ Phases \cup Serving \subseteq Place
  BY DEF Place, Phases, Teardown
<1>e. \A p \in Proc :
        /\ [copy[p] EXCEPT !.known = TRUE] \in Rig
        /\ \A s \in LifecycleState : [copy[p] EXCEPT !.state = s] \in Rig
        /\ \A e \in Evidence : [copy[p] EXCEPT !.end = e] \in Rig
        /\ \A s \in LifecycleState, e \in Evidence :
             [copy[p] EXCEPT !.state = s, !.end = e] \in Rig
  BY <1>o, RigFields
<1>l. ASSUME NEW p \in Proc, Leaves(p)
      PROVE  /\ pc' \in [Proc -> Place] /\ copy' \in [Proc -> Rig]
             /\ hold' \in Proc \cup {Nobody}
  BY <1>l, <1>o, <1>p, <1>h DEF Leaves
<1>r. ASSUME NEW p \in Proc, NEW r \in Rig, DownReturns(p, r)
      PROVE  /\ pc' \in [Proc -> Place] /\ copy' \in [Proc -> Rig]
             /\ hold' \in Proc \cup {Nobody} /\ again' \in BOOLEAN
             /\ UNCHANGED cause
  <2>1. CASE p = Owner /\ again
    BY <1>r, <1>o, <1>p, <1>h, <2>1 DEF DownReturns
  <2>2. CASE ~(p = Owner /\ again)
    BY <1>l, <1>r, <2>2 DEF DownReturns
  <2>3. QED
    BY <2>1, <2>2
<1>w. ASSUME NEW p \in Proc, NEW r \in Rig, Writes(p, r) PROVE snap' \in Rig
  BY <1>w DEF Writes
<1>d. DestroyCall => inst' \in {"none", "gone"} \cup Billing /\ UNCHANGED request
  BY DEF DestroyCall, Billing
<1> USE <1>o, <1>p, <1>m, <1>h
<1>1. CASE Select
  BY <1>1, <1>w DEF Select
<1>2. CASE BringUp
  <2>1. CASE Intend
    BY <2>1, <1>e DEF Intend
  <2>2. CASE IntendFails
    BY <2>2, <1>e, <1>l DEF IntendFails
  <2>3. CASE SendCreate
    BY <2>3, <1>e DEF SendCreate
  <2>4. CASE NotSent
    BY <2>4, <1>e DEF NotSent, CreateFails
  <2>5. CASE CreateReturns
    BY <2>5, <1>e DEF CreateReturns
  <2>6. CASE CreateErrs
    BY <2>6, <1>e DEF CreateErrs, CreateFails
  <2>7. CASE JournalFailed
    <3>1. snap' \in Rig /\ copy' \in [Proc -> Rig]
      BY <2>7, <1>e, <1>w DEF JournalFailed
    <3>2. pc' \in [Proc -> Place]
      BY <2>7 DEF JournalFailed
    <3>3. QED
      BY <2>7, <3>1, <3>2 DEF JournalFailed
  <2>8. CASE ResolveUnreachable
    BY <2>8, <1>e, <1>l DEF ResolveUnreachable, Billing
  <2>9. CASE ResolveFound
    BY <2>9, <1>e DEF ResolveFound
  <2>10. CASE ResolveAbsent
    BY <2>10, <1>e, <1>l DEF ResolveAbsent, Billing
  <2>11. CASE CloseNeverCreated
    <3>1. snap' \in Rig
      BY <2>11, <1>e, <1>w DEF CloseNeverCreated
    <3>2. QED
      BY <2>11, <3>1, <1>l DEF CloseNeverCreated
  <2>12. CASE RecordProvisioned
    <3>1. snap' \in Rig /\ copy' \in [Proc -> Rig]
      BY <2>12, <1>e, <1>w DEF RecordProvisioned
    <3>2. pc' \in [Proc -> Place]
      BY <2>12 DEF RecordProvisioned, Phases
    <3>3. QED
      BY <2>12, <3>1, <3>2 DEF RecordProvisioned
  <2>13. CASE ServePhase
    <3>1. snap' \in Rig /\ copy' \in [Proc -> Rig]
      <4>1. [copy[Owner] EXCEPT !.state = PhaseState[pc[Owner]]] \in Rig
        BY <2>13, <1>e DEF ServePhase
      <4> DEFINE r == [copy[Owner] EXCEPT !.state = PhaseState[pc[Owner]]]
      <4>2. \/ Writes(Owner, r) /\ Holds(Owner, r)
            \/ UNCHANGED <<snap, copy>>
        BY <2>13 DEF ServePhase
      <4> HIDE DEF r
      <4>3. QED
        BY <4>1, <4>2, <1>w DEF r
    <3>2. pc' \in [Proc -> Place]
      BY <2>13 DEF ServePhase
    <3>3. QED
      BY <2>13, <3>1, <3>2 DEF ServePhase
  <2>14. CASE PhaseFails
    BY <2>14 DEF PhaseFails
  <2>15. QED
    BY <1>2, <2>1, <2>2, <2>3, <2>4, <2>5, <2>6, <2>7, <2>8, <2>9, <2>10, <2>11, <2>12, <2>13, <2>14 DEF BringUp
<1>3. ASSUME NEW p \in Proc, Down(p) PROVE TypeOK'
  <2>1. CASE DownAlready(p)
    BY <2>1, <1>e, <1>r DEF DownAlready
  <2>2. CASE DownBegins(p)
    BY <2>2, <1>e DEF DownBegins
  <2>3. CASE DownIntent(p)
    BY <2>3, <1>e DEF DownIntent
  <2>4. CASE DownListed(p)
    BY <2>4, <1>e DEF DownListed
  <2>5. CASE DownUnlisted(p)
    BY <2>5, <1>e DEF DownUnlisted
  <2>6. CASE DownDestroy(p)
    BY <2>6, <1>e, <1>d DEF DownDestroy
  <2>7. CASE DownConfirm(p)
    BY <2>7, <1>e DEF DownConfirm
  <2>8. CASE DownFails(p)
    BY <2>8, <1>e, <1>r DEF DownFails
  <2>9. CASE DownRecord(p)
    BY <2>9, <1>e, <1>r, <1>w DEF DownRecord
  <2>10. QED
    BY <1>3, <2>1, <2>2, <2>3, <2>4, <2>5, <2>6, <2>7, <2>8, <2>9 DEF Down
<1>4. ASSUME NEW p \in Proc, Adopt(p) PROVE TypeOK'
  <2>1. CASE AdoptHold(p)
    BY <2>1, <1>e, <1>l DEF AdoptHold
  <2>2. CASE AdoptGone(p)
    <3>1. snap' \in Rig
      BY <2>2, <1>e, <1>w DEF AdoptGone, AdoptFinds
    <3>2. QED
      BY <2>2, <3>1, <1>l DEF AdoptGone, AdoptFinds
  <2>3. CASE AdoptStopped(p)
    BY <2>3, <1>e, <1>w, <1>l DEF AdoptStopped, AdoptFinds
  <2>4. CASE AdoptRunning(p)
    BY <2>4, <1>e, <1>w DEF AdoptRunning, AdoptFinds
  <2>5. CASE AdoptFails(p)
    BY <2>5, <1>e, <1>l DEF AdoptFails
  <2>6. CASE AdoptReady(p)
    BY <2>6, <1>e, <1>w DEF AdoptReady, Serving
  <2>7. QED
    BY <1>4, <2>1, <2>2, <2>3, <2>4, <2>5, <2>6 DEF Adopt
<1>5. ASSUME NEW p \in Proc, Sweep(p) PROVE TypeOK'
  <2>1. CASE SweepRead(p)
    BY <2>1, <1>e, <1>l DEF SweepRead
  <2>2. CASE SweepGet(p)
    BY <2>2, <1>e DEF SweepGet
  <2>3. CASE SweepDestroy(p)
    BY <2>3, <1>e, <1>d DEF SweepDestroy
  <2>4. CASE SweepConfirm(p)
    BY <2>4, <1>e DEF SweepConfirm
  <2>5. CASE SweepGivesUp(p)
    BY <2>5, <1>e, <1>l DEF SweepGivesUp
  <2>6. CASE SweepReload(p)
    BY <2>6, <1>e DEF SweepReload
  <2>6a. CASE SweepReadFails(p)
    BY <2>6a, <1>e, RigStarts DEF SweepReadFails
  <2>7. CASE SweepRecord(p)
    <3>1. snap' \in Rig
      BY <2>7, <1>e, <1>w DEF SweepRecord
    <3>2. QED
      BY <2>7, <3>1, <1>l DEF SweepRecord
  <2>8. QED
    BY <1>5, <2>1, <2>2, <2>3, <2>4, <2>5, <2>6, <2>6a, <2>7 DEF Sweep
<1>6. ASSUME NEW p \in Proc, Chooses(p) PROVE TypeOK'
  <2>1. CASE SuperviseEnds(p)
    BY <2>1, <1>e DEF SuperviseEnds, EndServing
  <2>2. CASE ResumeInterrupted(p)
    BY <2>2, <1>e, <1>l DEF ResumeInterrupted
  <2>3. CASE Health(p)
    <3>1. PICK s \in {"DEGRADED", "READY"} :
            LET r == [copy[p] EXCEPT !.state = s] IN
              Writes(p, r) /\ Holds(p, r)
      BY <2>3 DEF Health
    <3>2. snap' \in Rig /\ copy' \in [Proc -> Rig]
      BY <3>1, <1>e, <1>w
    <3>3. QED
      BY <2>3, <3>2 DEF Health
  <2>4. CASE DownLoad(p)
    BY <2>4, <1>e DEF DownLoad
  <2>5. CASE AdoptLoad(p)
    BY <2>5, <1>e DEF AdoptLoad
  <2>6. CASE SweepList(p)
    BY <2>6, <1>e DEF SweepList
  <2>7. QED
    BY <1>6, <2>1, <2>2, <2>3, <2>4, <2>5, <2>6 DEF Chooses
<1>7. ASSUME NEW p \in Proc, EndedElsewhere(p) PROVE TypeOK'
  BY <1>7 DEF EndedElsewhere, EndServing
<1>8. ASSUME NEW p \in Proc, Crash(p) PROVE TypeOK'
  BY <1>8, <1>l DEF Crash
<1>9. CASE CreateLands \/ CreateRefused \/ InstanceFails
  BY <1>9 DEF CreateLands, CreateRefused, InstanceFails, Billing
<1>10. CASE UNCHANGED vars
  BY <1>10 DEF vars
<1>11. QED
  BY <1>1, <1>2, <1>3, <1>4, <1>5, <1>6, <1>7, <1>8, <1>9, <1>10, StepCases

-----------------------------------------------------------------------------

\* Whoever is engaged with the rig holds it, step by step.
LEMMA HoldStep == LifecycleInv /\ [Next]_vars => HoldInv'
<1> SUFFICES ASSUME LifecycleInv, [Next]_vars PROVE HoldInv'
  OBVIOUS
<1> USE DEF Moves, owner, provider, store
<1>t. /\ NewInv /\ HoldInv
      /\ pc \in [Proc -> Place] /\ hold \in Proc \cup {Nobody}
      /\ Owner \in Proc /\ Owner \notin Others /\ Nobody \notin Proc
      /\ \A q \in Downers \cup Sweepers : q # Owner /\ q \notin Resumers
      /\ Resumers \cup Downers \cup Sweepers = Others
      /\ Proc = {Owner} \cup Others
  BY RoleAssumption DEF LifecycleInv, TypeOK, Proc, Others
\* One process moves: it must hold the rig if that leaves it engaged.
<1>m. ASSUME NEW p \in Proc, NEW x, pc' = [pc EXCEPT ![p] = x],
             Engaged(p)' => hold' = p, hold = p \/ hold' = hold,
             UNCHANGED owner
      PROVE  HoldInv'
  BY <1>t, <1>m DEF HoldInv, Engaged
<1>g. ASSUME NEW p \in Proc, NEW x, Moves(p, pc[p], x), UNCHANGED <<hold, owner>>,
             Engaged(p)' => Engaged(p)
      PROVE  HoldInv'
  BY <1>g, <1>t, <1>m DEF HoldInv
<1>l. ASSUME NEW p \in Proc, Leaves(p), UNCHANGED owner PROVE HoldInv'
  <2>1. ~Engaged(p)'
    BY <1>l, <1>t DEF Leaves, Engaged, Phases, Teardown
  <2>2. hold = p \/ hold' = hold
    BY <1>l DEF Leaves
  <2>3. QED
    BY <1>l, <1>m, <2>1, <2>2 DEF Leaves
<1>r. ASSUME NEW p \in Proc, NEW r, DownReturns(p, r) PROVE HoldInv'
  <2>1. CASE p = Owner /\ again
    <3>1. \A q \in Proc : Engaged(q)' => q # p /\ Engaged(q)
      BY <1>r, <1>t, <2>1 DEF DownReturns, Engaged, Phases, NewInv
    <3>2. QED
      BY <1>r, <1>t, <2>1, <3>1 DEF DownReturns, HoldInv
  <2>2. CASE ~(p = Owner /\ again)
    BY <1>l, <1>r, <2>2 DEF DownReturns
  <2>3. QED
    BY <2>1, <2>2
<1>1. CASE Select
  <2>1. \A q \in Others : pc'[q] = "idle"
    BY <1>1, <1>t DEF Select, NewInv
  <2>2. \A q \in Proc : Engaged(q)' => q = Owner
    BY <1>1, <1>t, <2>1 DEF Engaged, Teardown
  <2>3. QED
    BY <1>1, <2>2 DEF Select, HoldInv
<1>2. CASE BringUp
  <2>1. CASE IntendFails \/ ResolveUnreachable \/ CloseNeverCreated
    BY <1>l, <1>t, <2>1 DEF IntendFails, ResolveUnreachable, CloseNeverCreated
  <2>2. CASE ResolveAbsent
    <3>1. CASE cause = "unknown"
      BY <1>l, <1>t, <2>2, <3>1 DEF ResolveAbsent
    <3>2. CASE cause # "unknown"
      BY <1>t, <2>2, <3>2 DEF ResolveAbsent, HoldInv, Engaged
    <3>3. QED
      BY <3>1, <3>2
  <2>3. CASE Intend \/ SendCreate \/ CreateReturns
    BY <1>t, <2>3 DEF Intend, SendCreate, CreateReturns, HoldInv, Engaged
  <2>4. CASE NotSent \/ CreateErrs
    BY <1>t, <2>4
    DEF NotSent, CreateErrs, CreateFails, HoldInv, Engaged, Teardown
  <2>5. CASE JournalFailed
    BY <1>t, <2>5 DEF JournalFailed, HoldInv, Engaged
  <2>6. CASE ResolveFound
    BY <1>t, <2>6 DEF ResolveFound, HoldInv, Engaged
  <2>7. CASE RecordProvisioned
    BY <1>t, <2>7 DEF RecordProvisioned, HoldInv, Engaged
  <2>8. CASE ServePhase
    BY <1>t, <2>8, Names DEF ServePhase, HoldInv, Engaged
  <2>9. CASE PhaseFails
    BY <1>t, <2>9 DEF PhaseFails, HoldInv, Engaged
  <2>10. QED
    BY <1>2, <2>1, <2>2, <2>3, <2>4, <2>5, <2>6, <2>7, <2>8, <2>9 DEF BringUp
<1>3. ASSUME NEW p \in Proc, Down(p) PROVE HoldInv'
  <2>1. CASE DownAlready(p) \/ DownFails(p)
    BY <1>r, <2>1 DEF DownAlready, DownFails
  <2>2. CASE DownRecord(p)
    BY <1>r, <2>2 DEF DownRecord
  <2>3. ASSUME NEW x \in Teardown, pc[p] \in Teardown, Moves(p, pc[p], x),
               UNCHANGED <<hold, owner>>
        PROVE  HoldInv'
    <3>1. Engaged(p)' => Engaged(p)
      BY <1>t, <2>3 DEF Engaged, Phases, Teardown
    <3>2. QED
      BY <1>g, <2>3, <3>1
  <2>4. CASE DownBegins(p) \/ DownListed(p) \/ DownUnlisted(p)
    BY <2>3, <2>4 DEF DownBegins, DownListed, DownUnlisted, Teardown
  <2>5. CASE DownIntent(p) \/ DownDestroy(p) \/ DownConfirm(p)
    BY <2>3, <2>5 DEF DownIntent, DownDestroy, DownConfirm, Teardown
  <2>6. QED
    BY <1>3, <2>1, <2>2, <2>4, <2>5 DEF Down
<1>4. ASSUME NEW p \in Proc, Adopt(p) PROVE HoldInv'
  <2>1. CASE AdoptGone(p) \/ AdoptStopped(p) \/ AdoptFails(p)
    BY <1>l, <2>1 DEF AdoptGone, AdoptStopped, AdoptFinds, AdoptFails
  <2>2. CASE AdoptHold(p)
    <3>1. CASE hold = Nobody
      BY <1>t, <2>2, <3>1 DEF AdoptHold, HoldInv, Engaged
    <3>2. CASE hold # Nobody
      BY <1>l, <2>2, <3>2 DEF AdoptHold
    <3>3. QED
      BY <3>1, <3>2
  <2>3. CASE AdoptRunning(p) \/ AdoptReady(p)
    BY <1>t, <2>3 DEF AdoptRunning, AdoptFinds, AdoptReady, HoldInv, Engaged
  <2>4. QED
    BY <1>4, <2>1, <2>2, <2>3 DEF Adopt
<1>5. ASSUME NEW p \in Proc, Sweep(p) PROVE HoldInv'
  <2>1. CASE SweepGivesUp(p) \/ SweepRecord(p)
    BY <1>l, <2>1 DEF SweepGivesUp, SweepRecord
  <2>2. ASSUME NEW x \in {"reap", "kill", "proof", "reload", "reaped"},
               Moves(p, pc[p], x), UNCHANGED <<hold, owner>>
        PROVE  HoldInv'
    <3>1. ~Engaged(p)'
      BY <1>t, <2>2 DEF Engaged, Phases, Teardown
    <3>2. QED
      BY <1>g, <2>2, <3>1
  <2>3. CASE SweepRead(p)
    BY <1>l, <2>2, <2>3 DEF SweepRead
  <2>4. CASE \/ SweepReadFails(p) \/ SweepGet(p) \/ SweepDestroy(p) \/ SweepConfirm(p)
             \/ SweepReload(p)
    BY <2>2, <2>4 DEF SweepReadFails, SweepGet, SweepDestroy, SweepConfirm, SweepReload
  <2>5. QED
    BY <1>5, <2>1, <2>3, <2>4 DEF Sweep
<1>6. ASSUME NEW p \in Proc, Chooses(p) PROVE HoldInv'
  <2>1. CASE SuperviseEnds(p)
    BY <1>t, <2>1 DEF SuperviseEnds, EndServing, HoldInv, Engaged
  <2>2. CASE ResumeInterrupted(p)
    BY <1>l, <2>2 DEF ResumeInterrupted
  <2>3. CASE Health(p)
    BY <1>t, <2>3 DEF Health, HoldInv, Engaged
  <2>4. CASE DownLoad(p) \/ AdoptLoad(p) \/ SweepList(p)
    <3>1. ~Engaged(p)'
      BY <1>t, <2>4
      DEF DownLoad, AdoptLoad, SweepList, Engaged, Phases, Teardown
    <3>2. QED
      BY <1>m, <2>4, <3>1 DEF DownLoad, AdoptLoad, SweepList
  <2>5. QED
    BY <1>6, <2>1, <2>2, <2>3, <2>4 DEF Chooses
<1>7. ASSUME NEW p \in Proc, EndedElsewhere(p) PROVE HoldInv'
  BY <1>7, <1>t DEF EndedElsewhere, EndServing, HoldInv, Engaged
<1>8. ASSUME NEW p \in Proc, Crash(p) PROVE HoldInv'
  BY <1>8, <1>l DEF Crash
<1>9. CASE CreateLands \/ CreateRefused \/ InstanceFails \/ UNCHANGED vars
  BY <1>9, <1>t
  DEF CreateLands, CreateRefused, InstanceFails, vars, HoldInv, Engaged
<1>10. QED
  BY <1>1, <1>2, <1>3, <1>4, <1>5, <1>6, <1>7, <1>8, <1>9, StepCases

\* The places only the bring-up passes through.
UpPlace == {"new", "intent", "create", "creating", "failed", "resolve", "never",
            "provisioned"} \cup Phases

\* Every other command's step starts from a place of its own, ends in one,
\* and leaves the create and its journalled intent as they are.
LEMMA OtherSteps ==
  ASSUME TypeOK, NEW p \in Proc,
         Down(p) \/ Adopt(p) \/ Sweep(p) \/ EndedElsewhere(p) \/ Chooses(p)
           \/ Crash(p)
  PROVE  /\ UNCHANGED <<request, intended, cause>> /\ (again' => again)
         /\ \E x : x \notin UpPlace /\ pc' = [pc EXCEPT ![p] = x]
         /\ pc[p] # "new"
         /\ pc[p] = "idle" => snap.state # "IDLE" \/ inst # "none"
<1> USE DEF Moves, owner, provider, store, UpPlace, Phases
<1>t. pc \in [Proc -> Place]
  BY DEF TypeOK
<1>l. ASSUME Leaves(p)
      PROVE  \E x : x \notin UpPlace /\ pc' = [pc EXCEPT ![p] = x]
  <2> DEFINE x == IF p = Owner THEN "over" ELSE "idle"
  <2>1. x \notin UpPlace
    OBVIOUS
  <2>2. pc' = [pc EXCEPT ![p] = x]
    BY <1>l DEF Leaves
  <2>3. QED
    BY <2>1, <2>2
<1>r. ASSUME NEW r, DownReturns(p, r)
      PROVE  /\ cause' = cause /\ (again' => again)
             /\ \E x : x \notin UpPlace /\ pc' = [pc EXCEPT ![p] = x]
  BY <1>l, <1>r DEF DownReturns
<1>1. CASE Down(p)
  <2>1. CASE DownAlready(p) \/ DownFails(p) \/ DownRecord(p)
    BY <1>r, <2>1 DEF DownAlready, DownFails, DownRecord
  <2>2. CASE DownBegins(p) \/ DownIntent(p) \/ DownListed(p) \/ DownUnlisted(p)
    BY <2>2 DEF DownBegins, DownIntent, DownListed, DownUnlisted
  <2>3. CASE DownDestroy(p) \/ DownConfirm(p)
    BY <2>3 DEF DownDestroy, DestroyCall, DownConfirm
  <2>4. QED
    BY <1>1, <2>1, <2>2, <2>3 DEF Down
<1>2. CASE Adopt(p)
  BY <1>2, <1>l
  DEF Adopt, AdoptHold, AdoptGone, AdoptStopped, AdoptRunning, AdoptFails,
      AdoptReady, AdoptFinds
<1>3. CASE Sweep(p)
  BY <1>3, <1>l
  DEF Sweep, SweepRead, SweepReadFails, SweepGet, SweepDestroy, SweepConfirm,
      SweepGivesUp, SweepReload, SweepRecord, DestroyCall
<1>4. CASE EndedElsewhere(p)
  BY <1>4 DEF EndedElsewhere, EndServing
<1>5. CASE Chooses(p)
  <2>1. CASE SuperviseEnds(p) \/ ResumeInterrupted(p)
    BY <1>l, <2>1 DEF SuperviseEnds, EndServing, ResumeInterrupted
  <2>2. CASE Health(p)
    <3>1. pc' = [pc EXCEPT ![p] = "serving"]
      BY <1>t, <2>2 DEF Health
    <3>2. QED
      BY <2>2, <3>1 DEF Health
  <2>3. CASE DownLoad(p) \/ AdoptLoad(p) \/ SweepList(p)
    BY <2>3 DEF DownLoad, AdoptLoad, SweepList, Billable, Billing
  <2>4. QED
    BY <1>5, <2>1, <2>2, <2>3 DEF Chooses
<1>6. CASE Crash(p)
  BY <1>l, <1>6 DEF Crash
<1>7. QED
  BY <1>1, <1>2, <1>3, <1>4, <1>5, <1>6

\* Until the owner selects, and after a create fails.
LEMMA NewStep == LifecycleInv /\ [Next]_vars => NewInv'
<1> SUFFICES ASSUME LifecycleInv, [Next]_vars PROVE NewInv'
  OBVIOUS
<1>t. /\ NewInv /\ TypeOK /\ pc \in [Proc -> Place]
      /\ Owner \in Proc /\ Owner \notin Others /\ Proc = {Owner} \cup Others
      /\ pc[Owner] = "new" => inst = "none"
      /\ NoRig.state = "IDLE"
  BY RoleAssumption, RigStarts DEF LifecycleInv, TypeOK, Proc, ProviderInv, NewInv
<1> USE DEF NewInv
<1>1. CASE Select
  BY <1>1, <1>t DEF Select, Moves, owner, provider
<1>2. CASE BringUp
  <2> USE DEF Moves, Leaves, owner
  <2>1. CASE IntendFails \/ ResolveUnreachable \/ CloseNeverCreated \/ ResolveAbsent
    BY <1>t, <2>1
    DEF IntendFails, ResolveUnreachable, CloseNeverCreated, ResolveAbsent
  <2>2. CASE Intend \/ SendCreate \/ CreateReturns
    BY <1>t, <2>2 DEF Intend, SendCreate, CreateReturns, provider
  <2>3. CASE NotSent \/ CreateErrs
    BY <1>t, <2>3 DEF NotSent, CreateErrs, CreateFails
  <2>4. CASE JournalFailed \/ ResolveFound \/ RecordProvisioned
    BY <1>t, <2>4 DEF JournalFailed, ResolveFound, RecordProvisioned
  <2>5. CASE ServePhase
    BY <1>t, <2>5, Names DEF ServePhase, Phases, Serving
  <2>6. CASE PhaseFails
    BY <1>t, <2>6 DEF PhaseFails
  <2>7. QED
    BY <1>2, <2>1, <2>2, <2>3, <2>4, <2>5, <2>6 DEF BringUp
<1>3. ASSUME NEW p \in Proc,
             Down(p) \/ Adopt(p) \/ Sweep(p) \/ EndedElsewhere(p) \/ Chooses(p)
               \/ Crash(p)
      PROVE  NewInv'
  <2>1. /\ UNCHANGED <<request, intended, cause>> /\ (again' => again)
        /\ \E x : x \notin UpPlace /\ pc' = [pc EXCEPT ![p] = x]
        /\ pc[p] # "new"
        /\ pc[p] = "idle" => snap.state # "IDLE" \/ inst # "none"
    BY <1>3, <1>t, OtherSteps
  <2>2. pc[Owner] # "new"
    BY <1>3, <1>t, <2>1 DEF Crash
  <2>3. pc'[Owner] # "new" /\ (pc'[Owner] = pc[Owner] \/ pc'[Owner] \notin UpPlace)
    BY <1>t, <2>1, <2>2 DEF UpPlace
  <2>4. QED
    BY <1>t, <2>1, <2>2, <2>3 DEF UpPlace
<1>4. CASE CreateLands \/ CreateRefused \/ InstanceFails \/ UNCHANGED vars
  BY <1>4, <1>t
  DEF CreateLands, CreateRefused, InstanceFails, vars, store, owner, Billing
<1>5. QED
  BY <1>1, <1>2, <1>3, <1>4, StepCases

\* An instance that was there is not forgotten, one that is gone stays gone,
\* and the provider's two views of the create agree.
LEMMA InstStep ==
  LifecycleInv /\ [Next]_vars =>
    /\ inst # "none" => inst' # "none"
    /\ inst = "gone" => inst' = "gone"
    /\ inst' # "none" <=> request' = "landed"
<1> SUFFICES ASSUME LifecycleInv, [Next]_vars
             PROVE  /\ inst # "none" => inst' # "none"
                    /\ inst = "gone" => inst' = "gone"
                    /\ inst' # "none" <=> request' = "landed"
  OBVIOUS
<1>t. /\ inst # "none" <=> request = "landed"
      /\ \A p \in Proc : pc[p] \in {"destroy", "kill"} => inst # "none"
      /\ pc[Owner] = "create" => request # "landed"
  BY DEF LifecycleInv, ProviderInv, NewInv
<1> USE DEF provider
<1>d. DestroyCall /\ inst # "none" =>
        inst' # "none" /\ (inst = "gone" => inst' = "gone") /\ request' = request
  BY DEF DestroyCall
<1>1. CASE Select
  BY <1>1, <1>t DEF Select
<1>2. CASE BringUp
  <2>1. CASE SendCreate
    BY <2>1, <1>t DEF SendCreate, Moves
  <2>2. CASE ~SendCreate
    BY <1>2, <1>t, <2>2
    DEF BringUp, Intend, IntendFails, NotSent, CreateFails, CreateReturns,
        CreateErrs, JournalFailed, ResolveUnreachable, ResolveFound, ResolveAbsent,
        CloseNeverCreated, RecordProvisioned, ServePhase, PhaseFails
  <2>3. QED
    BY <2>1, <2>2
<1>3. ASSUME NEW p \in Proc, Down(p) \/ Sweep(p)
      PROVE  /\ inst # "none" => inst' # "none"
             /\ inst = "gone" => inst' = "gone"
             /\ inst' # "none" <=> request' = "landed"
  <2>1. CASE DownDestroy(p) \/ SweepDestroy(p)
    BY <2>1, <1>t, <1>d DEF DownDestroy, SweepDestroy, Moves
  <2>2. CASE ~(DownDestroy(p) \/ SweepDestroy(p))
    BY <1>3, <1>t, <2>2
    DEF Down, DownAlready, DownBegins, DownIntent, DownListed, DownUnlisted,
        DownConfirm, DownFails, DownRecord, Sweep, SweepRead, SweepReadFails, SweepGet,
        SweepConfirm, SweepGivesUp, SweepReload, SweepRecord
  <2>3. QED
    BY <2>1, <2>2
<1>4. ASSUME NEW p \in Proc, Adopt(p) \/ EndedElsewhere(p) \/ Chooses(p) \/ Crash(p)
      PROVE  UNCHANGED provider
  BY <1>4
  DEF Adopt, AdoptHold, AdoptGone, AdoptStopped, AdoptRunning, AdoptFails,
      AdoptReady, AdoptFinds, EndedElsewhere, Chooses, SuperviseEnds,
      ResumeInterrupted, Health, DownLoad, AdoptLoad, SweepList, Crash
<1>5. CASE CreateLands \/ CreateRefused \/ InstanceFails
  BY <1>5, <1>t DEF CreateLands, CreateRefused, InstanceFails, Billing
<1>6. CASE UNCHANGED vars
  BY <1>6, <1>t DEF vars
<1>7. QED
  BY <1>1, <1>2, <1>3, <1>4, <1>5, <1>6, <1>t, StepCases

\* What a record claims of the provider is true: the instance it knows of was
\* created, and absence it has evidence of is still so.
True(r) == (r.known => inst # "none") /\ (r.end = "absent" => inst = "gone")

\* Such claims survive every way the commands edit a record.
LEMMA TrueFields ==
  ASSUME NEW r \in Rig, True(r)
  PROVE  /\ inst # "none" => True([r EXCEPT !.known = TRUE])
         /\ \A s \in LifecycleState :
              /\ True([r EXCEPT !.state = s])
              /\ True([r EXCEPT !.state = s, !.end = "nothing"])
              /\ inst = "gone" => True([r EXCEPT !.state = s, !.end = "absent"])
         /\ True([r EXCEPT !.end = "nothing"])
         /\ inst = "gone" => True([r EXCEPT !.end = "absent"])
<1>n. /\ "none" # "absent" /\ "nothing" # "absent"
      /\ "nothing" \in Evidence /\ "absent" \in Evidence
  BY Names
\* Whatever keeps `known` and what evidence of absence there was stays true.
<1>k. \A q : (q.known = r.known) /\ (q.end = r.end \/ q.end = "nothing") => True(q)
  BY <1>n DEF True
<1>a. \A q : (q.known = r.known) /\ q.end = "absent" /\ inst = "gone" => True(q)
  BY DEF True
<1>1. inst # "none" => True([r EXCEPT !.known = TRUE])
  BY RigFields DEF True
<1>2. ASSUME NEW s \in LifecycleState
      PROVE  /\ True([r EXCEPT !.state = s])
             /\ True([r EXCEPT !.state = s, !.end = "nothing"])
             /\ inst = "gone" => True([r EXCEPT !.state = s, !.end = "absent"])
  <2>1. /\ [r EXCEPT !.state = s].known = r.known
        /\ [r EXCEPT !.state = s].end = r.end
    BY RigFields
  <2>2. \A e \in Evidence :
          /\ [r EXCEPT !.state = s, !.end = e].known = r.known
          /\ [r EXCEPT !.state = s, !.end = e].end = e
    BY DEF Rig
  <2>3. QED
    BY <1>n, <1>k, <1>a, <2>1, <2>2
<1>3. /\ True([r EXCEPT !.end = "nothing"])
      /\ inst = "gone" => True([r EXCEPT !.end = "absent"])
  <2>1. \A e \in Evidence : /\ [r EXCEPT !.end = e].known = r.known
                            /\ [r EXCEPT !.end = e].end = e
    BY RigFields DEF Rig
  <2>2. QED
    BY <1>n, <1>k, <1>a, <2>1
<1>4. QED
  BY <1>1, <1>2, <1>3

\* The processes, by command.
LEMMA Processes ==
  /\ Proc = {Owner} \cup Downers \cup Resumers \cup Sweepers
  /\ Owner \notin Downers \cup Resumers \cup Sweepers
  /\ Downers \cap Resumers = {} /\ Downers \cap Sweepers = {} /\ Resumers \cap Sweepers = {}
BY RoleAssumption DEF Proc, Others

LEMMA PhaseStates == \A x \in Phases : PhaseState[x] \in {"PROVISIONED", "BOOTSTRAPPING", "READY"}
BY DEF PhaseState, Phases

\* Every way the commands edit a record: what holds of the snapshot and of every
\* copy, and survives each of these, holds after any step.
LEMMA EditsStep ==
  ASSUME LifecycleInv, [Next]_vars, NEW G \in SUBSET Rig,
         snap \in G, \A p \in Proc : copy[p] \in G, NoRig \in G, Selected \in G,
         \A p \in Proc :
           /\ \A s \in {"CREATING", "PROVISIONED", "BOOTSTRAPPING", "READY", "DEGRADED", "STOPPED",
                        "DRAINING", "DESTROYED"} : [copy[p] EXCEPT !.state = s] \in G
           /\ inst # "none" => [copy[p] EXCEPT !.known = TRUE] \in G
           /\ inst = "gone" => /\ [copy[p] EXCEPT !.end = "absent"] \in G
                              /\ [copy[p] EXCEPT !.state = "DESTROYED", !.end = "absent"] \in G
           /\ pc[p] = "list" => [copy[p] EXCEPT !.end = "nothing"] \in G,
         pc[Owner] = "failed" => [copy[Owner] EXCEPT !.state = "FAILED"] \in G,
         pc[Owner] = "never" => [copy[Owner] EXCEPT !.state = "DESTROYED", !.end = "nothing"] \in G
  PROVE  snap' \in G /\ \A p \in Proc : copy'[p] \in G
<1> DEFINE Fine == snap' \in G /\ \A p \in Proc : copy'[p] \in G
<1> SUFFICES Fine OBVIOUS
<1>t. /\ Owner \in Proc /\ copy \in [Proc -> Rig] /\ snap \in G /\ \A p \in Proc : copy[p] \in G
      /\ NoRig \in G /\ Selected \in G
      /\ \A r \in G : r \in Rig
      /\ inst \in Billing => inst # "none"
      /\ request = "landed" => inst # "none"
      /\ \A p \in Proc : pc[p] \in {"reload", "reaped"} => inst = "gone"
  BY Processes DEF LifecycleInv, TypeOK, ProviderInv, AbsentInv, Billing
\* A write, if any, and a process's new copy.
<1>c. ASSUME NEW p \in Proc, NEW r \in G, Holds(p, r) \/ UNCHANGED copy,
             UNCHANGED snap \/ snap' \in G
      PROVE  Fine
  <2>1. \A q \in Proc : copy'[q] \in G BY <1>t, <1>c DEF Holds
  <2> QED BY <1>c, <1>t, <2>1
<1>u. ASSUME UNCHANGED copy, UNCHANGED snap \/ snap' \in G PROVE Fine BY <1>t, <1>u
<1>l. ASSUME NEW p \in Proc, Leaves(p), UNCHANGED snap \/ snap' \in G PROVE Fine
  BY <1>c, <1>l, <1>t DEF Leaves
<1>r. ASSUME NEW p \in Proc, NEW r \in G, DownReturns(p, r), UNCHANGED snap \/ snap' \in G
      PROVE  Fine
  BY <1>c, <1>l, <1>r DEF DownReturns
<1>e. ASSUME NEW p \in Proc
      PROVE  /\ \A s \in {"CREATING", "PROVISIONED", "BOOTSTRAPPING", "READY", "DEGRADED", "STOPPED",
                          "DRAINING", "DESTROYED"} : [copy[p] EXCEPT !.state = s] \in G
             /\ inst # "none" => [copy[p] EXCEPT !.known = TRUE] \in G
             /\ inst = "gone" => /\ [copy[p] EXCEPT !.end = "absent"] \in G
                                /\ [copy[p] EXCEPT !.state = "DESTROYED", !.end = "absent"] \in G
             /\ pc[p] = "list" => [copy[p] EXCEPT !.end = "nothing"] \in G
  OBVIOUS
<1>o. /\ pc[Owner] = "failed" => [copy[Owner] EXCEPT !.state = "FAILED"] \in G
      /\ pc[Owner] = "never" => [copy[Owner] EXCEPT !.state = "DESTROYED", !.end = "nothing"] \in G
  OBVIOUS
<1>w. ASSUME NEW p \in Proc, NEW r, Writes(p, r), r \in G PROVE snap' \in G
  BY <1>w DEF Writes
<1> HIDE DEF Fine
<1> USE <1>t DEF store
<1>1. CASE Select \/ BringUp
  <2>1. CASE Select BY <1>c, <1>w, <2>1 DEF Select
  <2>2. CASE Intend \/ CreateReturns \/ ResolveFound
    BY <1>c, <1>e, <2>2 DEF Intend, CreateReturns, ResolveFound
  <2>3. CASE IntendFails \/ ResolveUnreachable
    BY <1>l, <2>3 DEF IntendFails, ResolveUnreachable
  <2>4. CASE ResolveAbsent BY <1>l, <1>u, <2>4 DEF ResolveAbsent
  <2>5. CASE SendCreate \/ NotSent \/ CreateErrs \/ PhaseFails
    BY <1>u, <2>5 DEF SendCreate, NotSent, CreateErrs, CreateFails, PhaseFails
  <2>6. CASE JournalFailed
    <3> DEFINE r == [copy[Owner] EXCEPT !.state = "FAILED"]
    <3>1. r \in G BY <1>o, <2>6 DEF JournalFailed, Moves
    <3>2. UNCHANGED <<snap, copy>> \/ (Writes(Owner, r) /\ Holds(Owner, r))
      BY <2>6 DEF JournalFailed
    <3> HIDE DEF r
    <3> QED BY <1>c, <1>u, <1>w, <3>1, <3>2
  <2>7. CASE CloseNeverCreated
    <3> DEFINE r == [copy[Owner] EXCEPT !.state = "DESTROYED", !.end = "nothing"]
    <3>1. r \in G BY <1>o, <2>7 DEF CloseNeverCreated
    <3>2. Leaves(Owner) /\ (Writes(Owner, r) \/ UNCHANGED snap) BY <2>7 DEF CloseNeverCreated
    <3> HIDE DEF r
    <3> QED BY <1>l, <1>w, <3>1, <3>2
  <2>8. CASE RecordProvisioned
    <3> DEFINE r == [copy[Owner] EXCEPT !.state = "PROVISIONED"]
    <3>1. r \in G BY <1>e
    <3>2. UNCHANGED <<snap, copy>> \/ (Writes(Owner, r) /\ Holds(Owner, r))
      BY <2>8 DEF RecordProvisioned
    <3> HIDE DEF r
    <3> QED BY <1>c, <1>u, <1>w, <3>1, <3>2
  <2>9. CASE ServePhase
    <3> DEFINE r == [copy[Owner] EXCEPT !.state = PhaseState[pc[Owner]]]
    <3>1. PhaseState[pc[Owner]] \in {"PROVISIONED", "BOOTSTRAPPING", "READY"}
      BY <2>9, PhaseStates DEF ServePhase
    <3>2. r \in G BY <1>e, <3>1
    <3>3. UNCHANGED <<snap, copy>> \/ (Writes(Owner, r) /\ Holds(Owner, r))
      BY <2>9 DEF ServePhase
    <3> HIDE DEF r
    <3> QED BY <1>c, <1>u, <1>w, <3>2, <3>3
  <2> QED BY <1>1, <2>1, <2>2, <2>3, <2>4, <2>5, <2>6, <2>7, <2>8, <2>9 DEF BringUp
<1>2. ASSUME NEW p \in Proc, Down(p) PROVE Fine
  <2>1. CASE DownAlready(p) \/ DownFails(p) BY <1>r, <2>1 DEF DownAlready, DownFails
  <2>2. CASE DownRecord(p)
    <3> DEFINE r == [copy[p] EXCEPT !.state = "DESTROYED"]
    <3>1. r \in G BY <1>e
    <3>2. \/ Writes(p, r) /\ DownReturns(p, r)
          \/ UNCHANGED snap /\ \E q \in {snap, copy[p], r} : DownReturns(p, q)
      BY <2>2 DEF DownRecord
    <3> HIDE DEF r
    <3> QED BY <1>r, <1>w, <3>1, <3>2
  <2>3. CASE DownBegins(p) \/ DownDestroy(p) BY <1>u, <2>3 DEF DownBegins, DownDestroy
  <2>4. CASE DownIntent(p) \/ DownListed(p)
    BY <1>c, <1>e, <2>4 DEF DownIntent, DownListed
  <2>5. CASE DownUnlisted(p) \/ DownConfirm(p)
    BY <1>c, <1>e, <2>5 DEF DownUnlisted, DownConfirm, Moves
  <2> QED BY <1>2, <2>1, <2>2, <2>3, <2>4, <2>5 DEF Down
<1>3. ASSUME NEW p \in Proc, Adopt(p) PROVE Fine
  <2>1. ASSUME NEW answer, NEW r, r \in G, AdoptFinds(p, answer, r), Leaves(p) \/ UNCHANGED copy
        PROVE  Fine
    BY <1>l, <1>u, <1>w, <2>1 DEF AdoptFinds
  <2>2. CASE AdoptGone(p)
    <3>1. inst = "gone" BY <2>2 DEF AdoptGone, AdoptFinds
    <3> QED BY <1>e, <2>1, <2>2, <3>1 DEF AdoptGone
  <2>3. CASE AdoptStopped(p)
    <3>1. [copy[p] EXCEPT !.state = "STOPPED"] \in G BY <1>e
    <3> QED BY <2>1, <2>3, <3>1 DEF AdoptStopped
  <2>4. CASE AdoptRunning(p) BY <2>1, <2>4 DEF AdoptRunning
  <2>5. CASE AdoptReady(p)
    <3> DEFINE r == [copy[p] EXCEPT !.state = "READY"]
    <3>1. r \in G BY <1>e
    <3>2. Writes(p, r) /\ Holds(p, r) BY <2>5 DEF AdoptReady
    <3> HIDE DEF r
    <3> QED BY <1>c, <1>w, <3>1, <3>2
  <2>6. CASE AdoptHold(p) \/ AdoptFails(p) BY <1>l, <1>u, <2>6 DEF AdoptHold, AdoptFails
  <2> QED BY <1>3, <2>2, <2>3, <2>4, <2>5, <2>6 DEF Adopt
<1>4. ASSUME NEW p \in Proc, Sweep(p) PROVE Fine
  <2>1. CASE SweepRecord(p)
    <3>1. inst = "gone" BY <2>1 DEF SweepRecord
    <3> QED BY <1>e, <1>l, <1>w, <2>1, <3>1 DEF SweepRecord
  <2>2. CASE SweepRead(p) \/ SweepReadFails(p) \/ SweepReload(p)
    BY <1>c, <1>l, <2>2, RigStarts DEF SweepRead, SweepReadFails, SweepReload
  <2>3. CASE SweepGet(p) \/ SweepDestroy(p) \/ SweepConfirm(p) \/ SweepGivesUp(p)
    BY <1>l, <1>u, <2>3 DEF SweepGet, SweepDestroy, SweepConfirm, SweepGivesUp
  <2> QED BY <1>4, <2>1, <2>2, <2>3 DEF Sweep
<1>5. ASSUME NEW p \in Proc, EndedElsewhere(p) \/ Chooses(p) \/ Crash(p) PROVE Fine
  <2>1. CASE Health(p)
    <3>1. PICK s \in {"DEGRADED", "READY"} :
            Writes(p, [copy[p] EXCEPT !.state = s]) /\ Holds(p, [copy[p] EXCEPT !.state = s])
      BY <2>1 DEF Health
    <3>2. [copy[p] EXCEPT !.state = s] \in G BY <1>e
    <3> QED BY <1>c, <1>w, <3>1, <3>2
  <2>2. CASE EndedElsewhere(p) \/ DownLoad(p) \/ AdoptLoad(p)
    BY <1>c, <2>2 DEF EndedElsewhere, DownLoad, AdoptLoad
  <2>3. CASE SuperviseEnds(p) \/ SweepList(p) BY <1>u, <2>3 DEF SuperviseEnds, SweepList
  <2>4. CASE ResumeInterrupted(p) \/ Crash(p) BY <1>l, <2>4 DEF ResumeInterrupted, Crash
  <2> QED BY <1>5, <2>1, <2>2, <2>3, <2>4 DEF Chooses
<1>6. CASE CreateLands \/ CreateRefused \/ InstanceFails \/ UNCHANGED vars
  BY <1>u, <1>6 DEF CreateLands, CreateRefused, InstanceFails, vars
<1> QED BY <1>1, <1>2, <1>3, <1>4, <1>5, <1>6, StepCases

\* Every snapshot and every copy stays true, whoever wrote it from whatever he
\* had read.
LEMMA RecordsStep ==
  LifecycleInv /\ [Next]_vars => True(snap)' /\ \A p \in Proc : True(copy[p])'
<1> SUFFICES ASSUME LifecycleInv, [Next]_vars
             PROVE  True(snap)' /\ \A p \in Proc : True(copy[p])'
  OBVIOUS
<1> DEFINE G == {r \in Rig : True(r)}
<1>1. /\ snap \in G /\ \A p \in Proc : copy[p] \in G
      /\ NoRig \in G /\ Selected \in G
  BY RigStarts DEF LifecycleInv, TypeOK, ProviderInv, AbsentInv, ConfirmedEndIsReal, True
<1>2. ASSUME NEW r \in G
      PROVE  /\ \A s \in LifecycleState : [r EXCEPT !.state = s] \in G
             /\ inst # "none" => [r EXCEPT !.known = TRUE] \in G
             /\ inst = "gone" => /\ [r EXCEPT !.end = "absent"] \in G
                                /\ [r EXCEPT !.state = "DESTROYED", !.end = "absent"] \in G
             /\ [r EXCEPT !.end = "nothing"] \in G
             /\ [r EXCEPT !.state = "DESTROYED", !.end = "nothing"] \in G
  BY Names, RigFields, TrueFields
<1>3. \A s \in {"CREATING", "PROVISIONED", "BOOTSTRAPPING", "READY", "DEGRADED", "STOPPED",
               "DRAINING", "DESTROYED", "FAILED"} : s \in LifecycleState
  BY Names
<1>4. G \in SUBSET Rig /\ Owner \in Proc BY Processes
\* A record true now is true after any step.
<1>5. \A r \in G : (r.known => inst' # "none") /\ (r.end = "absent" => inst' = "gone")
  BY InstStep DEF True
<1> HIDE DEF G
<1>6. snap' \in G /\ \A p \in Proc : copy'[p] \in G
  BY <1>1, <1>2, <1>3, <1>4, EditsStep
<1> QED BY <1>5, <1>6 DEF True

\* A rig that was selected: IDLE is the name it has before its first Save.
Named(r) == r.state # "IDLE"

\* No adoption has a rig in hand that was never selected.
LEMMA AdoptsNamed ==
  LifecycleInv /\ [Next]_vars =>
    \A p \in Proc : pc'[p] \in {"take", "ask"} => Named(copy'[p])
<1> SUFFICES ASSUME LifecycleInv, [Next]_vars
             PROVE  \A p \in Proc : pc'[p] \in {"take", "ask"} => Named(copy'[p])
  OBVIOUS
<1>t. /\ pc \in [Proc -> Place] /\ copy \in [Proc -> Rig] /\ Owner \in Proc
      /\ \A p \in Proc : pc[p] \in {"take", "ask"} => Named(copy[p])
  BY DEF LifecycleInv, TypeOK, SpendInv, Proc, Named
<1>l. ASSUME NEW p \in Proc, Leaves(p)
      PROVE  \A q \in Proc : pc'[q] \in {"take", "ask"} => Named(copy'[q])
  BY <1>l, <1>t DEF Leaves, Holds
<1>r. ASSUME NEW p \in Proc, NEW r, DownReturns(p, r)
      PROVE  \A q \in Proc : pc'[q] \in {"take", "ask"} => Named(copy'[q])
  BY <1>l, <1>r, <1>t DEF DownReturns, Holds
<1> USE <1>t DEF Moves, Holds
<1>1. CASE Select
  BY <1>1 DEF Select
<1>2. CASE BringUp
  <2>1. CASE Intend \/ CreateReturns \/ ResolveFound
    BY <2>1 DEF Intend, CreateReturns, ResolveFound
  <2>2. CASE IntendFails \/ ResolveUnreachable \/ ResolveAbsent \/ CloseNeverCreated
    BY <2>2, <1>l
    DEF IntendFails, ResolveUnreachable, ResolveAbsent, CloseNeverCreated
  <2>3. CASE SendCreate \/ NotSent \/ CreateErrs \/ PhaseFails
    BY <2>3 DEF SendCreate, NotSent, CreateErrs, CreateFails, PhaseFails
  <2>4. CASE JournalFailed \/ RecordProvisioned
    BY <2>4 DEF JournalFailed, RecordProvisioned
  <2>5. CASE ServePhase
    BY <2>5, Names DEF ServePhase, Phases, Serving
  <2>6. QED
    BY <1>2, <2>1, <2>2, <2>3, <2>4, <2>5 DEF BringUp
<1>3. ASSUME NEW p \in Proc, Down(p)
      PROVE  \A q \in Proc : pc'[q] \in {"take", "ask"} => Named(copy'[q])
  <2>1. CASE DownAlready(p) \/ DownFails(p)
    BY <2>1, <1>r DEF DownAlready, DownFails
  <2>2. CASE DownRecord(p)
    BY <2>2, <1>r DEF DownRecord
  <2>3. CASE DownBegins(p) \/ DownDestroy(p)
    BY <2>3 DEF DownBegins, DownDestroy
  <2>4. CASE DownIntent(p) \/ DownListed(p) \/ DownUnlisted(p) \/ DownConfirm(p)
    BY <2>4 DEF DownIntent, DownListed, DownUnlisted, DownConfirm
  <2>5. QED
    BY <1>3, <2>1, <2>2, <2>3, <2>4 DEF Down
<1>4. ASSUME NEW p \in Proc, Adopt(p)
      PROVE  \A q \in Proc : pc'[q] \in {"take", "ask"} => Named(copy'[q])
  <2>1. CASE AdoptHold(p) \/ AdoptFails(p)
    BY <2>1, <1>l DEF AdoptHold, AdoptFails
  <2>2. CASE AdoptGone(p) \/ AdoptStopped(p)
    BY <2>2, <1>l DEF AdoptGone, AdoptStopped
  <2>3. CASE AdoptRunning(p) \/ AdoptReady(p)
    BY <2>3 DEF AdoptRunning, AdoptReady
  <2>4. QED
    BY <1>4, <2>1, <2>2, <2>3 DEF Adopt
<1>5. ASSUME NEW p \in Proc, Sweep(p)
      PROVE  \A q \in Proc : pc'[q] \in {"take", "ask"} => Named(copy'[q])
  <2>1. CASE \/ SweepRecord(p) \/ SweepRead(p) \/ SweepReadFails(p) \/ SweepGivesUp(p)
             \/ SweepReload(p)
    BY <2>1, <1>l, RigStarts DEF SweepRecord, SweepRead, SweepReadFails, SweepGivesUp, SweepReload
  <2>2. CASE SweepGet(p) \/ SweepDestroy(p) \/ SweepConfirm(p)
    BY <2>2 DEF SweepGet, SweepDestroy, SweepConfirm
  <2>3. QED
    BY <1>5, <2>1, <2>2 DEF Sweep
<1>6. ASSUME NEW p \in Proc, Chooses(p) \/ EndedElsewhere(p) \/ Crash(p)
      PROVE  \A q \in Proc : pc'[q] \in {"take", "ask"} => Named(copy'[q])
  <2>1. CASE Health(p)
    BY <2>1 DEF Health
  <2>2. CASE EndedElsewhere(p) \/ SuperviseEnds(p) \/ Crash(p) \/ ResumeInterrupted(p)
    BY <2>2, <1>l DEF EndedElsewhere, EndServing, SuperviseEnds, Crash, ResumeInterrupted
  <2>3. CASE DownLoad(p) \/ SweepList(p)
    BY <2>3 DEF DownLoad, SweepList
  <2>4. CASE AdoptLoad(p)
    BY <2>4 DEF AdoptLoad, Billable, Named
  <2>5. QED
    BY <1>6, <2>1, <2>2, <2>3, <2>4 DEF Chooses
<1>7. CASE CreateLands \/ CreateRefused \/ InstanceFails \/ UNCHANGED vars
  BY <1>7 DEF CreateLands, CreateRefused, InstanceFails, vars
<1>8. QED
  BY <1>1, <1>2, <1>3, <1>4, <1>5, <1>6, <1>7, StepCases

\* No store write takes a rig back to IDLE.
LEMMA NeverIdleAgain ==
  LifecycleInv /\ [Next]_vars => UNCHANGED snap \/ Named(snap')
<1> SUFFICES ASSUME LifecycleInv, [Next]_vars
             PROVE  UNCHANGED snap \/ Named(snap')
  OBVIOUS
<1>t. /\ Owner \in Proc /\ Named(Selected)
      /\ \A p \in Proc : pc[p] = "ask" => Named(copy[p])
      /\ \A p \in Proc : copy[p] \in Rig
  BY RigStarts DEF LifecycleInv, TypeOK, SpendInv, Proc, Named
<1>e. ASSUME NEW p \in Proc, NEW s \in LifecycleState, s # "IDLE"
      PROVE  /\ Named([copy[p] EXCEPT !.state = s])
             /\ Named([copy[p] EXCEPT !.state = s, !.end = "nothing"])
             /\ Named([copy[p] EXCEPT !.state = s, !.end = "absent"])
  BY <1>t, <1>e DEF Named, Rig
<1>w. ASSUME NEW p \in Proc, NEW r, Writes(p, r), Named(r) PROVE Named(snap')
  BY <1>w DEF Writes
<1> USE <1>t, <1>e, <1>w, Names DEF store, vars
<1>1. CASE Select
  BY <1>1 DEF Select
<1>2. CASE BringUp
  <2>1. CASE JournalFailed
    BY <2>1 DEF JournalFailed
  <2>2. CASE CloseNeverCreated
    BY <2>2 DEF CloseNeverCreated
  <2>3. CASE RecordProvisioned
    BY <2>3 DEF RecordProvisioned
  <2>4. CASE ServePhase
    <3>1. PhaseState[pc[Owner]] \in LifecycleState /\ PhaseState[pc[Owner]] # "IDLE"
      BY <2>4 DEF ServePhase
    <3>2. QED
      BY <2>4, <3>1 DEF ServePhase
  <2>5. CASE Intend \/ IntendFails \/ SendCreate \/ NotSent \/ CreateReturns \/ CreateErrs
    BY <2>5
    DEF Intend, IntendFails, SendCreate, NotSent, CreateFails, CreateReturns, CreateErrs
  <2>6. CASE ResolveUnreachable \/ ResolveFound \/ ResolveAbsent \/ PhaseFails
    BY <2>6 DEF ResolveUnreachable, ResolveFound, ResolveAbsent, PhaseFails
  <2>7. QED
    BY <1>2, <2>1, <2>2, <2>3, <2>4, <2>5, <2>6 DEF BringUp
<1>3. ASSUME NEW p \in Proc, Down(p) PROVE UNCHANGED snap \/ Named(snap')
  <2>1. CASE DownAlready(p) \/ DownBegins(p)
    BY <2>1 DEF DownAlready, DownBegins
  <2>2. CASE DownIntent(p)
    BY <2>2 DEF DownIntent
  <2>3. CASE DownListed(p) \/ DownUnlisted(p) \/ DownDestroy(p) \/ DownConfirm(p) \/ DownFails(p)
    BY <2>3 DEF DownListed, DownUnlisted, DownDestroy, DownConfirm, DownFails
  <2>4. CASE DownRecord(p)
    BY <2>4 DEF DownRecord
  <2>5. QED
    BY <1>3, <2>1, <2>2, <2>3, <2>4 DEF Down
<1>4. ASSUME NEW p \in Proc, Adopt(p) PROVE UNCHANGED snap \/ Named(snap')
  <2>1. CASE AdoptHold(p) \/ AdoptFails(p)
    BY <2>1 DEF AdoptHold, AdoptFails
  <2>2. CASE AdoptGone(p)
    BY <2>2 DEF AdoptGone, AdoptFinds
  <2>3. CASE AdoptStopped(p)
    BY <2>3 DEF AdoptStopped, AdoptFinds
  <2>4. CASE AdoptRunning(p)
    BY <2>4 DEF AdoptRunning, AdoptFinds
  <2>5. CASE AdoptReady(p)
    BY <2>5 DEF AdoptReady
  <2>6. QED
    BY <1>4, <2>1, <2>2, <2>3, <2>4, <2>5 DEF Adopt
<1>5. ASSUME NEW p \in Proc, Sweep(p) PROVE UNCHANGED snap \/ Named(snap')
  <2>1. CASE SweepRecord(p)
    BY <2>1 DEF SweepRecord
  <2>2. CASE ~SweepRecord(p)
    BY <1>5, <2>2
    DEF Sweep, SweepRead, SweepReadFails, SweepGet, SweepDestroy, SweepConfirm, SweepGivesUp,
        SweepReload
  <2>3. QED
    BY <2>1, <2>2
<1>6. ASSUME NEW p \in Proc, Chooses(p) \/ EndedElsewhere(p) \/ Crash(p)
      PROVE  UNCHANGED snap \/ Named(snap')
  <2>1. CASE Health(p)
    BY <2>1 DEF Health
  <2>2. CASE ~Health(p)
    BY <1>6, <2>2
    DEF Chooses, SuperviseEnds, ResumeInterrupted, DownLoad, AdoptLoad, SweepList,
        EndedElsewhere, Crash
  <2>3. QED
    BY <2>1, <2>2
<1>7. CASE CreateLands \/ CreateRefused \/ InstanceFails \/ UNCHANGED vars
  BY <1>7 DEF CreateLands, CreateRefused, InstanceFails
<1>8. QED
  BY <1>1, <1>2, <1>3, <1>4, <1>5, <1>6, <1>7, StepCases

\* The intent is journalled before the create is sent, and both stay on record.
LEMMA SpendStep == LifecycleInv /\ [Next]_vars => SpendInv'
<1> SUFFICES ASSUME LifecycleInv, [Next]_vars PROVE SpendInv'
  OBVIOUS
<1>t. /\ SpendInv /\ TypeOK /\ pc \in [Proc -> Place] /\ Owner \in Proc
      /\ Selected.state # "IDLE"
      /\ UNCHANGED snap \/ snap'.state # "IDLE"
      /\ \A p \in Proc : pc'[p] \in {"take", "ask"} => copy'[p].state # "IDLE"
  BY NeverIdleAgain, AdoptsNamed, RigStarts DEF LifecycleInv, TypeOK, Proc, Named
<1> USE DEF SpendInv, SpendIsOnRecord
<1>1. CASE Select
  BY <1>1, <1>t DEF Select, Moves, provider, Writes
<1>2. CASE BringUp
  <2> USE DEF Moves, Leaves, store, provider
  <2>1. CASE Intend \/ SendCreate \/ CreateReturns
    BY <1>t, <2>1 DEF Intend, SendCreate, CreateReturns
  <2>2. CASE IntendFails \/ ResolveUnreachable \/ ResolveAbsent \/ CloseNeverCreated
    BY <1>t, <2>2
    DEF IntendFails, ResolveUnreachable, ResolveAbsent, CloseNeverCreated
  <2>3. CASE NotSent \/ CreateErrs
    BY <1>t, <2>3 DEF NotSent, CreateErrs, CreateFails
  <2>4. CASE JournalFailed \/ ResolveFound \/ RecordProvisioned
    BY <1>t, <2>4 DEF JournalFailed, ResolveFound, RecordProvisioned
  <2>5. CASE ServePhase \/ PhaseFails
    BY <1>t, <2>5, Names DEF ServePhase, PhaseFails, Phases, Serving
  <2>6. QED
    BY <1>2, <2>1, <2>2, <2>3, <2>4, <2>5 DEF BringUp
<1>3. ASSUME NEW p \in Proc,
             Down(p) \/ Adopt(p) \/ Sweep(p) \/ EndedElsewhere(p) \/ Chooses(p)
               \/ Crash(p)
      PROVE  SpendInv'
  <2>1. /\ UNCHANGED <<request, intended>>
        /\ \E x : x \notin UpPlace /\ pc' = [pc EXCEPT ![p] = x]
    BY <1>3, <1>t, OtherSteps
  <2>2. pc'[Owner] = pc[Owner] \/ pc'[Owner] \notin UpPlace
    BY <1>t, <2>1
  <2>3. QED
    BY <1>t, <2>1, <2>2 DEF UpPlace
<1>4. CASE CreateLands \/ CreateRefused \/ InstanceFails \/ UNCHANGED vars
  BY <1>4, <1>t
  DEF CreateLands, CreateRefused, InstanceFails, vars, store
<1>5. QED
  BY <1>1, <1>2, <1>3, <1>4, StepCases

\* Who is about to destroy has seen an instance, and who is about to record its
\* absence has proof of it.
LEMMA PlacesStep ==
  LifecycleInv /\ [Next]_vars =>
    \A p \in Proc :
      /\ pc'[p] \in {"destroy", "read", "reap", "kill"} => inst' # "none"
      /\ pc'[p] \in {"reload", "reaped"} => inst' = "gone"
<1> DEFINE Seen(p) == /\ pc[p] \in {"destroy", "read", "reap", "kill"} => inst # "none"
                      /\ pc[p] \in {"reload", "reaped"} => inst = "gone"
<1> SUFFICES ASSUME LifecycleInv, [Next]_vars, NEW q \in Proc PROVE Seen(q)'
  OBVIOUS
<1>t. /\ pc \in [Proc -> Place] /\ Owner \in Proc
      /\ Seen(q) /\ \A p \in Proc : Seen(p) /\ (copy[p].known => inst # "none")
      /\ inst # "none" => inst' # "none"
      /\ inst = "gone" => inst' = "gone"
      /\ inst \in Billing => inst # "none"
  BY InstStep
  DEF LifecycleInv, TypeOK, Proc, ProviderInv, AbsentInv, Billing
\* A process at a place that claims nothing, or one that went nowhere.
<1>m. ASSUME NEW p \in Proc, NEW x, pc' = [pc EXCEPT ![p] = x],
             x \in {"destroy", "read", "reap", "kill"} => inst # "none",
             x \in {"reload", "reaped"} => inst = "gone"
      PROVE  Seen(q)'
  BY <1>m, <1>t
<1>l. ASSUME NEW p \in Proc, Leaves(p) PROVE Seen(q)'
  BY <1>l, <1>t DEF Leaves
<1>r. ASSUME NEW p \in Proc, NEW r, DownReturns(p, r) PROVE Seen(q)'
  BY <1>l, <1>r, <1>m DEF DownReturns
<1>u. UNCHANGED pc => Seen(q)'
  BY <1>t
<1> HIDE DEF Seen
<1> USE <1>t, <1>m, <1>l, <1>u DEF Moves
<1>1. CASE Select
  BY <1>1 DEF Select
<1>2. CASE BringUp
  <2>1. CASE IntendFails \/ ResolveUnreachable \/ ResolveAbsent \/ CloseNeverCreated
    BY <2>1 DEF IntendFails, ResolveUnreachable, ResolveAbsent, CloseNeverCreated
  <2>2. CASE Intend \/ SendCreate \/ NotSent \/ CreateReturns \/ CreateErrs
    BY <2>2 DEF Intend, SendCreate, NotSent, CreateReturns, CreateErrs
  <2>3. CASE JournalFailed
    BY <2>3 DEF JournalFailed
  <2>4. CASE RecordProvisioned \/ ResolveFound \/ PhaseFails
    BY <2>4 DEF RecordProvisioned, ResolveFound, PhaseFails
  <2>5. CASE ServePhase
    BY <2>5, Names DEF ServePhase, Phases, Serving
  <2>6. QED
    BY <1>2, <2>1, <2>2, <2>3, <2>4, <2>5 DEF BringUp
<1>3. ASSUME NEW p \in Proc, Down(p) PROVE Seen(q)'
  <2>1. CASE DownAlready(p) \/ DownFails(p) \/ DownRecord(p)
    BY <2>1, <1>r DEF DownAlready, DownFails, DownRecord
  <2>2. CASE DownIntent(p)
    BY <2>2 DEF DownIntent
  <2>3. CASE DownBegins(p) \/ DownListed(p) \/ DownUnlisted(p) \/ DownDestroy(p)
             \/ DownConfirm(p)
    BY <2>3 DEF DownBegins, DownListed, DownUnlisted, DownDestroy, DownConfirm
  <2>4. QED
    BY <1>3, <2>1, <2>2, <2>3 DEF Down
<1>4. ASSUME NEW p \in Proc, Adopt(p) PROVE Seen(q)'
  BY <1>4
  DEF Adopt, AdoptHold, AdoptGone, AdoptStopped, AdoptRunning, AdoptFails, AdoptReady
<1>5. ASSUME NEW p \in Proc, Sweep(p) PROVE Seen(q)'
  <2>1. CASE SweepRead(p)
    BY <2>1, <1>t DEF SweepRead, Seen
  <2>1a. CASE SweepReadFails(p)
    BY <2>1a, <1>t DEF SweepReadFails, Seen
  <2>2. CASE SweepGet(p) \/ SweepDestroy(p) \/ SweepConfirm(p) \/ SweepReload(p)
    BY <2>2, <1>t DEF SweepGet, SweepDestroy, SweepConfirm, SweepReload, Seen
  <2>3. CASE SweepGivesUp(p) \/ SweepRecord(p)
    BY <2>3 DEF SweepGivesUp, SweepRecord
  <2>4. QED
    BY <1>5, <2>1, <2>1a, <2>2, <2>3 DEF Sweep
<1>6. ASSUME NEW p \in Proc, Chooses(p) \/ EndedElsewhere(p) \/ Crash(p)
      PROVE  Seen(q)'
  BY <1>6
  DEF Chooses, SuperviseEnds, ResumeInterrupted, Health, DownLoad, AdoptLoad,
      SweepList, EndedElsewhere, EndServing, Crash
<1>7. CASE CreateLands \/ CreateRefused \/ InstanceFails \/ UNCHANGED vars
  BY <1>7 DEF CreateLands, CreateRefused, InstanceFails, vars
<1>8. QED
  BY <1>1, <1>2, <1>3, <1>4, <1>5, <1>6, <1>7, StepCases

-----------------------------------------------------------------------------

LEMMA InitLifecycle == Init => LifecycleInv
<1> SUFFICES ASSUME Init PROVE LifecycleInv
  OBVIOUS
<1>1. TypeOK
  BY RigStarts DEF Init, TypeOK, Proc, Place
<1>2. NewInv
  BY RoleAssumption DEF Init, NewInv, Proc, Others
<1>3. HoldInv
  BY DEF Init, HoldInv, Engaged, Phases, Teardown
<1>4. SpendInv
  BY DEF Init, SpendInv, SpendIsOnRecord, Proc
<1>5. ProviderInv
  BY RigStarts DEF Init, ProviderInv
<1>6. AbsentInv
  BY RigStarts DEF Init, AbsentInv, ConfirmedEndIsReal
<1>7. QED
  BY <1>1, <1>2, <1>3, <1>4, <1>5, <1>6 DEF LifecycleInv

LEMMA LifecycleStep == LifecycleInv /\ [Next]_vars => LifecycleInv'
<1> SUFFICES ASSUME LifecycleInv, [Next]_vars PROVE LifecycleInv'
  OBVIOUS
<1>1. ProviderInv'
  BY InstStep, RecordsStep, PlacesStep DEF ProviderInv, True
<1>2. AbsentInv'
  BY RecordsStep, PlacesStep DEF AbsentInv, ConfirmedEndIsReal, True
<1>3. QED
  BY <1>1, <1>2, TypeStep, NewStep, HoldStep, SpendStep DEF LifecycleInv

\* The inductive invariant holds in every reachable state, however many
\* commands of each kind run, die and start over.
THEOREM LifecycleInvariant == Spec => []LifecycleInv
<1>1. QED
  BY InitLifecycle, LifecycleStep, PTL DEF Spec

\* FR-PROV-01: no create is ever asked of the provider that the store does not
\* have the intent and the name of - RecordIntent comes before Provider.Create.
THEOREM SpendRecorded == Spec => []SpendIsOnRecord
<1>1. LifecycleInv => SpendIsOnRecord
  BY DEF LifecycleInv, SpendInv
<1>2. QED
  BY <1>1, LifecycleInvariant, PTL

\* confirmAbsent and its readers: an ending recorded as confirmed absent is the
\* truth about the instance, whoever recorded it and whatever raced with him.
THEOREM ConfirmedEndTrue == Spec => []ConfirmedEndIsReal
<1>1. LifecycleInv => ConfirmedEndIsReal
  BY DEF LifecycleInv, AbsentInv
<1>2. QED
  BY <1>1, LifecycleInvariant, PTL

\* Store.Hold, kept through EndServing: one process at a time brings a rig up,
\* reconnects to it, serves it and tears down what it served.
THEOREM RivalsExcluded == Spec => []NoRivalServer
<1>1. LifecycleInv => NoRivalServer
  BY DEF LifecycleInv, HoldInv, NoRivalServer
<1>2. QED
  BY <1>1, LifecycleInvariant, PTL

-----------------------------------------------------------------------------
(* What a sweep may have read                                              *)

\* Where each command's process can be.
Role(p, x) ==
  /\ p \in Downers => x \in {"idle"} \cup Teardown
  /\ p \in Sweepers => x \in {"idle", "read", "reap", "kill", "proof", "reload", "reaped"}
  /\ p \in Resumers => x \in {"idle", "take", "ask", "reconnect"} \cup Serving \cup Teardown
  /\ p = Owner => x \notin {"idle", "take", "ask", "reconnect", "read", "reap", "kill",
                            "proof", "reload", "reaped"}
Roles == \A p \in Proc : Role(p, pc[p])

\* The create is still to succeed, or failed: nobody has anything to reconnect to.
Begins == {"new", "intent", "create", "creating", "provisioned"}
Failed == cause # "none"
Unserved == pc[Owner] \in Begins \/ Failed

\* The states that a record may say while no create has failed.
States == (LifecycleState \ {"SEARCHING", "ORPHANED"}) \ (IF Failed THEN {} ELSE {"FAILED"})

\* A rig that a sweep took for an orphan was selected, ended, or given up when
\* its create failed, and then nobody serves it, nor ever will; or the sweep
\* could read no rig at all.
SweepInv ==
  /\ Roles
  /\ Failed => pc[Owner] \notin Begins \cup Phases \cup Serving
  /\ snap.state \in States /\ \A p \in Proc : copy[p].state \in States
  /\ Unserved => /\ snap.known => snap.state = "DESTROYED"
                 /\ \A p \in Resumers : pc[p] = "idle"
  /\ pc[Owner] \in {"intent", "create", "creating", "failed", "resolve", "never"} =>
       ~copy[Owner].known
  /\ \A p \in Sweepers : pc[p] \in {"reap", "kill"} =>
       \/ copy[p].state \in {"SELECTED", "FAILED"} \/ copy[p] = NoRig
       \/ copy[p].state = "DESTROYED" /\ snap.state = "DESTROYED"

\* One process moves, from a place of its command's to another.
LEMMA RolesStep == ASSUME TypeOK, Roles, [Next]_vars PROVE Roles'
<1>t. pc \in [Proc -> Place] /\ \A p \in Proc : Role(p, pc[p]) BY DEF TypeOK, Roles
<1>m. ASSUME NEW p \in Proc, NEW x, pc' = [pc EXCEPT ![p] = x], Role(p, x) PROVE Roles'
  BY <1>t, <1>m DEF Roles
<1>u. ASSUME UNCHANGED pc PROVE Roles'
  BY <1>u, <1>t DEF Roles
<1>l. ASSUME NEW p \in Proc, Leaves(p) PROVE Roles'
  <2>1. Role(p, IF p = Owner THEN "over" ELSE "idle") BY Processes DEF Role
  <2> QED BY <1>l, <1>m, <2>1 DEF Leaves
<1>d. ASSUME NEW p \in Proc, Role(p, pc[p]), pc[p] \in Teardown, NEW x \in Teardown PROVE Role(p, x)
  BY <1>d, Processes DEF Role, Teardown
<1>r. ASSUME NEW p \in Proc, NEW r, DownReturns(p, r) PROVE Roles'
  <2>1. Role(Owner, "down") BY Processes DEF Role
  <2> QED BY <1>l, <1>m, <1>r, <2>1 DEF DownReturns
<1>1. CASE Select \/ BringUp
  <2>1. ASSUME NEW x, x \in UpPlace \cup {"down", "over", "serving"} PROVE Role(Owner, x)
    BY <2>1, Processes DEF Role, UpPlace, Phases
  <2>2. Owner \in Proc BY Processes
  <2>3. CASE IntendFails \/ ResolveUnreachable \/ CloseNeverCreated
    BY <1>l, <2>2, <2>3 DEF IntendFails, ResolveUnreachable, CloseNeverCreated
  <2>4. CASE ResolveAbsent
    BY <1>l, <1>m, <2>1, <2>2, <2>4 DEF ResolveAbsent, Moves, UpPlace
  <2>5. CASE ServePhase
    <3>1. PhaseAfter[pc[Owner]] \in UpPlace \cup {"serving"}
      BY <2>5, Names DEF ServePhase, UpPlace, Serving
    <3> QED BY <1>m, <2>1, <2>2, <2>5, <3>1 DEF ServePhase
  <2>6. CASE Select \/ Intend \/ SendCreate \/ NotSent \/ CreateReturns \/ CreateErrs
    BY <1>m, <2>1, <2>2, <2>6
    DEF Select, Intend, SendCreate, NotSent, CreateReturns, CreateErrs, Moves, UpPlace
  <2>7. CASE JournalFailed
    BY <1>m, <2>1, <2>2, <2>7 DEF JournalFailed, Moves, UpPlace
  <2>8. CASE ResolveFound \/ PhaseFails
    BY <1>m, <2>1, <2>2, <2>8 DEF ResolveFound, PhaseFails, Moves
  <2>9. CASE RecordProvisioned
    BY <1>m, <2>1, <2>2, <2>9 DEF RecordProvisioned, Moves, UpPlace, Phases
  <2> QED BY <1>1, <2>3, <2>4, <2>5, <2>6, <2>7, <2>8, <2>9 DEF BringUp
<1>2. ASSUME NEW p \in Proc, Down(p) PROVE Roles'
  <2>1. CASE DownAlready(p) \/ DownFails(p)
    BY <1>r, <2>1 DEF DownAlready, DownFails
  <2>2. CASE DownRecord(p)
    BY <1>r, <2>2 DEF DownRecord
  <2>3. ASSUME NEW x \in Teardown, pc[p] \in Teardown, Moves(p, pc[p], x) PROVE Roles'
    BY <1>d, <1>m, <1>t, <2>3 DEF Moves
  <2>4. CASE DownBegins(p) \/ DownListed(p) \/ DownUnlisted(p)
    BY <2>3, <2>4 DEF DownBegins, DownListed, DownUnlisted, Teardown, Moves
  <2>5. CASE DownIntent(p) \/ DownDestroy(p) \/ DownConfirm(p)
    BY <2>3, <2>5 DEF DownIntent, DownDestroy, DownConfirm, Teardown, Moves
  <2> QED BY <1>2, <2>1, <2>2, <2>4, <2>5 DEF Down
<1>3. ASSUME NEW p \in Proc, Adopt(p) PROVE Roles'
  <2>1. CASE AdoptGone(p) \/ AdoptStopped(p) \/ AdoptFails(p)
    BY <1>l, <2>1 DEF AdoptGone, AdoptStopped, AdoptFinds, AdoptFails
  <2>2. CASE AdoptHold(p)
    <3>1. CASE hold = Nobody
      <4>1. Role(p, "ask") BY <1>t, <2>2, <3>1, Processes DEF AdoptHold, Moves, Role, Teardown
      <4> QED BY <1>m, <2>2, <3>1, <4>1 DEF AdoptHold, Moves
    <3>2. CASE hold # Nobody BY <1>l, <2>2, <3>2 DEF AdoptHold
    <3> QED BY <3>1, <3>2
  <2>3. CASE AdoptRunning(p) \/ AdoptReady(p)
    <3>1. Role(p, "reconnect") /\ Role(p, "serving")
      BY <1>t, <2>3, Processes DEF AdoptRunning, AdoptFinds, AdoptReady, Moves, Role, Teardown, Serving
    <3> QED BY <1>m, <2>3, <3>1 DEF AdoptRunning, AdoptReady, Moves
  <2> QED BY <1>3, <2>1, <2>2, <2>3 DEF Adopt
<1>4. ASSUME NEW p \in Proc, Sweep(p) PROVE Roles'
  <2>1. CASE SweepGivesUp(p) \/ SweepRecord(p)
    BY <1>l, <2>1 DEF SweepGivesUp, SweepRecord
  <2>2. ASSUME NEW x \in {"reap", "kill", "proof", "reload", "reaped"},
               pc[p] \in {"read", "reap", "kill", "proof", "reload"}, Moves(p, pc[p], x)
        PROVE  Roles'
    <3>1. Role(p, x) BY <1>t, <2>2, Processes DEF Role, Teardown, Serving
    <3> QED BY <1>m, <2>2, <3>1 DEF Moves
  <2>3. CASE SweepRead(p)
    BY <1>l, <2>2, <2>3 DEF SweepRead, Moves
  <2>4. CASE \/ SweepReadFails(p) \/ SweepGet(p) \/ SweepDestroy(p) \/ SweepConfirm(p)
             \/ SweepReload(p)
    BY <2>2, <2>4 DEF SweepReadFails, SweepGet, SweepDestroy, SweepConfirm, SweepReload, Moves
  <2> QED BY <1>4, <2>1, <2>3, <2>4 DEF Sweep
<1>5. ASSUME NEW p \in Proc, Chooses(p) \/ EndedElsewhere(p) \/ Crash(p) PROVE Roles'
  <2>1. CASE EndedElsewhere(p) \/ SuperviseEnds(p)
    <3>1. pc[p] = "serving" /\ pc' = [pc EXCEPT ![p] = "down"]
      BY <2>1 DEF EndedElsewhere, SuperviseEnds, EndServing, Moves
    <3>2. Role(p, "down") BY <1>t, <3>1, Processes DEF Role, Teardown, Serving
    <3> QED BY <1>m, <3>1, <3>2
  <2>2. CASE ResumeInterrupted(p) \/ Crash(p)
    BY <1>l, <2>2 DEF ResumeInterrupted, Crash
  <2>3. CASE Health(p) BY <1>u, <2>3 DEF Health
  <2>4. CASE DownLoad(p) \/ AdoptLoad(p) \/ SweepList(p)
    <3>1. /\ p \in Downers => Role(p, "down")
          /\ p \in Resumers => Role(p, "take")
          /\ p \in Sweepers => Role(p, "read")
      BY Processes DEF Role, Teardown
    <3> QED BY <1>m, <2>4, <3>1 DEF DownLoad, AdoptLoad, SweepList, Moves
  <2> QED BY <1>5, <2>1, <2>2, <2>3, <2>4 DEF Chooses
<1>6. CASE CreateLands \/ CreateRefused \/ InstanceFails \/ UNCHANGED vars
  BY <1>u, <1>6 DEF CreateLands, CreateRefused, InstanceFails, vars
<1> QED BY <1>1, <1>2, <1>3, <1>4, <1>5, <1>6, StepCases

\* A process that is not the owner leaves the owner's place and copy alone.
LEMMA OwnSteps ==
  ASSUME TypeOK, NEW p \in Proc,
         Down(p) \/ Adopt(p) \/ Sweep(p) \/ EndedElsewhere(p) \/ Chooses(p) \/ Crash(p)
  PROVE  \E r : copy' = [copy EXCEPT ![p] = r]
<1> USE DEF Holds
<1>t. copy = [copy EXCEPT ![p] = copy[p]] BY DEF TypeOK
<1>l. ASSUME Leaves(p) PROVE \E r : copy' = [copy EXCEPT ![p] = r] BY <1>l DEF Leaves
<1>r. ASSUME NEW q, DownReturns(p, q) PROVE \E r : copy' = [copy EXCEPT ![p] = r]
  BY <1>l, <1>r DEF DownReturns
<1>u. ASSUME UNCHANGED copy PROVE \E r : copy' = [copy EXCEPT ![p] = r] BY <1>t, <1>u
<1>1. CASE Down(p)
  <2>1. CASE DownAlready(p) \/ DownFails(p) BY <1>r, <2>1 DEF DownAlready, DownFails
  <2>2. CASE DownRecord(p) BY <1>r, <2>2 DEF DownRecord
  <2>3. CASE DownBegins(p) \/ DownDestroy(p) BY <1>u, <2>3 DEF DownBegins, DownDestroy
  <2>4. CASE DownIntent(p) \/ DownListed(p) \/ DownUnlisted(p) \/ DownConfirm(p)
    BY <2>4 DEF DownIntent, DownListed, DownUnlisted, DownConfirm
  <2> QED BY <1>1, <2>1, <2>2, <2>3, <2>4 DEF Down
<1>2. CASE Adopt(p)
  BY <1>2, <1>l, <1>u
  DEF Adopt, AdoptHold, AdoptGone, AdoptStopped, AdoptRunning, AdoptFails, AdoptReady
<1>3. CASE Sweep(p)
  BY <1>3, <1>l, <1>u
  DEF Sweep, SweepRead, SweepReadFails, SweepGet, SweepDestroy, SweepConfirm, SweepGivesUp,
      SweepReload, SweepRecord
<1>4. CASE EndedElsewhere(p) \/ Chooses(p) \/ Crash(p)
  <2>1. CASE Health(p) BY <2>1 DEF Health
  <2>2. CASE ~Health(p)
    BY <1>4, <2>2, <1>l, <1>u
    DEF EndedElsewhere, Chooses, SuperviseEnds, ResumeInterrupted, DownLoad, AdoptLoad, SweepList, Crash
  <2> QED BY <2>1, <2>2
<1> QED BY <1>1, <1>2, <1>3, <1>4

\* Who writes the snapshot, and what.
Wrote(p, r) ==
  \/ r.state = "DESTROYED"
  \/ p = Owner /\ pc[Owner] = "new" /\ ~r.known
  \/ p = Owner /\ pc[Owner] = "failed" /\ r.known = copy[Owner].known
  \/ p = Owner /\ pc[Owner] = "provisioned" /\ pc'[Owner] = "boot"
  \/ p = Owner /\ pc[Owner] \in Phases
  \/ pc[p] \in {"ask", "reconnect", "serving"}

LEMMA WriteSteps ==
  ASSUME TypeOK, [Next]_vars
  PROVE  UNCHANGED snap \/ \E p \in Proc : \E r : Writes(p, r) /\ Wrote(p, r)
<1> DEFINE Fine == UNCHANGED snap \/ \E p \in Proc : \E r : Writes(p, r) /\ Wrote(p, r)
<1> SUFFICES Fine OBVIOUS
<1>t. /\ Owner \in Proc /\ pc \in [Proc -> Place] /\ \A p \in Proc : copy[p] \in Rig
      /\ "DESTROYED" \in LifecycleState /\ {"nothing", "absent"} \subseteq Evidence
      /\ "FAILED" \in LifecycleState
  BY Processes, Names DEF TypeOK
<1>w. ASSUME NEW p \in Proc, NEW r, Writes(p, r), Wrote(p, r) PROVE Fine
  BY <1>w
<1>u. ASSUME UNCHANGED snap PROVE Fine BY <1>u
<1>e. ASSUME NEW p \in Proc
      PROVE  /\ [copy[p] EXCEPT !.state = "DESTROYED"].state = "DESTROYED"
             /\ [copy[p] EXCEPT !.state = "DESTROYED", !.end = "nothing"].state = "DESTROYED"
             /\ [copy[p] EXCEPT !.state = "DESTROYED", !.end = "absent"].state = "DESTROYED"
             /\ [copy[p] EXCEPT !.state = "FAILED"].known = copy[p].known
  <2>1. /\ copy[p] \in Rig /\ "DESTROYED" \in LifecycleState /\ "FAILED" \in LifecycleState
        /\ "nothing" \in Evidence /\ "absent" \in Evidence
    BY <1>t
  <2>2. [copy[p] EXCEPT !.state = "FAILED"].known = copy[p].known BY <2>1, RigFields
  <2>3. [copy[p] EXCEPT !.state = "DESTROYED"].state = "DESTROYED" BY <2>1 DEF Rig
  <2>4. \A e \in Evidence : [copy[p] EXCEPT !.state = "DESTROYED", !.end = e].state = "DESTROYED"
    BY <2>1 DEF Rig
  <2> QED BY <2>1, <2>2, <2>3, <2>4
<1> HIDE DEF Fine
<1> USE DEF store
<1>1. CASE Select \/ BringUp
  <2>1. CASE Select
    <3>1. Wrote(Owner, Selected) BY <2>1, RigStarts DEF Select, Moves, Wrote
    <3> QED BY <1>t, <1>w, <2>1, <3>1 DEF Select
  <2>2. CASE JournalFailed
    <3>1. Wrote(Owner, [copy[Owner] EXCEPT !.state = "FAILED"])
      BY <1>t, <1>e, <2>2 DEF JournalFailed, Moves, Wrote
    <3> QED BY <1>t, <1>u, <1>w, <2>2, <3>1 DEF JournalFailed
  <2>3. CASE CloseNeverCreated
    <3>1. Wrote(Owner, [copy[Owner] EXCEPT !.state = "DESTROYED", !.end = "nothing"])
      BY <1>t, <1>e DEF Wrote
    <3> QED BY <1>t, <1>u, <1>w, <2>3, <3>1 DEF CloseNeverCreated
  <2>4. CASE RecordProvisioned
    <3>1. CASE UNCHANGED snap BY <1>u, <3>1
    <3>2. CASE ~UNCHANGED snap
      <4>1. /\ Writes(Owner, [copy[Owner] EXCEPT !.state = "PROVISIONED"])
            /\ pc[Owner] = "provisioned" /\ pc' = [pc EXCEPT ![Owner] = "boot"]
        BY <2>4, <3>2 DEF RecordProvisioned, Moves
      <4>2. Wrote(Owner, [copy[Owner] EXCEPT !.state = "PROVISIONED"])
        BY <1>t, <4>1 DEF Wrote
      <4> QED BY <1>t, <1>w, <4>1, <4>2
    <3> QED BY <3>1, <3>2
  <2>5. CASE ServePhase
    <3>1. Wrote(Owner, [copy[Owner] EXCEPT !.state = PhaseState[pc[Owner]]])
      BY <2>5 DEF ServePhase, Wrote
    <3>2. UNCHANGED snap \/ Writes(Owner, [copy[Owner] EXCEPT !.state = PhaseState[pc[Owner]]])
      BY <2>5 DEF ServePhase
    <3> QED BY <1>t, <1>u, <1>w, <3>1, <3>2
  <2>6. CASE Intend \/ IntendFails \/ SendCreate \/ NotSent \/ CreateReturns \/ CreateErrs
    BY <1>u, <2>6
    DEF Intend, IntendFails, SendCreate, NotSent, CreateFails, CreateReturns, CreateErrs
  <2>7. CASE ResolveUnreachable \/ ResolveFound \/ ResolveAbsent \/ PhaseFails
    BY <1>u, <2>7 DEF ResolveUnreachable, ResolveFound, ResolveAbsent, PhaseFails
  <2> QED BY <1>1, <2>1, <2>2, <2>3, <2>4, <2>5, <2>6, <2>7 DEF BringUp
<1>2. ASSUME NEW p \in Proc, Down(p) PROVE Fine
  <2>1. CASE DownRecord(p)
    <3>1. Wrote(p, [copy[p] EXCEPT !.state = "DESTROYED"]) BY <1>e DEF Wrote
    <3> QED BY <1>u, <1>w, <2>1, <3>1 DEF DownRecord
  <2>2. CASE ~DownRecord(p)
    BY <1>2, <1>u, <2>2
    DEF Down, DownAlready, DownBegins, DownIntent, DownListed, DownUnlisted, DownDestroy,
        DownConfirm, DownFails
  <2> QED BY <2>1, <2>2
<1>3. ASSUME NEW p \in Proc, Adopt(p) PROVE Fine
  <2>1. ASSUME NEW answer, NEW r, AdoptFinds(p, answer, r) PROVE Fine
    <3>1. Wrote(p, r) BY <2>1 DEF AdoptFinds, Wrote
    <3> QED BY <1>u, <1>w, <2>1, <3>1 DEF AdoptFinds
  <2>2. CASE AdoptGone(p) \/ AdoptStopped(p) \/ AdoptRunning(p)
    BY <2>1, <2>2 DEF AdoptGone, AdoptStopped, AdoptRunning
  <2>3. CASE AdoptReady(p)
    <3>1. Wrote(p, [copy[p] EXCEPT !.state = "READY"]) BY <2>3 DEF AdoptReady, Moves, Wrote
    <3> QED BY <1>w, <2>3, <3>1 DEF AdoptReady
  <2>4. CASE AdoptHold(p) \/ AdoptFails(p) BY <1>u, <2>4 DEF AdoptHold, AdoptFails
  <2> QED BY <1>3, <2>2, <2>3, <2>4 DEF Adopt
<1>4. ASSUME NEW p \in Proc, Sweep(p) PROVE Fine
  <2>1. CASE SweepRecord(p)
    <3>1. Wrote(p, [copy[p] EXCEPT !.state = "DESTROYED", !.end = "absent"]) BY <1>e DEF Wrote
    <3> QED BY <1>u, <1>w, <2>1, <3>1 DEF SweepRecord
  <2>2. CASE ~SweepRecord(p)
    BY <1>4, <1>u, <2>2
    DEF Sweep, SweepRead, SweepReadFails, SweepGet, SweepDestroy, SweepConfirm, SweepGivesUp,
        SweepReload
  <2> QED BY <2>1, <2>2
<1>5. ASSUME NEW p \in Proc, EndedElsewhere(p) \/ Chooses(p) \/ Crash(p) PROVE Fine
  <2>1. CASE Health(p)
    <3>1. PICK s : Writes(p, [copy[p] EXCEPT !.state = s]) /\ pc[p] = "serving" BY <2>1 DEF Health
    <3>2. Wrote(p, [copy[p] EXCEPT !.state = s]) BY <3>1 DEF Wrote
    <3> QED BY <1>w, <3>1, <3>2
  <2>2. CASE ~Health(p)
    BY <1>5, <1>u, <2>2
    DEF EndedElsewhere, Chooses, SuperviseEnds, ResumeInterrupted, DownLoad, AdoptLoad, SweepList, Crash
  <2> QED BY <2>1, <2>2
<1>6. CASE CreateLands \/ CreateRefused \/ InstanceFails \/ UNCHANGED vars
  BY <1>u, <1>6 DEF CreateLands, CreateRefused, InstanceFails, vars
<1> QED BY <1>1, <1>2, <1>3, <1>4, <1>5, <1>6, StepCases

\* Nothing is written over an end but an end.
LEMMA EndStays == ASSUME TypeOK, [Next]_vars, snap.state = "DESTROYED" PROVE snap'.state = "DESTROYED"
BY WriteSteps DEF Writes, Refused

\* No record comes to a state that none had, but those the commands name; FAILED
\* is the word of a create that failed.
LEMMA StatesStep ==
  ASSUME LifecycleInv, [Next]_vars, NEW S \in SUBSET LifecycleState,
         snap.state \in S, \A p \in Proc : copy[p].state \in S,
         {"IDLE", "SELECTED", "CREATING", "PROVISIONED", "BOOTSTRAPPING", "READY", "DEGRADED",
          "STOPPED", "DRAINING", "DESTROYED"} \subseteq S,
         pc[Owner] = "failed" => "FAILED" \in S
  PROVE  snap'.state \in S /\ \A p \in Proc : copy'[p].state \in S
<1> DEFINE G == {r \in Rig : r.state \in S}
<1>1. /\ snap \in G /\ \A p \in Proc : copy[p] \in G
      /\ NoRig \in G /\ Selected \in G
  BY RigStarts DEF LifecycleInv, TypeOK
<1>2. ASSUME NEW r \in G
      PROVE  /\ \A s \in S : [r EXCEPT !.state = s] \in G
             /\ [r EXCEPT !.known = TRUE] \in G
             /\ \A e \in Evidence : /\ [r EXCEPT !.end = e] \in G
                                    /\ \A s \in S : [r EXCEPT !.state = s, !.end = e] \in G
  BY DEF Rig
<1>3. /\ \A s \in {"CREATING", "PROVISIONED", "BOOTSTRAPPING", "READY", "DEGRADED", "STOPPED",
                  "DRAINING", "DESTROYED"} : s \in S
      /\ "DESTROYED" \in S /\ (pc[Owner] = "failed" => "FAILED" \in S)
      /\ "absent" \in Evidence /\ "nothing" \in Evidence
  BY Names
<1>4. G \in SUBSET Rig /\ Owner \in Proc /\ \A r \in G : r.state \in S BY Processes
<1> HIDE DEF G
<1>5. snap' \in G /\ \A p \in Proc : copy'[p] \in G
  BY <1>1, <1>2, <1>3, <1>4, EditsStep
<1> QED BY <1>4, <1>5

\* How the owner's bring-up goes on, and where a create's failure shows.
LEMMA OwnerStep ==
  ASSUME LifecycleInv, SweepInv, [Next]_vars
  PROVE  /\ Failed' => pc'[Owner] \notin Begins \cup Phases \cup Serving
         /\ Unserved' => Unserved
         /\ Failed => Failed'
         /\ pc'[Owner] \in {"intent", "create", "creating", "failed", "resolve", "never"} =>
              ~copy'[Owner].known
         /\ pc[Owner] = "failed" => Failed
<1> DEFINE Early == {"intent", "create", "creating", "failed", "resolve", "never"}
           Fine == /\ Failed' => pc'[Owner] \notin Begins \cup Phases \cup Serving
                   /\ Unserved' => Unserved
                   /\ Failed => Failed'
                   /\ pc'[Owner] \in Early => ~copy'[Owner].known
<1>t. /\ TypeOK /\ pc \in [Proc -> Place] /\ copy \in [Proc -> Rig]
      /\ Owner \in Proc /\ copy[Owner] \in Rig
      /\ Failed => pc[Owner] \notin Begins \cup Phases \cup Serving
      /\ pc[Owner] \in Early => ~copy[Owner].known
      /\ pc[Owner] \in {"failed", "resolve", "never"} \/ again => Failed
  BY Processes DEF LifecycleInv, TypeOK, NewInv, SweepInv, Failed
<1>1. SUFFICES Fine BY <1>t
<1>k. \A s \in LifecycleState : ~copy[Owner].known => ~[copy[Owner] EXCEPT !.state = s].known
  BY <1>t, RigFields
<1>2. CASE Select
  <2>1. pc[Owner] = "new" /\ pc'[Owner] = "intent" /\ copy'[Owner] = Selected /\ cause' = cause
    BY <1>2, <1>t DEF Select, Moves, Holds, owner
  <2> QED BY <1>t, <2>1, RigStarts DEF Failed, Unserved, Begins, Phases, Serving
<1>3. CASE BringUp
  <2>1. CASE Intend
    <3>1. /\ pc[Owner] = "intent" /\ pc'[Owner] = "create" /\ cause' = cause
          /\ copy'[Owner] = [copy[Owner] EXCEPT !.state = "CREATING"]
      BY <1>t, <2>1 DEF Intend, Moves, Holds, owner
    <3>2. ~copy'[Owner].known BY <1>k, <1>t, <3>1, Names
    <3> QED BY <1>t, <3>1, <3>2 DEF Failed, Unserved, Begins, Phases, Serving
  <2>2. CASE IntendFails \/ ResolveUnreachable \/ CloseNeverCreated \/ ResolveAbsent
    <3>1. /\ cause' = cause /\ pc'[Owner] \in {"over", "never"}
          /\ pc'[Owner] = "never" => UNCHANGED copy /\ pc[Owner] = "resolve"
      BY <1>t, <2>2
      DEF IntendFails, ResolveUnreachable, CloseNeverCreated, ResolveAbsent, Leaves, Moves, owner
    <3> QED BY <1>t, <3>1 DEF Failed, Unserved, Begins, Phases, Serving
  <2>3. CASE SendCreate
    <3>1. pc[Owner] = "create" /\ pc'[Owner] = "creating" /\ UNCHANGED <<cause, copy>>
      BY <1>t, <2>3 DEF SendCreate, Moves, owner
    <3> QED BY <1>t, <3>1 DEF Failed, Unserved, Begins, Phases, Serving
  <2>4. CASE NotSent \/ CreateErrs
    <3>1. /\ pc[Owner] \in {"create", "creating"} /\ pc'[Owner] = "failed" /\ UNCHANGED copy
          /\ cause' # "none"
      BY <1>t, <2>4 DEF NotSent, CreateErrs, CreateFails, Moves
    <3> QED BY <1>t, <3>1 DEF Failed, Unserved, Begins, Phases, Serving
  <2>5. CASE CreateReturns
    <3>1. pc[Owner] = "creating" /\ pc'[Owner] = "provisioned" /\ cause' = cause
      BY <1>t, <2>5 DEF CreateReturns, Moves, owner
    <3> QED BY <1>t, <3>1 DEF Failed, Unserved, Begins, Phases, Serving
  <2>6. CASE JournalFailed
    <3>1. /\ pc[Owner] = "failed" /\ pc'[Owner] \in {"never", "resolve"} /\ cause' = cause
          /\ copy'[Owner] \in {copy[Owner], [copy[Owner] EXCEPT !.state = "FAILED"]}
      BY <1>t, <2>6 DEF JournalFailed, Moves, Holds, owner
    <3>2. ~copy'[Owner].known BY <1>k, <1>t, <3>1, Names
    <3> QED BY <1>t, <3>1, <3>2 DEF Failed, Unserved, Begins, Phases, Serving
  <2>7. CASE ResolveFound
    <3>1. pc[Owner] = "resolve" /\ pc'[Owner] = "down" /\ cause' = cause
      BY <1>t, <2>7 DEF ResolveFound, Moves
    <3> QED BY <1>t, <3>1 DEF Failed, Unserved, Begins, Phases, Serving
  <2>8. CASE RecordProvisioned \/ ServePhase \/ PhaseFails
    <3>1. /\ pc[Owner] \in {"provisioned"} \cup Phases /\ cause' = cause
          /\ pc'[Owner] \in {"down"} \cup Phases \cup Serving
      BY <1>t, <2>8, Names DEF RecordProvisioned, ServePhase, PhaseFails, Moves, owner, Phases
    <3> QED BY <1>t, <3>1 DEF Failed, Unserved, Begins, Phases, Serving
  <2> QED BY <1>3, <2>1, <2>2, <2>3, <2>4, <2>5, <2>6, <2>7, <2>8 DEF BringUp
<1>4. ASSUME NEW p \in Proc,
             Down(p) \/ Adopt(p) \/ Sweep(p) \/ EndedElsewhere(p) \/ Chooses(p) \/ Crash(p)
      PROVE  Fine
  <2>1. cause' = cause /\ \E x : x \notin UpPlace /\ pc' = [pc EXCEPT ![p] = x]
    BY <1>4, <1>t, OtherSteps
  <2>2. \E r : copy' = [copy EXCEPT ![p] = r] BY <1>4, <1>t, OwnSteps
  <2>3. CASE p # Owner
    <3>1. pc'[Owner] = pc[Owner] /\ copy'[Owner] = copy[Owner] BY <1>t, <2>1, <2>2, <2>3
    <3> QED BY <1>t, <2>1, <3>1 DEF Failed, Unserved
  <2>4. CASE p = Owner
    <3>1. pc'[Owner] \notin UpPlace BY <1>t, <2>1, <2>4
    <3>2. pc'[Owner] = "serving" => pc[Owner] = "serving"
      <4>1. CASE Health(p) BY <1>t, <2>4, <4>1 DEF Health
      <4>2. CASE AdoptReady(p)
        <5>1. Role(Owner, pc[Owner]) BY <1>t DEF SweepInv, Roles
        <5> QED BY <2>4, <4>2, <5>1 DEF AdoptReady, Moves, Role
      <4>3. CASE ~Health(p) /\ ~AdoptReady(p)
        BY <1>4, <1>t, <2>4, <4>3
        DEF Down, Adopt, Sweep, EndedElsewhere, Chooses, Crash, DownAlready, DownBegins, DownIntent,
            DownListed, DownUnlisted, DownDestroy, DownConfirm, DownFails, DownRecord, DownReturns,
            AdoptHold, AdoptGone, AdoptStopped, AdoptRunning, AdoptFails, SweepRead, SweepReadFails, SweepGet,
            SweepDestroy, SweepConfirm, SweepGivesUp, SweepReload, SweepRecord, SuperviseEnds,
            EndServing, ResumeInterrupted, DownLoad, AdoptLoad, SweepList, Leaves, Moves
      <4> QED BY <4>1, <4>2, <4>3
    <3> QED BY <1>t, <2>1, <3>1, <3>2 DEF Failed, Unserved, UpPlace, Begins, Serving
  <2> QED BY <2>3, <2>4
<1>5. CASE CreateLands \/ CreateRefused \/ InstanceFails \/ UNCHANGED vars
  <2>1. UNCHANGED <<pc, copy, cause>>
    BY <1>5 DEF CreateLands, CreateRefused, InstanceFails, vars, owner
  <2> QED BY <1>t, <2>1 DEF Failed, Unserved
<1> QED BY <1>2, <1>3, <1>4, <1>5, StepCases

\* While nobody serves the rig nobody comes to: the snapshot has no instance to
\* reconnect to.
LEMMA UnservedStep ==
  ASSUME LifecycleInv, SweepInv, [Next]_vars, Unserved'
  PROVE  /\ snap'.known => snap'.state = "DESTROYED"
         /\ \A p \in Resumers : pc'[p] = "idle"
<1>t. /\ TypeOK /\ Roles /\ Unserved /\ Proc = {Owner} \cup Downers \cup Resumers \cup Sweepers
      /\ snap.known => snap.state = "DESTROYED"
      /\ \A p \in Resumers : pc[p] = "idle" /\ p # Owner
      /\ Failed => pc[Owner] \notin Begins \cup Phases \cup Serving
      /\ pc[Owner] = "failed" => ~copy[Owner].known
      /\ pc \in [Proc -> Place]
  BY OwnerStep, Processes DEF LifecycleInv, TypeOK, SweepInv
<1>1. snap'.known => snap'.state = "DESTROYED"
  <2>1. CASE UNCHANGED snap BY <1>t, <2>1
  <2>2. CASE ~UNCHANGED snap
    <3>1. PICK p \in Proc : \E r : Writes(p, r) /\ Wrote(p, r) BY <1>t, <2>2, WriteSteps
    <3>2. PICK r : Writes(p, r) /\ Wrote(p, r) BY <3>1
    <3>3. snap' = r BY <3>2 DEF Writes
    <3>4. CASE r.state = "DESTROYED" BY <3>3, <3>4
    <3>5. CASE pc[Owner] = "new" /\ ~r.known BY <3>3, <3>5
    <3>6. CASE pc[Owner] = "failed" /\ r.known = copy[Owner].known BY <1>t, <3>3, <3>6
    <3>7. CASE p = Owner /\ pc[Owner] = "provisioned" /\ pc'[Owner] = "boot"
      <4>1. Failed' BY <3>7 DEF Unserved, Begins
      <4>2. pc'[Owner] \notin Phases BY <4>1, OwnerStep
      <4> QED BY <3>7, <4>2 DEF Phases
    <3>8. CASE p = Owner /\ pc[Owner] \in Phases
      BY <1>t, <3>8 DEF Unserved, Begins, Phases
    <3>9. CASE pc[p] \in {"ask", "reconnect", "serving"}
      <4>1. Role(p, pc[p]) BY <1>t DEF Roles
      <4>2. p \notin Resumers BY <1>t, <3>9
      <4>3. p = Owner /\ pc[Owner] = "serving"
        BY <1>t, <3>9, <4>1, <4>2 DEF Role, Teardown
      <4> QED BY <1>t, <4>3 DEF Unserved, Begins, Serving
    <3> QED BY <3>2, <3>4, <3>5, <3>6, <3>7, <3>8, <3>9 DEF Wrote
  <2> QED BY <2>1, <2>2
<1>2. ASSUME NEW q \in Resumers PROVE pc'[q] = "idle"
  <2>0. q \in Proc /\ q # Owner /\ q \notin Downers \cup Sweepers BY Processes
  <2>1. CASE Select \/ BringUp
    <3>1. \E x : pc' = [pc EXCEPT ![Owner] = x]
      BY <2>1
      DEF Select, BringUp, Intend, IntendFails, SendCreate, NotSent, CreateReturns, CreateErrs,
          JournalFailed, ResolveUnreachable, ResolveFound, ResolveAbsent, CloseNeverCreated,
          RecordProvisioned, ServePhase, PhaseFails, Moves, Leaves
    <3> QED BY <1>t, <2>0, <3>1
  <2>2. ASSUME NEW p \in Proc,
               Down(p) \/ Adopt(p) \/ Sweep(p) \/ EndedElsewhere(p) \/ Chooses(p) \/ Crash(p)
        PROVE  pc'[q] = "idle"
    <3>1. \E x : pc' = [pc EXCEPT ![p] = x] BY <1>t, <2>2, OtherSteps
    <3>2. CASE p # q BY <1>t, <2>0, <3>1, <3>2
    <3>3. CASE p = q
      <4>1. pc[q] = "idle" BY <1>t
      <4>2. AdoptLoad(q)
        BY <2>0, <2>2, <3>3, <4>1
        DEF Down, Adopt, Sweep, EndedElsewhere, Chooses, Crash, DownAlready, DownBegins, DownIntent,
            DownListed, DownUnlisted, DownDestroy, DownConfirm, DownFails, DownRecord,
            AdoptHold, AdoptGone, AdoptStopped, AdoptRunning, AdoptFails, AdoptReady, AdoptFinds,
            SweepRead, SweepReadFails, SweepGet, SweepDestroy, SweepConfirm, SweepGivesUp, SweepReload, SweepRecord,
            SuperviseEnds, EndServing, ResumeInterrupted, Health, DownLoad, SweepList, Moves
      <4>3. Billable(snap.state) /\ snap.known BY <4>2 DEF AdoptLoad
      <4> QED BY <1>t, <4>3 DEF Billable
    <3> QED BY <3>2, <3>3
  <2>3. CASE CreateLands \/ CreateRefused \/ InstanceFails \/ UNCHANGED vars
    BY <1>t, <2>3 DEF CreateLands, CreateRefused, InstanceFails, vars
  <2> QED BY <2>1, <2>2, <2>3, StepCases
<1> QED BY <1>1, <1>2

LEMMA SweepInvStep == ASSUME LifecycleInv, SweepInv, [Next]_vars PROVE SweepInv'
<1>t. /\ TypeOK /\ pc \in [Proc -> Place] /\ copy \in [Proc -> Rig]
      /\ snap.state \in States /\ \A p \in Proc : copy[p].state \in States
      /\ snap.state = "DESTROYED" => snap'.state = "DESTROYED"
  BY EndStays DEF LifecycleInv, TypeOK, SweepInv
<1>1. Roles' BY <1>t, RolesStep DEF SweepInv
<1>2. snap'.state \in States' /\ \A p \in Proc : copy'[p].state \in States'
  <2>1. States \subseteq States' /\ (pc[Owner] = "failed" => "FAILED" \in States')
    BY OwnerStep, Names DEF States
  <2>2. \A s \in {"IDLE", "SELECTED", "CREATING", "PROVISIONED", "BOOTSTRAPPING", "READY", "DEGRADED",
                  "STOPPED", "DRAINING", "DESTROYED"} : s \in States'
    BY DEF States, LifecycleState
  <2>3. snap.state \in States' /\ \A p \in Proc : copy[p].state \in States' BY <1>t, <2>1
  <2> DEFINE S == States'
  <2>4. /\ snap.state \in S /\ \A p \in Proc : copy[p].state \in S
        /\ {"IDLE", "SELECTED", "CREATING", "PROVISIONED", "BOOTSTRAPPING", "READY", "DEGRADED",
            "STOPPED", "DRAINING", "DESTROYED"} \subseteq S
        /\ pc[Owner] = "failed" => "FAILED" \in S
        /\ S \in SUBSET LifecycleState
    BY <2>1, <2>2, <2>3 DEF States
  <2> HIDE DEF S
  <2>5. snap'.state \in S /\ \A p \in Proc : copy'[p].state \in S
    BY <1>t, <2>4, StatesStep
  <2> QED BY <2>5 DEF S
<1>3. ASSUME NEW w \in Sweepers, pc'[w] \in {"reap", "kill"}
      PROVE  \/ copy'[w].state \in {"SELECTED", "FAILED"} \/ copy'[w] = NoRig
             \/ copy'[w].state = "DESTROYED" /\ snap'.state = "DESTROYED"
  <2>0. w \in Proc /\ w # Owner /\ w \notin Downers \cup Resumers BY Processes
  <2>1. CASE UNCHANGED <<pc[w], copy[w]>>
    BY <1>3, <1>t, <2>1 DEF SweepInv
  <2>2. CASE SweepGet(w)
    BY <1>t, <2>0, <2>2 DEF SweepGet, Moves, SweepInv, store
  <2>3. CASE SweepRead(w)
    <3>1. ~ExpectsInstance(snap.state) /\ copy'[w] = snap /\ snap' = snap
      BY <1>3, <1>t, <2>0, <2>3 DEF SweepRead, Leaves, Moves, Holds, store
    <3>2. snap.state # "IDLE"
      <4>1. pc[w] = "read" BY <2>3 DEF SweepRead, Moves
      <4>2. inst # "none" BY <2>0, <4>1 DEF LifecycleInv, ProviderInv
      <4>3. request # "none" BY <4>2 DEF LifecycleInv, ProviderInv
      <4> QED BY <4>3 DEF LifecycleInv, SpendInv, SpendIsOnRecord
    <3>3. snap.state \in {"SELECTED", "FAILED", "DESTROYED"}
      BY <1>t, <3>1, <3>2 DEF States, LifecycleState, ExpectsInstance
    <3> QED BY <3>1, <3>3
  <2>3a. CASE SweepReadFails(w)
    BY <1>t, <2>0, <2>3a DEF SweepReadFails, Holds
  <2>4. CASE /\ ~UNCHANGED <<pc[w], copy[w]>> /\ ~SweepGet(w) /\ ~SweepRead(w)
             /\ ~SweepReadFails(w)
    <3>1. Role(w, pc[w]) BY <2>0 DEF SweepInv, Roles
    <3>2. CASE Select \/ BringUp
      <4>1. (\E x : pc' = [pc EXCEPT ![Owner] = x]) /\ (UNCHANGED copy \/ \E x : copy' = [copy EXCEPT ![Owner] = x])
        BY <3>2
        DEF Select, BringUp, Intend, IntendFails, SendCreate, NotSent, CreateFails, CreateReturns, CreateErrs,
            JournalFailed, ResolveUnreachable, ResolveFound, ResolveAbsent, CloseNeverCreated,
            RecordProvisioned, ServePhase, PhaseFails, Moves, Leaves, Holds
      <4> QED BY <1>t, <2>0, <2>4, <4>1
    <3>3. ASSUME NEW p \in Proc,
                 Down(p) \/ Adopt(p) \/ Sweep(p) \/ EndedElsewhere(p) \/ Chooses(p) \/ Crash(p)
          PROVE  p = w
      <4>1. (\E x : pc' = [pc EXCEPT ![p] = x]) /\ (\E x : copy' = [copy EXCEPT ![p] = x])
        BY <1>t, <3>3, OtherSteps, OwnSteps
      <4> QED BY <1>t, <2>0, <2>4, <4>1
    <3>4. ASSUME Down(w) \/ Adopt(w) \/ Sweep(w) \/ EndedElsewhere(w) \/ Chooses(w) \/ Crash(w)
          PROVE  FALSE
      <4>1. pc[w] \in {"idle", "read", "reap", "kill", "proof", "reload", "reaped"} BY <3>1 DEF Role
      <4>2. ~Down(w) BY <4>1
        DEF Down, DownAlready, DownBegins, DownIntent, DownListed, DownUnlisted, DownDestroy,
            DownConfirm, DownFails, DownRecord, Moves
      <4>3. ~Adopt(w) /\ ~EndedElsewhere(w) BY <4>1
        DEF Adopt, AdoptHold, AdoptGone, AdoptStopped, AdoptRunning, AdoptFails, AdoptReady,
            AdoptFinds, EndedElsewhere, EndServing, Moves
      <4>4. ~Leaves(w) BY <1>3, <1>t, <2>0 DEF Leaves
      <4>5. ~Sweep(w) BY <1>3, <1>t, <2>0, <2>4, <4>4
        DEF Sweep, SweepDestroy, SweepConfirm, SweepGivesUp, SweepReload, SweepRecord, Moves
      <4>6. ~Chooses(w) /\ ~Crash(w) BY <1>3, <1>t, <2>0, <4>1, <4>4
        DEF Chooses, SuperviseEnds, EndServing, ResumeInterrupted, Health, DownLoad, AdoptLoad,
            SweepList, Crash, Moves
      <4> QED BY <3>4, <4>2, <4>3, <4>5, <4>6
    <3>5. CASE CreateLands \/ CreateRefused \/ InstanceFails \/ UNCHANGED vars
      BY <2>4, <3>5 DEF CreateLands, CreateRefused, InstanceFails, vars
    <3> QED BY <3>2, <3>3, <3>4, <3>5, StepCases
  <2> QED BY <2>1, <2>2, <2>3, <2>3a, <2>4
<1> QED BY <1>1, <1>2, <1>3, OwnerStep, UnservedStep DEF SweepInv

LEMMA InitSweep == Init => SweepInv
<1> SUFFICES ASSUME Init PROVE SweepInv OBVIOUS
<1>1. Roles BY Processes DEF Init, Roles, Role, Teardown
<1>2. snap.state \in States /\ \A p \in Proc : copy[p].state \in States
  BY RigStarts DEF Init, States, LifecycleState
<1>3. /\ pc[Owner] = "new" /\ ~Failed /\ ~snap.known /\ \A p \in Resumers \cup Sweepers : pc[p] = "idle"
  BY RigStarts, Processes DEF Init, Failed
<1> QED BY <1>1, <1>2, <1>3 DEF SweepInv, Unserved

\* What a sweep may have read holds in every reachable state.
THEOREM SweepInvariant == Spec => []SweepInv
<1>1. LifecycleInv /\ SweepInv /\ [Next]_vars => SweepInv' BY SweepInvStep
<1> QED BY <1>1, InitSweep, LifecycleInvariant, PTL DEF Spec

\* SweepOrphans skips what the record it read expects: of the rigs that come up
\* or serve, a sweep that could read the store destroys only one that was still
\* SELECTED when it was read, however old that is.
THEOREM SweepKillsSelected == Spec => SweepKillsOnlySelected
<1> DEFINE Spares == \A w \in Sweepers, p \in Proc :
                       pc[w] = "kill" /\ pc'[w] = "proof" /\ snap.state # "DESTROYED"
                         /\ pc[p] \in Phases \cup Serving
                       => copy[w].state = "SELECTED" \/ copy[w] = NoRig
<1>1. ASSUME SweepInv PROVE Spares
  <2> SUFFICES ASSUME NEW w \in Sweepers, NEW p \in Proc, pc[w] = "kill", snap.state # "DESTROYED",
                      pc[p] \in Phases \cup Serving, copy[w] # NoRig
               PROVE  copy[w].state = "SELECTED"
    OBVIOUS
  <2>0. w \in Proc /\ Proc = {Owner} \cup Downers \cup Resumers \cup Sweepers BY Processes
  <2>1. copy[w].state \in {"SELECTED", "FAILED"} BY <1>1 DEF SweepInv
  <2>2. ASSUME copy[w].state = "FAILED" PROVE FALSE
    <3>1. copy[w].state \in States BY <1>1, <2>0 DEF SweepInv
    <3>2. Failed BY <2>2, <3>1 DEF States
    <3>3. p # Owner BY <1>1, <3>2 DEF SweepInv
    <3>4. Unserved BY <3>2 DEF Unserved
    <3>5. p \notin Resumers
      <4>1. \A q \in Resumers : pc[q] = "idle" BY <1>1, <3>4 DEF SweepInv
      <4> QED BY <4>1 DEF Phases, Serving
    <3>6. Role(p, pc[p]) BY <1>1 DEF SweepInv, Roles
    <3> QED BY <2>0, <3>3, <3>5, <3>6 DEF Role, Phases, Serving, Teardown
  <2> QED BY <2>1, <2>2
<1>2. SweepInv => [Spares]_vars BY <1>1
<1> QED BY <1>2, SweepInvariant, PTL DEF Spec, SweepKillsOnlySelected

-----------------------------------------------------------------------------
(* What a record of "nothing was created" is worth                         *)

\* The create is over and done with, and nothing is left of it.
Settled ==
  inst \notin Billing /\ request # "inflight" /\ pc[Owner] \notin {"new", "intent", "create"}

\* Where a process acts on the rig's instance, and the rig it has in hand knows it.
Handling == {"provisioned", "take", "ask", "reconnect", "drain", "destroy", "confirm", "record"}
            \cup Phases \cup Serving
Fit(x, r) ==
  /\ x # "list"
  /\ x \in Handling => r.known
  /\ x = "down" => r.known \/ r.state = "DESTROYED"
InHand(p) == Fit(pc[p], copy[p])

\* Outside larri down, with every answer that sounds final being so: the owner
\* closes a create only when it is settled, nobody else has a rig in hand without
\* its instance, and so the record says "nothing" of a settled create only.
NothingInv ==
  /\ pc[Owner] \in {"failed", "resolve"} /\ cause # "unknown" => request # "inflight"
  /\ pc[Owner] = "never" \/ (pc[Owner] = "failed" /\ cause = "notsent") => Settled
  /\ snap.end = "nothing" => Settled
  /\ \A p \in Proc : (copy[p].end = "nothing" => Settled) /\ InHand(p)

\* No record comes to evidence that none had, but of absence; that nothing was
\* created is the word of a create given up, and of a teardown that lists.
LEMMA EndsStep ==
  ASSUME LifecycleInv, [Next]_vars, NEW S \in SUBSET Evidence,
         snap.end \in S, \A p \in Proc : copy[p].end \in S,
         "none" \in S, "absent" \in S,
         pc[Owner] = "never" \/ (\E p \in Proc : pc[p] = "list") => "nothing" \in S
  PROVE  snap'.end \in S /\ \A p \in Proc : copy'[p].end \in S
<1> DEFINE G == {r \in Rig : r.end \in S}
<1>1. /\ snap \in G /\ \A p \in Proc : copy[p] \in G
      /\ NoRig \in G /\ Selected \in G
  BY RigStarts DEF LifecycleInv, TypeOK
<1>2. ASSUME NEW r \in G
      PROVE  /\ \A s \in LifecycleState : [r EXCEPT !.state = s] \in G
             /\ [r EXCEPT !.known = TRUE] \in G
             /\ \A e \in S : /\ [r EXCEPT !.end = e] \in G
                             /\ \A s \in LifecycleState : [r EXCEPT !.state = s, !.end = e] \in G
  BY DEF Rig
<1>3. /\ \A s \in {"CREATING", "PROVISIONED", "BOOTSTRAPPING", "READY", "DEGRADED", "STOPPED",
                  "DRAINING", "DESTROYED", "FAILED"} : s \in LifecycleState
      /\ "absent" \in S /\ (pc[Owner] = "never" => "nothing" \in S)
      /\ \A p \in Proc : pc[p] = "list" => "nothing" \in S
  BY Names
<1>4. G \in SUBSET Rig /\ Owner \in Proc /\ \A r \in G : r.end \in S BY Processes
<1> HIDE DEF G
<1>5. snap' \in G /\ \A p \in Proc : copy'[p] \in G
  BY <1>1, <1>2, <1>3, <1>4, EditsStep
<1> QED BY <1>4, <1>5

\* What is settled stays so.
LEMMA SettledStays == ASSUME LifecycleInv, Settled, [Next]_vars PROVE Settled'
<1> USE DEF Settled
<1>t. /\ Owner \in Proc /\ pc \in [Proc -> Place] /\ TypeOK
      /\ inst \notin Billing /\ request # "inflight"
      /\ pc[Owner] \notin {"new", "intent", "create"}
  BY Processes DEF LifecycleInv, TypeOK
<1>1. pc'[Owner] \notin {"new", "intent", "create"} /\ request' = request
  <2>1. CASE Select \/ Intend \/ SendCreate \/ NotSent
    BY <1>t, <2>1 DEF Select, Intend, SendCreate, NotSent, Moves
  <2>2. CASE BringUp /\ ~Intend /\ ~SendCreate /\ ~NotSent
    <3>1. ASSUME Leaves(Owner) PROVE pc'[Owner] = "over" BY <1>t, <3>1 DEF Leaves
    <3>2. CASE IntendFails \/ ResolveUnreachable \/ ResolveAbsent \/ CloseNeverCreated
      BY <1>t, <3>1, <3>2
      DEF IntendFails, ResolveUnreachable, ResolveAbsent, CloseNeverCreated, Moves, provider
    <3>3. CASE CreateReturns \/ CreateErrs \/ JournalFailed \/ ResolveFound
      BY <1>t, <3>3
      DEF CreateReturns, CreateErrs, CreateFails, JournalFailed, ResolveFound, Moves, provider
    <3>4. CASE RecordProvisioned \/ PhaseFails
      BY <1>t, <3>4 DEF RecordProvisioned, PhaseFails, Moves, provider
    <3>5. CASE ServePhase
      <4>1. pc'[Owner] \in Phases \cup Serving BY <1>t, <3>5, Names DEF ServePhase
      <4> QED BY <1>t, <3>5, <4>1 DEF ServePhase, provider, Phases, Serving
    <3> QED BY <2>2, <3>2, <3>3, <3>4, <3>5 DEF BringUp
  <2>3. ASSUME NEW p \in Proc,
               Down(p) \/ Adopt(p) \/ Sweep(p) \/ EndedElsewhere(p) \/ Chooses(p) \/ Crash(p)
        PROVE  pc'[Owner] \notin {"new", "intent", "create"} /\ request' = request
    <3>1. request' = request /\ \E x : x \notin UpPlace /\ pc' = [pc EXCEPT ![p] = x]
      BY <1>t, <2>3, OtherSteps
    <3> QED BY <1>t, <3>1 DEF UpPlace
  <2>4. CASE CreateLands \/ CreateRefused \/ InstanceFails \/ UNCHANGED vars
    BY <1>t, <2>4 DEF CreateLands, CreateRefused, InstanceFails, vars
  <2> QED BY <2>1, <2>2, <2>3, <2>4, StepCases
<1>2. inst' \notin Billing
  <2>1. CASE inst = "none"
    <3>1. request # "landed" BY <2>1 DEF LifecycleInv, ProviderInv
    <3>2. inst' = "none" BY <1>1, <3>1, InstStep
    <3> QED BY <3>2 DEF Billing
  <2>2. CASE inst = "gone" BY <2>2, InstStep DEF Billing
  <2> QED BY <1>t, <2>1, <2>2 DEF TypeOK, Billing
<1> QED BY <1>t, <1>1, <1>2

\* A process takes up a rig's instance with a rig in hand that knows it.
LEMMA InHandStep ==
  ASSUME Downers = {}, LifecycleInv, NothingInv, [Next]_vars
  PROVE  \A p \in Proc : InHand(p)'
<1> DEFINE Fine == \A p \in Proc : InHand(p)'
<1> SUFFICES Fine OBVIOUS
<1>t. /\ Owner \in Proc /\ pc \in [Proc -> Place] /\ copy \in [Proc -> Rig] /\ snap \in Rig
      /\ \A p \in Proc : copy[p] \in Rig /\ Fit(pc[p], copy[p])
      /\ \A p \in Proc : p \notin Downers
  BY Processes DEF LifecycleInv, TypeOK, NothingInv, InHand
<1>m. ASSUME NEW p \in Proc, NEW x, NEW r, pc' = [pc EXCEPT ![p] = x], Fit(x, r),
             Holds(p, r) \/ (UNCHANGED copy /\ r = copy[p])
      PROVE  Fine
  <2>1. pc'[p] = x /\ copy'[p] = r BY <1>m, <1>t DEF Holds
  <2>2. \A q \in Proc \ {p} : pc'[q] = pc[q] /\ copy'[q] = copy[q] BY <1>m, <1>t DEF Holds
  <2>3. \A q \in Proc : Fit(pc'[q], copy'[q]) BY <1>m, <1>t, <2>1, <2>2
  <2> QED BY <2>3 DEF InHand, Fit
<1>u. ASSUME UNCHANGED <<pc, copy>> PROVE Fine BY <1>t, <1>u DEF InHand, Fit
<1>l. ASSUME NEW p \in Proc, Leaves(p) PROVE Fine
  <2>1. Fit(IF p = Owner THEN "over" ELSE "idle", NoRig) BY DEF Fit, Handling, Phases, Serving
  <2> QED BY <1>l, <1>m, <2>1 DEF Leaves
<1>r. ASSUME NEW p \in Proc, NEW r \in Rig, r.known \/ r.state = "DESTROYED", DownReturns(p, r)
      PROVE  Fine
  <2>1. Fit("down", r) BY <1>r DEF Fit, Handling, Phases, Serving
  <2> QED BY <1>l, <1>m, <1>r, <2>1 DEF DownReturns
<1>k. ASSUME NEW p \in Proc, NEW x, x # "list", NEW r, r.known,
             pc' = [pc EXCEPT ![p] = x], Holds(p, r) \/ (UNCHANGED copy /\ r = copy[p])
      PROVE  Fine
  <2>1. Fit(x, r) BY <1>k DEF Fit
  <2> QED BY <1>k, <1>m, <2>1
<1>f. ASSUME NEW p \in Proc, NEW x, x # "list", x # "down", x \notin Handling,
             pc' = [pc EXCEPT ![p] = x], (\E r : Holds(p, r)) \/ UNCHANGED copy
      PROVE  Fine
  <2>1. \A r : Fit(x, r) BY <1>f DEF Fit
  <2> QED BY <1>f, <1>m, <2>1
<1>e. ASSUME NEW p \in Proc
      PROVE  /\ \A s \in LifecycleState : [copy[p] EXCEPT !.state = s].known = copy[p].known
             /\ \A e \in Evidence : [copy[p] EXCEPT !.end = e].known = copy[p].known
             /\ [copy[p] EXCEPT !.known = TRUE].known
             /\ [copy[p] EXCEPT !.state = "DESTROYED"] \in Rig
             /\ [copy[p] EXCEPT !.state = "DESTROYED"].state = "DESTROYED"
  <2>1. "DESTROYED" \in LifecycleState BY Names
  <2> QED BY <1>t, <2>1 DEF Rig
<1>h. /\ \A p \in Proc : pc[p] # "list" /\ (pc[p] \in Handling => copy[p].known)
      /\ Handling = {"provisioned", "take", "ask", "reconnect", "drain", "destroy", "confirm",
                     "record", "boot", "pin", "verify", "launch", "serving"}
  BY <1>t DEF Fit, Handling, Phases, Serving
<1>n. /\ \A s \in {"PROVISIONED", "READY", "DEGRADED", "DRAINING", "CREATING"} : s \in LifecycleState
      /\ "absent" \in Evidence
  BY Names
<1> HIDE DEF Fine
<1>1. CASE Select \/ BringUp
  <2>1. CASE Select \/ Intend \/ SendCreate \/ NotSent \/ CreateErrs
    BY <1>f, <1>h, <1>t, <2>1
    DEF Select, Intend, SendCreate, NotSent, CreateErrs, CreateFails, Moves, Holds
  <2>2. CASE IntendFails \/ ResolveUnreachable \/ CloseNeverCreated
    BY <1>l, <1>t, <2>2 DEF IntendFails, ResolveUnreachable, CloseNeverCreated
  <2>3. CASE ResolveAbsent
    BY <1>f, <1>h, <1>l, <1>t, <2>3 DEF ResolveAbsent, Moves
  <2>4. CASE JournalFailed
    <3>1. PICK x \in {"never", "resolve"} : pc' = [pc EXCEPT ![Owner] = x]
      BY <2>4 DEF JournalFailed, Moves
    <3>2. (\E r : Holds(Owner, r)) \/ UNCHANGED copy BY <2>4 DEF JournalFailed
    <3> QED BY <1>f, <1>h, <1>t, <3>1, <3>2
  <2>5. CASE CreateReturns \/ ResolveFound
    BY <1>e, <1>k, <1>t, <2>5 DEF CreateReturns, ResolveFound, Moves
  <2>6. CASE RecordProvisioned
    <3> DEFINE r == [copy[Owner] EXCEPT !.state = "PROVISIONED"]
    <3>1. copy[Owner].known /\ r.known BY <1>e, <1>h, <1>n, <1>t, <2>6 DEF RecordProvisioned, Moves
    <3>2. \/ pc' = [pc EXCEPT ![Owner] = "boot"] /\ Holds(Owner, r)
          \/ pc' = [pc EXCEPT ![Owner] = "down"] /\ UNCHANGED copy
      BY <2>6 DEF RecordProvisioned, Moves
    <3> HIDE DEF r
    <3> QED BY <1>k, <1>t, <3>1, <3>2
  <2>7. CASE ServePhase
    <3> DEFINE r == [copy[Owner] EXCEPT !.state = PhaseState[pc[Owner]]]
    <3>1. pc[Owner] \in Phases /\ PhaseState[pc[Owner]] \in LifecycleState
      BY <2>7, Names DEF ServePhase
    <3>2. copy[Owner].known /\ r.known BY <1>e, <1>h, <1>t, <3>1 DEF Phases
    <3>3. PhaseAfter[pc[Owner]] \in Phases \cup Serving BY <3>1, Names
    <3>4. /\ pc' = [pc EXCEPT ![Owner] = PhaseAfter[pc[Owner]]]
          /\ Holds(Owner, r) \/ UNCHANGED copy
      BY <2>7 DEF ServePhase
    <3>5. PhaseAfter[pc[Owner]] # "list" BY <3>3 DEF Phases, Serving
    <3> HIDE DEF r
    <3> QED BY <1>k, <1>t, <3>2, <3>4, <3>5
  <2>8. CASE PhaseFails
    <3>1. copy[Owner].known BY <1>h, <1>t, <2>8 DEF PhaseFails, Phases
    <3> QED BY <1>k, <1>t, <2>8, <3>1 DEF PhaseFails
  <2> QED BY <1>1, <2>1, <2>2, <2>3, <2>4, <2>5, <2>6, <2>7, <2>8 DEF BringUp
<1>2. ASSUME NEW p \in Proc, Down(p) PROVE Fine
  <2>1. CASE DownAlready(p)
    <3>1. PICK r \in {copy[p], snap} : DownReturns(p, r) /\ r.state = "DESTROYED"
      BY <2>1 DEF DownAlready
    <3> QED BY <1>r, <1>t, <3>1
  <2>2. CASE DownFails(p)
    BY <1>h, <1>r, <1>t, <2>2 DEF DownFails
  <2>3. CASE DownRecord(p)
    <3>1. copy[p].known BY <1>h, <2>3 DEF DownRecord
    <3> DEFINE r == [copy[p] EXCEPT !.state = "DESTROYED"]
    <3>2. r \in Rig /\ r.state = "DESTROYED" BY <1>e
    <3>3. DownReturns(p, r) \/ DownReturns(p, copy[p]) \/ (snap.state = "DESTROYED" /\ DownReturns(p, snap))
      BY <2>3 DEF DownRecord, Refused
    <3> HIDE DEF r
    <3> QED BY <1>r, <1>t, <3>1, <3>2, <3>3
  <2>4. CASE DownBegins(p)
    <3>1. copy[p].known BY <1>t, <2>4 DEF DownBegins, Moves, Fit
    <3> QED BY <1>k, <2>4, <3>1 DEF DownBegins, Moves
  <2>5. CASE DownIntent(p)
    <3>1. copy[p].known /\ [copy[p] EXCEPT !.state = "DRAINING"].known
      BY <1>e, <1>h, <1>n, <2>5 DEF DownIntent, Moves
    <3> QED BY <1>k, <2>5, <3>1 DEF DownIntent, Moves
  <2>6. CASE DownListed(p) \/ DownUnlisted(p)
    BY <1>h, <2>6 DEF DownListed, DownUnlisted, Moves
  <2>7. CASE DownDestroy(p)
    <3>1. copy[p].known BY <1>h, <2>7 DEF DownDestroy, Moves
    <3> QED BY <1>k, <2>7, <3>1 DEF DownDestroy, Moves
  <2>8. CASE DownConfirm(p)
    <3>1. copy[p].known /\ [copy[p] EXCEPT !.end = "absent"].known
      BY <1>e, <1>h, <1>n, <2>8 DEF DownConfirm, Moves
    <3> QED BY <1>k, <2>8, <3>1 DEF DownConfirm, Moves
  <2> QED BY <1>2, <2>1, <2>2, <2>3, <2>4, <2>5, <2>6, <2>7, <2>8 DEF Down
<1>3. ASSUME NEW p \in Proc, Adopt(p) PROVE Fine
  <2>1. CASE AdoptGone(p) \/ AdoptStopped(p) \/ AdoptFails(p)
    BY <1>l, <2>1 DEF AdoptGone, AdoptStopped, AdoptFails
  <2>2. CASE AdoptHold(p)
    <3>1. pc[p] = "take" BY <2>2 DEF AdoptHold, Moves
    <3>2. copy[p].known BY <1>h, <3>1
    <3> QED BY <1>k, <1>l, <2>2, <3>2 DEF AdoptHold, Moves
  <2>3. CASE AdoptRunning(p)
    <3>1. copy[p].known BY <1>h, <2>3 DEF AdoptRunning, Moves
    <3> QED BY <1>k, <2>3, <3>1 DEF AdoptRunning, Moves
  <2>4. CASE AdoptReady(p)
    <3>1. copy[p].known /\ [copy[p] EXCEPT !.state = "READY"].known
      BY <1>e, <1>h, <1>n, <2>4 DEF AdoptReady, Moves
    <3> QED BY <1>k, <2>4, <3>1 DEF AdoptReady, Moves
  <2> QED BY <1>3, <2>1, <2>2, <2>3, <2>4 DEF Adopt
<1>4. ASSUME NEW p \in Proc, Sweep(p) PROVE Fine
  <2>1. CASE SweepRead(p) \/ SweepReload(p)
    BY <1>f, <1>h, <1>l, <2>1 DEF SweepRead, SweepReload, Moves
  <2>1a. CASE SweepReadFails(p)
    <3>1. Fit("reap", NoRig) BY DEF Fit, Handling, Phases, Serving
    <3> QED BY <1>m, <2>1a, <3>1 DEF SweepReadFails, Moves
  <2>2. CASE SweepGet(p) \/ SweepDestroy(p) \/ SweepConfirm(p)
    BY <1>f, <1>h, <2>2 DEF SweepGet, SweepDestroy, SweepConfirm, Moves
  <2>3. CASE SweepGivesUp(p) \/ SweepRecord(p)
    BY <1>l, <2>3 DEF SweepGivesUp, SweepRecord
  <2> QED BY <1>4, <2>1, <2>1a, <2>2, <2>3 DEF Sweep
<1>5. ASSUME NEW p \in Proc, EndedElsewhere(p) \/ Chooses(p) \/ Crash(p) PROVE Fine
  <2>1. CASE EndedElsewhere(p)
    <3>1. Fit("down", snap) BY <2>1 DEF EndedElsewhere, Fit, Handling, Phases, Serving
    <3> QED BY <1>m, <2>1, <3>1 DEF EndedElsewhere, EndServing, Moves
  <2>2. CASE SuperviseEnds(p)
    <3>1. copy[p].known BY <1>h, <2>2 DEF SuperviseEnds, EndServing, Moves
    <3> QED BY <1>k, <2>2, <3>1 DEF SuperviseEnds, EndServing, Moves
  <2>3. CASE ResumeInterrupted(p) \/ Crash(p)
    BY <1>l, <2>3 DEF ResumeInterrupted, Crash
  <2>4. CASE Health(p)
    <3>1. copy[p].known BY <1>h, <2>4 DEF Health
    <3>2. PICK s \in {"DEGRADED", "READY"} : Holds(p, [copy[p] EXCEPT !.state = s])
      BY <2>4 DEF Health
    <3>3. [copy[p] EXCEPT !.state = s].known BY <1>e, <1>n, <3>1
    <3>4. pc' = [pc EXCEPT ![p] = "serving"] BY <1>t, <2>4 DEF Health
    <3> QED BY <1>k, <3>2, <3>3, <3>4
  <2>5. CASE AdoptLoad(p)
    BY <1>k, <2>5 DEF AdoptLoad, Moves
  <2>6. CASE SweepList(p)
    <3>1. pc' = [pc EXCEPT ![p] = "read"] /\ UNCHANGED copy BY <2>6 DEF SweepList, Moves
    <3>2. Fit("read", copy[p]) BY DEF Fit, Handling, Phases, Serving
    <3> QED BY <1>m, <3>1, <3>2
  <2>7. CASE DownLoad(p)
    BY <1>t, <2>7 DEF DownLoad
  <2> QED BY <1>5, <2>1, <2>2, <2>3, <2>4, <2>5, <2>6, <2>7 DEF Chooses
<1>6. CASE CreateLands \/ CreateRefused \/ InstanceFails \/ UNCHANGED vars
  BY <1>u, <1>6 DEF CreateLands, CreateRefused, InstanceFails, vars
<1> QED BY <1>1, <1>2, <1>3, <1>4, <1>5, <1>6, StepCases

\* The owner takes a create for settled only on an answer that is.
LEMMA GivenUpStep ==
  ASSUME ~LateGateway, LifecycleInv, NothingInv, [Next]_vars
  PROVE  /\ pc'[Owner] \in {"failed", "resolve"} /\ cause' # "unknown" => request' # "inflight"
         /\ pc'[Owner] = "never" \/ (pc'[Owner] = "failed" /\ cause' = "notsent") => Settled'
<1> DEFINE Up == /\ pc[Owner] \in {"failed", "resolve"} /\ cause # "unknown" => request # "inflight"
                 /\ pc[Owner] = "never" \/ (pc[Owner] = "failed" /\ cause = "notsent") => Settled
           Fine == /\ pc'[Owner] \in {"failed", "resolve"} /\ cause' # "unknown" => request' # "inflight"
                   /\ pc'[Owner] = "never" \/ (pc'[Owner] = "failed" /\ cause' = "notsent") => Settled'
<1> SUFFICES Fine OBVIOUS
<1>t. /\ TypeOK /\ Owner \in Proc /\ pc \in [Proc -> Place] /\ Up /\ (Settled => Settled')
      /\ inst # "none" <=> request = "landed"
      /\ pc[Owner] = "create" => request = "none"
  BY Processes, SettledStays DEF LifecycleInv, TypeOK, NewInv, ProviderInv, NothingInv
<1>a. ASSUME pc'[Owner] \notin {"failed", "resolve", "never"} PROVE Fine BY <1>a
<1>u. ASSUME UNCHANGED <<request, cause>>, pc'[Owner] = pc[Owner] PROVE Fine BY <1>t, <1>u
<1> HIDE DEF Fine
<1>1. CASE Select \/ Intend \/ SendCreate
  BY <1>1, <1>a, <1>t DEF Select, Intend, SendCreate, Moves
<1>2. CASE CreateReturns \/ ResolveFound \/ RecordProvisioned \/ PhaseFails \/ ServePhase
  <2>1. CASE ServePhase
    <3>1. pc'[Owner] \in Phases \cup Serving BY <1>t, <2>1, Names DEF ServePhase
    <3> QED BY <1>a, <3>1 DEF Phases, Serving
  <2> QED BY <1>2, <1>a, <1>t, <2>1 DEF CreateReturns, ResolveFound, RecordProvisioned, PhaseFails, Moves
<1>3. CASE IntendFails \/ ResolveUnreachable \/ CloseNeverCreated
  <2>1. pc'[Owner] = "over"
    BY <1>3, <1>t DEF IntendFails, ResolveUnreachable, CloseNeverCreated, Leaves
  <2> QED BY <1>a, <2>1
<1>4. CASE NotSent
  <2>1. /\ pc[Owner] = "create" /\ pc'[Owner] = "failed" /\ request' = request
        /\ request = "none" /\ inst' = inst
    BY <1>4, <1>t DEF NotSent, CreateFails, Moves, provider
  <2>2. inst \notin Billing BY <1>t, <2>1 DEF Billing
  <2> QED BY <2>1, <2>2 DEF Fine, Settled
<1>5. CASE CreateErrs
  <2>1. pc'[Owner] = "failed" /\ UNCHANGED <<inst, request>>
    BY <1>5, <1>t DEF CreateErrs, CreateFails, Moves, provider
  <2>2. /\ cause' # "notsent"
        /\ cause' # "unknown" => request # "inflight"
    BY <1>5 DEF CreateErrs, CreateFails
  <2> QED BY <2>1, <2>2 DEF Fine
<1>6. CASE JournalFailed
  <2>1. /\ pc[Owner] = "failed" /\ UNCHANGED <<inst, request, cause>>
        /\ pc'[Owner] = IF cause = "notsent" THEN "never" ELSE "resolve"
    BY <1>6, <1>t DEF JournalFailed, Moves, provider, owner
  <2> QED BY <1>t, <2>1 DEF Fine
<1>7. CASE ResolveAbsent
  <2>1. CASE cause = "unknown"
    <3>1. pc'[Owner] = "over" BY <1>7, <1>t, <2>1 DEF ResolveAbsent, Leaves
    <3> QED BY <1>a, <3>1
  <2>2. CASE cause # "unknown"
    <3>1. /\ pc[Owner] = "resolve" /\ pc'[Owner] = "never" /\ UNCHANGED <<inst, request>>
          /\ inst \notin Billing
      BY <1>7, <1>t, <2>2 DEF ResolveAbsent, Moves, provider
    <3> QED BY <1>t, <2>2, <3>1 DEF Fine, Settled
  <2> QED BY <2>1, <2>2
<1>8. ASSUME NEW p \in Proc,
             Down(p) \/ Adopt(p) \/ Sweep(p) \/ EndedElsewhere(p) \/ Chooses(p) \/ Crash(p)
      PROVE  Fine
  <2>1. UNCHANGED <<request, cause>> /\ \E x : x \notin UpPlace /\ pc' = [pc EXCEPT ![p] = x]
    BY <1>8, <1>t, OtherSteps
  <2>2. CASE p = Owner
    <3>1. pc'[Owner] \notin UpPlace BY <1>t, <2>1, <2>2
    <3> QED BY <1>a, <3>1 DEF UpPlace
  <2>3. CASE p # Owner
    <3>1. pc'[Owner] = pc[Owner] BY <1>t, <2>1, <2>3
    <3> QED BY <1>u, <2>1, <3>1
  <2> QED BY <2>2, <2>3
<1>9. CASE CreateLands \/ CreateRefused \/ InstanceFails \/ UNCHANGED vars
  <2>1. UNCHANGED <<pc, cause>> /\ (request' = request \/ request' \in {"landed", "refused"})
    BY <1>9 DEF CreateLands, CreateRefused, InstanceFails, vars, owner
  <2> QED BY <1>t, <2>1 DEF Fine
<1> QED BY <1>1, <1>2, <1>3, <1>4, <1>5, <1>6, <1>7, <1>8, <1>9, StepCases DEF BringUp

LEMMA NothingStep ==
  ASSUME Downers = {}, ~LateGateway, LifecycleInv, NothingInv, [Next]_vars PROVE NothingInv'
<1>1. (snap'.end = "nothing" => Settled') /\ \A p \in Proc : copy'[p].end = "nothing" => Settled'
  <2> DEFINE S == IF Settled THEN {"none", "absent", "nothing"} ELSE {"none", "absent"}
  <2>1. TypeOK /\ snap.end \in Evidence /\ \A p \in Proc : copy[p].end \in Evidence
    BY DEF LifecycleInv, TypeOK, Rig
  <2>2. snap.end \in S /\ \A p \in Proc : copy[p].end \in S
    BY <2>1 DEF NothingInv, Evidence
  <2>3. "none" \in S /\ "absent" \in S OBVIOUS
  <2>4. pc[Owner] = "never" \/ (\E p \in Proc : pc[p] = "list") => "nothing" \in S
    BY DEF NothingInv, InHand, Fit
  <2>5. ("nothing" \in S => Settled) /\ S \in SUBSET Evidence BY Names
  <2> HIDE DEF S
  <2>6. snap'.end \in S /\ \A p \in Proc : copy'[p].end \in S
    BY <2>2, <2>3, <2>4, <2>5, EndsStep
  <2> QED BY <2>5, <2>6, SettledStays
<1> QED BY <1>1, GivenUpStep, InHandStep DEF NothingInv

\* Without a larri down beside it and a gateway that speaks for a create still
\* running, an ending recorded as "nothing was created" is true and stays so,
\* whoever resumes or sweeps: both exceptions are the runs' counterexamples.
THEOREM NothingCreatedTrue ==
  ASSUME Downers = {}, ~LateGateway PROVE Spec => []NothingCreatedIsTrue
<1>1. Init => NothingInv
  BY RigStarts, Processes
  DEF Init, NothingInv, InHand, Fit, Handling, Phases, Serving
<1>2. LifecycleInv /\ NothingInv /\ [Next]_vars => NothingInv' BY NothingStep
<1>3. NothingInv => NothingCreatedIsTrue BY DEF NothingInv, NothingCreatedIsTrue, Settled
<1> QED BY <1>1, <1>2, <1>3, LifecycleInvariant, PTL DEF Spec

=============================================================================
