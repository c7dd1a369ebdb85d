---------------------------- MODULE RigStoreProofs ----------------------------
(***************************************************************************)
(* What RigStore promises, proved for any number of processes, reasons and *)
(* journal entries.  StoreInv is inductive; the lemmas take its conjuncts  *)
(* one at a time, one step per action.                                     *)
(***************************************************************************)
EXTENDS RigStore, TLAPS

\* The actions of one process, so that a step names only those that matter.
LEMMA StepCases ==
  ASSUME Next
  PROVE  \/ \E p \in Proc :
              \/ Mint(p) \/ Load(p) \/ IntendCreate(p) \/ DownEnter(p)
              \/ IntendDrain(p) \/ CallSave(p) \/ LockRig(p) \/ GuardPass(p)
              \/ GuardRefuse(p) \/ GuardUnreadable(p) \/ AppendEntry(p)
              \/ RenameSnapshot(p) \/ SyncDir(p) \/ CallFails(p) \/ Crash(p)
              \/ \E to \in Targets, why \in Reason : CallTransition(p, to, why)
         \/ Writeback \/ PowerLoss
BY DEF Next, Step

-----------------------------------------------------------------------------

\* What RecordIntent appends is an entry.
LEMMA JournalledType ==
  ASSUME TypeOK, NEW p \in Proc, NEW to \in LifecycleState, Journalled(p, to)
  PROVE  journal' \in Seq(Entry)
<1>1. copy[p] \in Snapshot
  BY DEF TypeOK
<1>2. [from |-> copy[p].state, to |-> to,
       end |-> IF to = "DESTROYED" THEN copy[p].end ELSE NoReason] \in Entry
  BY <1>1 DEF Snapshot, Entry
<1>3. QED
  BY <1>2 DEF TypeOK, Journalled

\* Moving one process's copy to another state keeps the copies typed.
LEMMA CopyMoveType ==
  ASSUME TypeOK, NEW p \in Proc, NEW s \in LifecycleState
  PROVE  [copy EXCEPT ![p].state = s] \in [Proc -> Snapshot]
<1>1. [copy[p] EXCEPT !.state = s] \in Snapshot
  BY DEF TypeOK, Snapshot
<1>2. QED
  BY <1>1 DEF TypeOK

LEMMA TypeStep == TypeOK /\ [Next]_vars => TypeOK'
<1> SUFFICES ASSUME TypeOK, [Next]_vars PROVE TypeOK'
  OBVIOUS
<1> USE DEF TypeOK, Locked
<1>c. /\ NoCall \in Call /\ NoRig \in Snapshot
      /\ [state |-> "SELECTED", end |-> NoReason] \in Snapshot
      /\ \A p \in Proc : copy[p].state \in LifecycleState
      /\ Targets \subseteq LifecycleState
      /\ "CREATING" \in LifecycleState /\ "DRAINING" \in LifecycleState
  BY TargetsAssumption DEF NoCall, Call, NoRig, Snapshot, LifecycleState
<1>1. ASSUME NEW p \in Proc, Mint(p) PROVE TypeOK'
  <2>1. call' \in [Proc -> Call]
    BY <1>1, <1>c DEF Mint, Call, LifecycleState
  <2>2. QED
    BY <1>1, <1>c, <2>1 DEF Mint
<1>2. ASSUME NEW p \in Proc, Load(p) PROVE TypeOK'
  BY <1>2 DEF Load
<1>3. ASSUME NEW p \in Proc, IntendCreate(p) PROVE TypeOK'
  <2>1. journal' \in Seq(Entry)
    BY <1>3, <1>c, JournalledType DEF IntendCreate
  <2>2. copy' \in [Proc -> Snapshot]
    BY <1>3, <1>c, CopyMoveType DEF IntendCreate
  <2>3. QED
    BY <1>3, <2>1, <2>2 DEF IntendCreate
<1>4. ASSUME NEW p \in Proc, DownEnter(p) PROVE TypeOK'
  BY <1>4 DEF DownEnter
<1>5. ASSUME NEW p \in Proc, IntendDrain(p) PROVE TypeOK'
  <2>1. journal' \in Seq(Entry)
    BY <1>5, <1>c, JournalledType DEF IntendDrain
  <2>2. copy' \in [Proc -> Snapshot]
    BY <1>5, <1>c, CopyMoveType DEF IntendDrain
  <2>3. QED
    BY <1>5, <2>1, <2>2 DEF IntendDrain
<1>6. ASSUME NEW p \in Proc, NEW to \in Targets, NEW why \in Reason,
             CallTransition(p, to, why)
      PROVE TypeOK'
  <2>1. copy' \in [Proc -> Snapshot]
    BY <1>6 DEF CallTransition, Snapshot
  <2>2. call' \in [Proc -> Call]
    BY <1>6, <1>c DEF CallTransition, Call
  <2>3. QED
    BY <1>6, <2>1, <2>2 DEF CallTransition
<1>7. ASSUME NEW p \in Proc, CallSave(p) PROVE TypeOK'
  <2>1. call' \in [Proc -> Call]
    BY <1>7, <1>c DEF CallSave, Call
  <2>2. QED
    BY <1>7, <2>1 DEF CallSave
<1>8. ASSUME NEW p \in Proc, LockRig(p) PROVE TypeOK'
  BY <1>8 DEF LockRig
<1>9. ASSUME NEW p \in Proc, GuardPass(p) PROVE TypeOK'
  BY <1>9 DEF GuardPass, AfterGuard
<1>10. ASSUME NEW p \in Proc, GuardRefuse(p) PROVE TypeOK'
  BY <1>10, <1>c DEF GuardRefuse, ReturnError, Return
<1>11. ASSUME NEW p \in Proc, GuardUnreadable(p) PROVE TypeOK'
  <2>1. CASE call[p].to = "DESTROYED"
    <3>1. [call[p] EXCEPT !.blind = TRUE] \in Call
      BY DEF Call
    <3>2. QED
      BY <1>11, <2>1, <3>1 DEF GuardUnreadable, AfterGuard
  <2>2. CASE call[p].to # "DESTROYED"
    BY <1>11, <1>c, <2>2 DEF GuardUnreadable, ReturnError, Return
  <2>3. QED
    BY <2>1, <2>2
<1>12. ASSUME NEW p \in Proc, AppendEntry(p) PROVE TypeOK'
  <2>1. call[p].to \in LifecycleState
    BY DEF Call
  <2>2. journal' \in Seq(Entry)
    BY <1>12, <2>1, JournalledType DEF AppendEntry
  <2>3. copy' \in [Proc -> Snapshot]
    BY <1>12, <1>c, <2>1, CopyMoveType DEF AppendEntry
  <2>4. QED
    BY <1>12, <2>2, <2>3 DEF AppendEntry
<1>13. ASSUME NEW p \in Proc, RenameSnapshot(p) PROVE TypeOK'
  BY <1>13 DEF RenameSnapshot
<1>14. ASSUME NEW p \in Proc, SyncDir(p) PROVE TypeOK'
  BY <1>14, <1>c DEF SyncDir, Return
<1>15. ASSUME NEW p \in Proc, CallFails(p) PROVE TypeOK'
  <2>1. call[p].to \in LifecycleState
    BY DEF Call
  <2>2. journal' \in Seq(Entry)
    BY <1>15, <2>1, JournalledType DEF CallFails
  <2>3. QED
    BY <1>15, <1>c, <2>2 DEF CallFails, ReturnError, Return
<1>16. ASSUME NEW p \in Proc, Crash(p) PROVE TypeOK'
  BY <1>16, <1>c DEF Crash
<1>17. CASE Writeback
  BY <1>17 DEF Writeback
<1>18. CASE PowerLoss
  BY <1>18, <1>c DEF PowerLoss
<1>19. CASE UNCHANGED vars
  BY <1>19 DEF vars
<1>20. QED
  BY <1>1, <1>2, <1>3, <1>4, <1>5, <1>6, <1>7, <1>8, <1>9, <1>10, <1>11,
     <1>12, <1>13, <1>14, <1>15, <1>16, <1>17, <1>18, <1>19, StepCases

LEMMA InitStore == Init => StoreInv
<1> SUFFICES ASSUME Init PROVE StoreInv
  OBVIOUS
<1>1. TypeOK
  <2>1. NoRig \in Snapshot /\ NoCall \in Call
    BY DEF Snapshot, NoRig, Call, NoCall, LifecycleState
  <2>2. <<>> \in Seq(Entry)
    OBVIOUS
  <2>3. QED
    BY <2>1, <2>2 DEF Init, TypeOK, Locked
<1>2. LockInv /\ CallInv /\ GuardInv
  BY NobodyAssumption DEF Init, LockInv, CallInv, GuardInv, Locked
<1>3. CopyInv /\ JournalExplainsSnapshot
  BY DEF Init, CopyInv, JournalExplainsSnapshot, Explained, NoRig
<1>4. AckedEndSurvives
  BY DEF Init, AckedEndSurvives
<1>5. QED
  BY <1>1, <1>2, <1>3, <1>4 DEF StoreInv

-----------------------------------------------------------------------------
(* The flock, the call and the guard's answer                              *)

\* Between the guard and the rename nothing else renames: whoever is inside
\* its call holds the flock, and only a holder writes the snapshot.
LEMMA LockStep ==
  ASSUME StoreInv, [Next]_vars
  PROVE  LockInv' /\ CallInv' /\ GuardInv'
<1> USE NobodyAssumption, TargetsAssumption
    DEF StoreInv, TypeOK, LockInv, CallInv, GuardInv, Locked
<1>1. ASSUME NEW p \in Proc, Mint(p) PROVE LockInv' /\ CallInv' /\ GuardInv'
  BY <1>1 DEF Mint
<1>2. ASSUME NEW p \in Proc, Load(p) PROVE LockInv' /\ CallInv' /\ GuardInv'
  BY <1>2 DEF Load
<1>3. ASSUME NEW p \in Proc, IntendCreate(p) \/ DownEnter(p) \/ IntendDrain(p)
      PROVE LockInv' /\ CallInv' /\ GuardInv'
  BY <1>3 DEF IntendCreate, DownEnter, IntendDrain, Journalled
<1>6. ASSUME NEW p \in Proc, NEW to \in Targets, NEW why \in Reason,
             CallTransition(p, to, why)
      PROVE LockInv' /\ CallInv' /\ GuardInv'
  BY <1>6 DEF CallTransition
<1>7. ASSUME NEW p \in Proc, CallSave(p) PROVE LockInv' /\ CallInv' /\ GuardInv'
  BY <1>7 DEF CallSave
<1>8. ASSUME NEW p \in Proc, LockRig(p) PROVE LockInv' /\ CallInv' /\ GuardInv'
  BY <1>8 DEF LockRig
<1>9. ASSUME NEW p \in Proc, GuardPass(p) PROVE LockInv' /\ CallInv' /\ GuardInv'
  BY <1>9 DEF GuardPass, AfterGuard, GuardAllows
<1>10. ASSUME NEW p \in Proc, GuardRefuse(p) PROVE LockInv' /\ CallInv' /\ GuardInv'
  BY <1>10 DEF GuardRefuse, ReturnError, Return
<1>11. ASSUME NEW p \in Proc, GuardUnreadable(p)
       PROVE LockInv' /\ CallInv' /\ GuardInv'
  <2>1. CASE call[p].to = "DESTROYED"
    <3>0. \A q \in Proc : q # p => call'[q] = call[q]
      BY <1>11, <2>1 DEF GuardUnreadable
    <3>a. call[p].op = "Transition"
      BY <1>11, <2>1 DEF GuardUnreadable
    <3>b. /\ call'[p].op = call[p].op /\ call'[p].to = call[p].to
          /\ call'[p].from = call[p].from /\ call'[p].blind
      BY <1>11, <2>1 DEF GuardUnreadable, Call
    <3>1. /\ \A q \in Proc : /\ call'[q].op = call[q].op
                            /\ call'[q].to = call[q].to
                            /\ call'[q].from = call[q].from
          /\ \A q \in Proc : q # p => call'[q] = call[q]
          /\ call'[p].blind
          /\ call[p].op = "Transition"
      BY <3>0, <3>a, <3>b
    <3>2. pc' = [pc EXCEPT ![p] = "append"] /\ UNCHANGED <<view, lock, copy>>
      BY <1>11, <2>1, <3>1 DEF GuardUnreadable, AfterGuard
    <3>3. LockInv'
      BY <1>11, <3>2 DEF GuardUnreadable
    <3>4. CallInv'
      BY <1>11, <2>1, <3>1, <3>2 DEF GuardUnreadable
    <3>5. GuardInv'
      BY <1>11, <2>1, <3>1, <3>2 DEF GuardUnreadable
    <3>6. QED
      BY <3>3, <3>4, <3>5
  <2>2. CASE call[p].to # "DESTROYED"
    BY <1>11, <2>2 DEF GuardUnreadable, ReturnError, Return
  <2>3. QED
    BY <2>1, <2>2
<1>12. ASSUME NEW p \in Proc, AppendEntry(p) PROVE LockInv' /\ CallInv' /\ GuardInv'
  BY <1>12 DEF AppendEntry, Journalled
<1>13. ASSUME NEW p \in Proc, RenameSnapshot(p)
       PROVE LockInv' /\ CallInv' /\ GuardInv'
  BY <1>13 DEF RenameSnapshot
<1>14. ASSUME NEW p \in Proc, SyncDir(p) PROVE LockInv' /\ CallInv' /\ GuardInv'
  BY <1>14 DEF SyncDir, Return
<1>15. ASSUME NEW p \in Proc, CallFails(p) PROVE LockInv' /\ CallInv' /\ GuardInv'
  BY <1>15 DEF CallFails, ReturnError, Return, Journalled
<1>16. ASSUME NEW p \in Proc, Crash(p) PROVE LockInv' /\ CallInv' /\ GuardInv'
  BY <1>16 DEF Crash
<1>17. CASE Writeback
  BY <1>17 DEF Writeback
<1>18. CASE PowerLoss
  BY <1>18 DEF PowerLoss
<1>19. CASE UNCHANGED vars
  BY <1>19 DEF vars
<1>20. QED
  BY <1>1, <1>2, <1>3, <1>6, <1>7, <1>8, <1>9, <1>10, <1>11,
     <1>12, <1>13, <1>14, <1>15, <1>16, <1>17, <1>18, <1>19, StepCases

-----------------------------------------------------------------------------
(* The journal and the snapshot                                            *)

\* An entry never stops explaining what it explained: the journal only grows.
LEMMA StillExplained ==
  ASSUME NEW j \in Seq(Entry), NEW e \in Entry, NEW s, Explained(s, j)
  PROVE  Explained(s, Append(j, e))
<1>1. \A i \in DOMAIN j : i \in DOMAIN Append(j, e) /\ Append(j, e)[i] = j[i]
  OBVIOUS
<1>2. QED
  BY <1>1 DEF Explained

\* The entry just appended explains the state it moved to.
LEMMA NewEntryExplains ==
  ASSUME NEW j \in Seq(Entry), NEW e \in Entry, NEW s \in Snapshot,
         s.state = e.to, s.state = "DESTROYED" => s.end = e.end
  PROVE  Explained(s, Append(j, e))
<1>1. /\ Len(j) + 1 \in DOMAIN Append(j, e)
      /\ Append(j, e)[Len(j) + 1] = e
  OBVIOUS
<1>2. QED
  BY <1>1 DEF Explained

\* Both together, for what RecordIntent does to the journal.
LEMMA JournalledExplains ==
  ASSUME TypeOK, NEW p \in Proc, NEW to \in LifecycleState, Journalled(p, to)
  PROVE  /\ \A s : Explained(s, journal) => Explained(s, journal')
         /\ Explained([copy[p] EXCEPT !.state = to], journal')
<1> DEFINE e == [from |-> copy[p].state, to |-> to,
                 end |-> IF to = "DESTROYED" THEN copy[p].end ELSE NoReason]
<1>1. copy[p] \in Snapshot /\ journal \in Seq(Entry)
  BY DEF TypeOK
<1>2. e \in Entry
  BY <1>1 DEF Snapshot, Entry
<1>3. journal' = Append(journal, e)
  BY DEF Journalled
<1>4. /\ [copy[p] EXCEPT !.state = to] \in Snapshot
      /\ [copy[p] EXCEPT !.state = to].state = e.to
      /\ e.to = to
      /\ to = "DESTROYED" => [copy[p] EXCEPT !.state = to].end = e.end
  BY <1>1 DEF Snapshot
<1> HIDE DEF e
<1>5. \A s : Explained(s, journal) => Explained(s, Append(journal, e))
  BY <1>1, <1>2, StillExplained
<1>6. Explained([copy[p] EXCEPT !.state = to], Append(journal, e))
  <2> DEFINE s == [copy[p] EXCEPT !.state = to]
  <2>1. /\ s \in Snapshot /\ s.state = e.to
        /\ s.state = "DESTROYED" => s.end = e.end
    BY <1>4
  <2> HIDE DEF s
  <2>2. Explained(s, Append(journal, e))
    BY <1>1, <1>2, <2>1, NewEntryExplains
  <2>3. QED
    BY <2>2 DEF s
<1>7. QED
  BY <1>3, <1>5, <1>6

LEMMA ExplainStep ==
  ASSUME StoreInv, [Next]_vars
  PROVE  CopyInv' /\ JournalExplainsSnapshot'
<1> USE DEF CopyInv, JournalExplainsSnapshot, Correcting
<1>t. /\ TypeOK /\ CopyInv /\ JournalExplainsSnapshot
      /\ Explained(NoRig, journal')
      /\ Explained([state |-> "SELECTED", end |-> NoReason], journal')
  BY DEF StoreInv, Explained, NoRig
<1>c. copy \in [Proc -> Snapshot] /\ pc \in [Proc ->
        {"idle", "create", "intent", "lock"} \cup Locked]
      /\ call \in [Proc -> Call]
  BY <1>t DEF TypeOK
<1>1. ASSUME NEW p \in Proc, Mint(p) PROVE CopyInv' /\ JournalExplainsSnapshot'
  BY <1>1, <1>t, <1>c DEF Mint
<1>2. ASSUME NEW p \in Proc, Load(p) PROVE CopyInv' /\ JournalExplainsSnapshot'
  BY <1>2, <1>t, <1>c DEF Load
<1>3. ASSUME NEW p \in Proc, NEW to \in {"CREATING", "DRAINING"},
             Journalled(p, to), copy' = [copy EXCEPT ![p].state = to],
             ~Correcting(p), pc' = [pc EXCEPT ![p] = "idle"],
             UNCHANGED <<view, disk, call>>
      PROVE CopyInv' /\ JournalExplainsSnapshot'
  <2>1. to \in LifecycleState
    BY DEF LifecycleState
  <2>2. /\ \A s : Explained(s, journal) => Explained(s, journal')
        /\ Explained([copy[p] EXCEPT !.state = to], journal')
    BY <1>3, <1>t, <2>1, JournalledExplains
  <2>3. \A q \in Proc : copy'[q] = IF q = p THEN [copy[p] EXCEPT !.state = to]
                                            ELSE copy[q]
    BY <1>3, <1>c
  <2>4. QED
    BY <1>3, <1>t, <1>c, <2>2, <2>3
<1>4. ASSUME NEW p \in Proc, IntendCreate(p)
      PROVE CopyInv' /\ JournalExplainsSnapshot'
  <2>1. CASE Journalled(p, "CREATING")
               /\ copy' = [copy EXCEPT ![p].state = "CREATING"]
    BY <1>3, <1>4, <2>1 DEF IntendCreate
  <2>2. CASE UNCHANGED journal /\ copy' = [copy EXCEPT ![p] = NoRig]
    BY <1>4, <1>t, <1>c, <2>2 DEF IntendCreate
  <2>3. QED
    BY <1>4, <2>1, <2>2 DEF IntendCreate
<1>5. ASSUME NEW p \in Proc, DownEnter(p) PROVE CopyInv' /\ JournalExplainsSnapshot'
  BY <1>5, <1>t, <1>c DEF DownEnter
<1>6. ASSUME NEW p \in Proc, IntendDrain(p)
      PROVE CopyInv' /\ JournalExplainsSnapshot'
  <2>1. CASE Journalled(p, "DRAINING")
               /\ copy' = [copy EXCEPT ![p].state = "DRAINING"]
    BY <1>3, <1>6, <2>1 DEF IntendDrain
  <2>2. CASE UNCHANGED <<journal, copy>>
    BY <1>6, <1>t, <1>c, <2>2 DEF IntendDrain
  <2>3. QED
    BY <1>6, <2>1, <2>2 DEF IntendDrain
<1>7. ASSUME NEW p \in Proc, NEW to \in Targets, NEW why \in Reason,
             CallTransition(p, to, why)
      PROVE CopyInv' /\ JournalExplainsSnapshot'
  <2>1. CASE to = "DESTROYED"
    BY <1>7, <1>t, <1>c, <2>1 DEF CallTransition
  <2>2. CASE to # "DESTROYED"
    <3>1. copy' = copy
      BY <1>7, <1>c, <2>2 DEF CallTransition, Snapshot
    <3>2. QED
      BY <1>7, <1>t, <1>c, <3>1 DEF CallTransition
  <2>3. QED
    BY <2>1, <2>2
<1>8. ASSUME NEW p \in Proc, CallSave(p) \/ LockRig(p) \/ GuardPass(p)
      PROVE CopyInv' /\ JournalExplainsSnapshot'
  <2>1. CASE CallSave(p)
    BY <1>t, <1>c, <2>1 DEF CallSave
  <2>2. CASE LockRig(p)
    BY <1>t, <1>c, <2>2 DEF LockRig
  <2>3. CASE GuardPass(p)
    <3>1. call[p].to = "DESTROYED" => AfterGuard(p) = "append"
      BY <2>3 DEF GuardPass, AfterGuard, StoreInv, CallInv, Locked
    <3>2. QED
      BY <1>t, <1>c, <2>3, <3>1 DEF GuardPass
  <2>4. QED
    BY <1>8, <2>1, <2>2, <2>3
<1>9. ASSUME NEW p \in Proc, ReturnError(p), UNCHANGED journal
      PROVE CopyInv' /\ JournalExplainsSnapshot'
  BY <1>9, <1>t, <1>c DEF ReturnError, Return
<1>10. ASSUME NEW p \in Proc, GuardRefuse(p) PROVE CopyInv' /\ JournalExplainsSnapshot'
  BY <1>9, <1>10 DEF GuardRefuse
<1>11. ASSUME NEW p \in Proc, GuardUnreadable(p)
       PROVE CopyInv' /\ JournalExplainsSnapshot'
  <2>1. CASE call[p].to = "DESTROYED"
    <3>1. \A q \in Proc : call'[q].to = call[q].to
      BY <1>11, <1>c, <2>1 DEF GuardUnreadable, Call
    <3>2. AfterGuard(p) = "append"
      BY <1>11, <2>1 DEF GuardUnreadable, AfterGuard, StoreInv, CallInv, Locked
    <3>3. QED
      BY <1>11, <1>t, <1>c, <2>1, <3>1, <3>2 DEF GuardUnreadable
  <2>2. CASE call[p].to # "DESTROYED"
    BY <1>9, <1>11, <2>2 DEF GuardUnreadable
  <2>3. QED
    BY <2>1, <2>2
<1>12. ASSUME NEW p \in Proc, AppendEntry(p) PROVE CopyInv' /\ JournalExplainsSnapshot'
  <2>1. call[p].to \in LifecycleState
    BY <1>c DEF Call
  <2>2. /\ \A s : Explained(s, journal) => Explained(s, journal')
        /\ Explained([copy[p] EXCEPT !.state = call[p].to], journal')
    BY <1>12, <1>t, <2>1, JournalledExplains DEF AppendEntry
  <2>3. \A q \in Proc :
          copy'[q] = IF q = p THEN [copy[p] EXCEPT !.state = call[p].to]
                              ELSE copy[q]
    BY <1>12, <1>c DEF AppendEntry
  <2>4. QED
    BY <1>12, <1>t, <1>c, <2>2, <2>3 DEF AppendEntry
<1>13. ASSUME NEW p \in Proc, RenameSnapshot(p)
       PROVE CopyInv' /\ JournalExplainsSnapshot'
  BY <1>13, <1>t, <1>c DEF RenameSnapshot
<1>14. ASSUME NEW p \in Proc, SyncDir(p) PROVE CopyInv' /\ JournalExplainsSnapshot'
  BY <1>14, <1>t, <1>c DEF SyncDir, Return
<1>15. ASSUME NEW p \in Proc, CallFails(p) PROVE CopyInv' /\ JournalExplainsSnapshot'
  <2>1. CASE UNCHANGED journal
    BY <1>9, <1>15, <2>1 DEF CallFails
  <2>2. CASE Journalled(p, call[p].to)
    <3>1. call[p].to \in LifecycleState
      BY <1>c DEF Call
    <3>2. \A s : Explained(s, journal) => Explained(s, journal')
      BY <1>t, <2>2, <3>1, JournalledExplains
    <3>3. QED
      BY <1>15, <1>t, <1>c, <3>2 DEF CallFails, ReturnError, Return
  <2>3. QED
    BY <1>15, <2>1, <2>2 DEF CallFails
<1>16. ASSUME NEW p \in Proc, Crash(p) PROVE CopyInv' /\ JournalExplainsSnapshot'
  BY <1>16, <1>t, <1>c DEF Crash
<1>17. CASE Writeback
  BY <1>17, <1>t, <1>c DEF Writeback
<1>18. CASE PowerLoss
  BY <1>18, <1>t, <1>c DEF PowerLoss
<1>19. CASE UNCHANGED vars
  BY <1>19, <1>t, <1>c DEF vars
<1>20. QED
  BY <1>1, <1>2, <1>4, <1>5, <1>6, <1>7, <1>8, <1>10, <1>11, <1>12, <1>13,
     <1>14, <1>15, <1>16, <1>17, <1>18, <1>19, StepCases

-----------------------------------------------------------------------------
(* The ending that was acknowledged                                        *)

\* What readers see, and what callers were told, changes in four places.
LEMMA ViewChanges ==
  ASSUME [Next]_vars
  PROVE  \/ \E p \in Proc : RenameSnapshot(p) \/ SyncDir(p)
         \/ Writeback \/ PowerLoss
         \/ UNCHANGED <<view, disk, ended>>
<1>1. ASSUME NEW p \in Proc,
             \/ Mint(p) \/ Load(p) \/ IntendCreate(p) \/ DownEnter(p)
             \/ IntendDrain(p) \/ CallSave(p) \/ LockRig(p) \/ GuardPass(p)
             \/ GuardRefuse(p) \/ GuardUnreadable(p) \/ AppendEntry(p)
             \/ CallFails(p) \/ Crash(p)
             \/ \E to \in Targets, why \in Reason : CallTransition(p, to, why)
      PROVE  UNCHANGED <<view, disk, ended>>
  BY <1>1 DEF Mint, Load, IntendCreate, DownEnter, IntendDrain, CallSave,
       LockRig, GuardPass, GuardRefuse, GuardUnreadable, AppendEntry,
       CallFails, Crash, CallTransition, ReturnError
<1>2. CASE UNCHANGED vars
  BY <1>2 DEF vars
<1>3. QED
  BY <1>1, <1>2, StepCases

\* A snapshot that says DESTROYED is only ever replaced by one that does, so
\* it stays once a caller was told; and a caller is told after the sync.
LEMMA EndStep == StoreInv /\ [Next]_vars => AckedEndSurvives'
<1> SUFFICES ASSUME StoreInv, [Next]_vars PROVE AckedEndSurvives'
  OBVIOUS
<1> USE DEF AckedEndSurvives
<1>t. /\ AckedEndSurvives /\ GuardInv
      /\ view \in Snapshot /\ disk \in Snapshot
  BY DEF StoreInv, TypeOK
<1>c. \A p \in Proc : pc[p] \in {"write", "sync"} => copy[p].state = call[p].to
  BY DEF StoreInv, CallInv
<1>s. \A p \in Proc : pc[p] = "sync" => view = copy[p]
  BY DEF StoreInv, CallInv
<1>1. ASSUME UNCHANGED <<view, disk, ended>> PROVE AckedEndSurvives'
  BY <1>1, <1>t
<1>2. ASSUME NEW p \in Proc, RenameSnapshot(p) PROVE AckedEndSurvives'
  BY <1>2, <1>t, <1>c DEF RenameSnapshot, GuardInv
<1>3. ASSUME NEW p \in Proc, SyncDir(p) PROVE AckedEndSurvives'
  BY <1>3, <1>t, <1>c, <1>s DEF SyncDir
<1>4. CASE Writeback
  BY <1>4, <1>t DEF Writeback
<1>5. CASE PowerLoss
  BY <1>5, <1>t DEF PowerLoss
<1>6. QED
  BY <1>1, <1>2, <1>3, <1>4, <1>5, ViewChanges

LEMMA StoreStep == StoreInv /\ [Next]_vars => StoreInv'
BY TypeStep, LockStep, ExplainStep, EndStep DEF StoreInv

-----------------------------------------------------------------------------
(* What the store promises, for every instance                             *)

\* The record of every reader and writer has its type, and StoreInv, the
\* strengthening the promises below are read off, always holds.
THEOREM StoreInvariant == Spec => []StoreInv
BY InitStore, StoreStep, PTL DEF Spec

\* Once told, always so: a recorded ending outlives stale copies, crashes
\* and power losses (guardDestroyed under lockRig, and the syncs in write).
THEOREM AcknowledgedEndSurvives == Spec => []AckedEndSurvives
<1>1. StoreInv => AckedEndSurvives
  BY DEF StoreInv
<1>2. QED
  BY <1>1, StoreInvariant, PTL

\* Every snapshot past SELECTED, live or after a power loss, has the journal
\* entry that explains it (RecordIntent before write).
THEOREM JournalNeverBehind == Spec => []JournalExplainsSnapshot
<1>1. StoreInv => JournalExplainsSnapshot
  BY DEF StoreInv
<1>2. QED
  BY <1>1, StoreInvariant, PTL

\* Only a correction, a blind ending or a power loss changes a reason already
\* recorded: at the rename, the guard's answer is the one the flock kept.
THEOREM FirstReasonKept == Spec => FirstReasonStands
<1> DEFINE Kept ==
      view.state = "DESTROYED" /\ view'.end # view.end =>
        \/ \E p \in Proc : /\ pc[p] = "write"
                           /\ call[p].from = "DESTROYED" \/ call[p].blind
        \/ view' = disk
<1>1. ASSUME StoreInv, [Next]_vars PROVE [Kept]_vars
  <2>1. ASSUME NEW p \in Proc, RenameSnapshot(p) PROVE Kept
    BY <1>1, <2>1 DEF StoreInv, GuardInv, RenameSnapshot
  <2>2. CASE PowerLoss
    BY <2>2 DEF PowerLoss
  <2>3. CASE view' = view
    BY <2>3
  <2>4. QED
    <3>1. CASE \E p \in Proc : SyncDir(p)
      BY <2>3, <3>1 DEF SyncDir
    <3>2. CASE Writeback
      BY <2>3, <3>2 DEF Writeback
    <3>3. QED
      BY <1>1, <2>1, <2>2, <2>3, <3>1, <3>2, ViewChanges
<1> HIDE DEF Kept
<1>2. QED
  BY <1>1, StoreInvariant, PTL DEF Spec, FirstReasonStands, Kept

\* The system calls, the flock and the copies amount to RigRecord.
THEOREM StoreImplementsRecord == Spec => ImplementsRecord
<1> USE DEF Record!recordVars
<1>1. Init => Record!RecordInit
  BY DEF Init, NoRig, Record!RecordInit, Record!Absent
<1>2. ASSUME StoreInv, [Next]_vars
      PROVE  [Record!RecordNext]_<<view, disk, ended>>
  <2>1. ASSUME NEW p \in Proc, RenameSnapshot(p) PROVE Record!Put(copy[p])
    BY <1>2, <2>1 DEF StoreInv, CallInv, GuardInv, RenameSnapshot, Record!Put
  <2>2. ASSUME NEW p \in Proc, SyncDir(p)
        PROVE  Record!Settle \/ Record!Acknowledge
    <3>1. call[p].to = "DESTROYED" => view.state = "DESTROYED"
      BY <1>2, <2>2 DEF StoreInv, CallInv, SyncDir
    <3>2. QED
      BY <1>2, <2>2, <3>1
      DEF StoreInv, TypeOK, SyncDir, Record!Settle, Record!Acknowledge
  <2>3. CASE Writeback
    BY <2>3 DEF Writeback, Record!Settle, Record!RecordNext
  <2>4. CASE PowerLoss
    BY <2>4 DEF PowerLoss, Record!LosePower, Record!RecordNext
  <2>5. CASE UNCHANGED <<view, disk, ended>>
    BY <2>5
  <2>6. \A p \in Proc : copy[p] \in Record!Snapshots
    BY <1>2 DEF StoreInv, TypeOK, Snapshot, Record!Snapshots,
       LifecycleState, Record!LifecycleState
  <2>7. QED
    <3>1. CASE \E p \in Proc : RenameSnapshot(p)
      BY <2>1, <2>6, <3>1 DEF Record!RecordNext
    <3>2. CASE \E p \in Proc : SyncDir(p)
      BY <2>2, <3>2 DEF Record!RecordNext
    <3>3. CASE Writeback \/ PowerLoss
      BY <2>3, <2>4, <3>3 DEF Record!RecordNext
    <3>4. QED
      BY <1>2, <2>5, <3>1, <3>2, <3>3, ViewChanges
<1>3. QED
  BY <1>1, <1>2, StoreInvariant, PTL DEF Spec, ImplementsRecord, Record!RecordSpec
=============================================================================
