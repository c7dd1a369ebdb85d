------------------------------- MODULE RigStore -------------------------------
(***************************************************************************)
(* One rig's durable record, as internal/state/store.go keeps it, used by  *)
(* several larri processes at once: `larri up` serving the rig, `larri     *)
(* down` ending it from another terminal, an MCP session, an orphan sweep. *)
(*                                                                         *)
(* The record is two artefacts.  The journal is append-only and fsynced;   *)
(* the snapshot is replaced whole by a rename that only becomes durable    *)
(* when its directory is fsynced.  Every process works on a copy of the    *)
(* snapshot it loaded earlier, so a write can come from a copy another     *)
(* process has overtaken.  A call is modelled system call by system call   *)
(* under the rig's flock; processes crash between any two of them, and the *)
(* machine can lose power.  Rigs share no lock and no snapshot, so one rig *)
(* is modelled.                                                            *)
(***************************************************************************)
EXTENDS Lifecycle, Naturals, Sequences

CONSTANTS
  Proc,        \* larri processes
  Nobody,      \* the flock's owner when it is free
  Reason,      \* core.Termination values, told apart by identity only
  NoReason,    \* rig.End = nil
  Targets,     \* the states callers pass to Transition
  MaxEntries   \* bound on the journal: no call appends beyond it

ASSUME NobodyAssumption == Nobody \notin Proc
ASSUME ReasonAssumption == NoReason \notin Reason
ASSUME TargetsAssumption ==
  Targets \subseteq (LifecycleState \ {"IDLE", "SEARCHING", "SELECTED"})
ASSUME MaxEntriesAssumption == MaxEntries \in Nat

VARIABLES
  journal,   \* journal.jsonl, this rig's entries
  view,      \* the snapshot a Load returns now
  disk,      \* the snapshot a Load would return after a power loss
  lock,      \* who holds the rig's flock
  copy,      \* each process's in-memory *core.Rig
  pc,        \* where each process is in its call
  call,      \* the call's arguments, and the copy's state when it was made
  ended      \* history: some Transition to DESTROYED has returned nil

vars == <<journal, view, disk, lock, copy, pc, call, ended>>

Snapshot == [state : LifecycleState, end : Reason \cup {NoReason}]
NoRig == [state |-> "IDLE", end |-> NoReason]   \* no file, or no rig in hand

Entry == [from : LifecycleState, to : LifecycleState,
          end : Reason \cup {NoReason}]

Call == [op : {"none", "Mint", "Save", "Transition"}, to : LifecycleState,
         from : LifecycleState, blind : BOOLEAN]
NoCall == [op |-> "none", to |-> "IDLE", from |-> "IDLE", blind |-> FALSE]

\* Holding the flock: from lockRig returning to the deferred unlock.
Locked == {"guard", "append", "write", "sync"}

TypeOK ==
  /\ journal \in Seq(Entry)
  /\ view \in Snapshot
  /\ disk \in Snapshot
  /\ lock \in Proc \cup {Nobody}
  /\ copy \in [Proc -> Snapshot]
  /\ pc \in [Proc -> {"idle", "create", "intent", "lock"} \cup Locked]
  /\ call \in [Proc -> Call]
  /\ ended \in BOOLEAN

Init ==
  /\ journal = <<>>
  /\ view = NoRig
  /\ disk = NoRig
  /\ lock = Nobody
  /\ copy = [p \in Proc |-> NoRig]
  /\ pc = [p \in Proc |-> "idle"]
  /\ call = [p \in Proc |-> NoCall]
  /\ ended = FALSE

-----------------------------------------------------------------------------
(* Copies: where a process's rig comes from                                *)

\* Up mints the rig in memory and saves it SELECTED; nothing is journalled.
Mint(p) ==
  /\ pc[p] = "idle" /\ view = NoRig /\ journal = <<>>
  /\ \A q \in Proc : copy[q] = NoRig
  /\ copy' = [copy EXCEPT ![p] = [state |-> "SELECTED", end |-> NoReason]]
  /\ call' = [call EXCEPT ![p] = [op |-> "Mint", to |-> "SELECTED",
                                  from |-> "SELECTED", blind |-> FALSE]]
  /\ pc' = [pc EXCEPT ![p] = "lock"]
  /\ UNCHANGED <<journal, view, disk, lock, ended>>

\* Load takes no lock: the rename makes what it reads a whole snapshot.
Load(p) ==
  /\ pc[p] = "idle" /\ view # NoRig
  /\ copy' = [copy EXCEPT ![p] = view]
  /\ UNCHANGED <<journal, view, disk, lock, pc, call, ended>>

-----------------------------------------------------------------------------
(* RecordIntent: journal only, no lock, no guard                           *)

Journalled(p, to) ==
  /\ Len(journal) < MaxEntries
  /\ journal' = Append(journal,
       [from |-> copy[p].state, to |-> to,
        end |-> IF to = "DESTROYED" THEN copy[p].end ELSE NoReason])

\* Up's create intent, once the rig it minted is saved.  Up gives the rig up
\* when the entry cannot be written.
IntendCreate(p) ==
  /\ pc[p] = "create"
  /\ \/ /\ Journalled(p, "CREATING")
        /\ copy' = [copy EXCEPT ![p].state = "CREATING"]
     \/ /\ UNCHANGED journal
        /\ copy' = [copy EXCEPT ![p] = NoRig]
  /\ pc' = [pc EXCEPT ![p] = "idle"]
  /\ UNCHANGED <<view, disk, lock, call, ended>>

\* Down asks its copy, then the store, whether the rig is over already ...
DownEnter(p) ==
  /\ pc[p] = "idle" /\ copy[p] # NoRig /\ copy[p].state # "DESTROYED"
  /\ IF view.state = "DESTROYED"
     THEN /\ copy' = [copy EXCEPT ![p] = view]
          /\ UNCHANGED pc
     ELSE /\ pc' = [pc EXCEPT ![p] = "intent"]
          /\ UNCHANGED copy
  /\ UNCHANGED <<journal, view, disk, lock, call, ended>>

\* ... and only then journals its intent.
IntendDrain(p) ==
  /\ pc[p] = "intent"
  /\ \/ /\ Journalled(p, "DRAINING")
        /\ copy' = [copy EXCEPT ![p].state = "DRAINING"]
     \/ UNCHANGED <<journal, copy>>        \* the append failed: Down returns
  /\ pc' = [pc EXCEPT ![p] = "idle"]
  /\ UNCHANGED <<view, disk, lock, call, ended>>

-----------------------------------------------------------------------------
(* Transition and Save                                                     *)

\* A caller ending the rig sets rig.End before it calls.
CallTransition(p, to, why) ==
  /\ pc[p] = "idle" /\ copy[p] # NoRig
  /\ copy[p].state = "DESTROYED" => to = "DESTROYED"
  /\ copy' = [copy EXCEPT ![p].end = IF to = "DESTROYED" THEN why ELSE @]
  /\ call' = [call EXCEPT ![p] = [op |-> "Transition", to |-> to,
                                  from |-> copy[p].state, blind |-> FALSE]]
  /\ pc' = [pc EXCEPT ![p] = "lock"]
  /\ UNCHANGED <<journal, view, disk, lock, ended>>

\* Serve and Adopt save what they learned of the instance, never an ending.
CallSave(p) ==
  /\ pc[p] = "idle" /\ copy[p] # NoRig /\ copy[p].state # "DESTROYED"
  /\ call' = [call EXCEPT ![p] = [op |-> "Save", to |-> copy[p].state,
                                  from |-> copy[p].state, blind |-> FALSE]]
  /\ pc' = [pc EXCEPT ![p] = "lock"]
  /\ UNCHANGED <<journal, view, disk, lock, copy, ended>>

\* Mutant of LockRig: the guard and the write without the flock.
LockRigUnlocked(p) ==
  /\ pc[p] = "lock"
  /\ lock' = p
  /\ pc' = [pc EXCEPT ![p] = "guard"]
  /\ UNCHANGED <<journal, view, disk, copy, call, ended>>

LockRig(p) ==
  /\ pc[p] = "lock" /\ lock = Nobody
  /\ lock' = p
  /\ pc' = [pc EXCEPT ![p] = "guard"]
  /\ UNCHANGED <<journal, view, disk, copy, call, ended>>

\* The deferred unlock.
Return(p, then) ==
  /\ lock' = Nobody
  /\ pc' = [pc EXCEPT ![p] = then]
  /\ call' = [call EXCEPT ![p] = NoCall]

\* No caller uses its copy again after failing to mint the rig or to end it:
\* it gives up, or reloads the ending the store holds.
ReturnError(p) ==
  /\ Return(p, "idle")
  /\ copy' = [copy EXCEPT ![p] =
                 IF call[p].op = "Mint" \/ call[p].to = "DESTROYED"
                 THEN NoRig ELSE @]
  /\ UNCHANGED <<view, disk, ended>>

AfterGuard(p) == IF call[p].op = "Transition" THEN "append" ELSE "write"

GuardAllows(p) ==
  \/ view.state # "DESTROYED"
  \/ call[p].to = "DESTROYED" /\ call[p].from = "DESTROYED"

GuardPass(p) ==
  /\ pc[p] = "guard" /\ GuardAllows(p)
  /\ pc' = [pc EXCEPT ![p] = AfterGuard(p)]
  /\ UNCHANGED <<journal, view, disk, lock, copy, call, ended>>

\* ErrAlreadyDestroyed: nothing is written.
GuardRefuse(p) ==
  /\ pc[p] = "guard" /\ ~GuardAllows(p)
  /\ ReturnError(p)
  /\ UNCHANGED journal

\* The stored snapshot cannot be read: only an ending goes ahead.
GuardUnreadable(p) ==
  /\ pc[p] = "guard" /\ view # NoRig
  /\ IF call[p].to = "DESTROYED"
     THEN /\ call' = [call EXCEPT ![p].blind = TRUE]
          /\ pc' = [pc EXCEPT ![p] = AfterGuard(p)]
          /\ UNCHANGED <<view, disk, lock, copy, ended>>
     ELSE ReturnError(p)
  /\ UNCHANGED journal

\* Mutant of AppendEntry: the journal is left for after the snapshot.
AppendEntryLater(p) ==
  /\ pc[p] = "append"
  /\ copy' = [copy EXCEPT ![p].state = call[p].to]
  /\ pc' = [pc EXCEPT ![p] = "write"]
  /\ UNCHANGED <<journal, view, disk, lock, call, ended>>

\* Transition's journal entry; from here the copy in memory has moved.
AppendEntry(p) ==
  /\ pc[p] = "append"
  /\ Journalled(p, call[p].to)
  /\ copy' = [copy EXCEPT ![p].state = call[p].to]
  /\ pc' = [pc EXCEPT ![p] = "write"]
  /\ UNCHANGED <<view, disk, lock, call, ended>>

\* write: the temp file is written, fsynced and renamed over the snapshot.
RenameSnapshot(p) ==
  /\ pc[p] = "write"
  /\ view' = copy[p]
  /\ pc' = [pc EXCEPT ![p] = "sync"]
  /\ UNCHANGED <<journal, disk, lock, copy, call, ended>>

\* Mutant of SyncDir: the directory is never fsynced.
SyncDirSkipped(p) ==
  /\ pc[p] = "sync"
  /\ ended' = (ended \/ call[p].to = "DESTROYED")
  /\ Return(p, IF call[p].op = "Mint" THEN "create" ELSE "idle")
  /\ UNCHANGED <<journal, view, disk, copy>>

\* syncDir, after which the call returns nil.
SyncDir(p) ==
  /\ pc[p] = "sync"
  /\ disk' = view
  /\ ended' = (ended \/ call[p].to = "DESTROYED")
  /\ Return(p, IF call[p].op = "Mint" THEN "create" ELSE "idle")
  /\ UNCHANGED <<journal, view, copy>>

\* Any of those calls can fail.  A failed fsync leaves its entry readable.
CallFails(p) ==
  /\ pc[p] \in {"append", "write", "sync"}
  /\ ReturnError(p)
  /\ \/ UNCHANGED journal
     \/ pc[p] = "append" /\ Journalled(p, call[p].to)

-----------------------------------------------------------------------------
(* The world outside                                                       *)

\* A process dies: its memory goes, and the kernel frees its flock.
Crash(p) ==
  /\ copy' = [copy EXCEPT ![p] = NoRig]
  /\ pc' = [pc EXCEPT ![p] = "idle"]
  /\ call' = [call EXCEPT ![p] = NoCall]
  /\ lock' = IF lock = p THEN Nobody ELSE lock
  /\ UNCHANGED <<journal, view, disk, ended>>

\* A rename may reach the disk before anyone asks it to.
Writeback ==
  /\ disk' = view
  /\ UNCHANGED <<journal, view, lock, copy, pc, call, ended>>

PowerLoss ==
  /\ view' = disk
  /\ lock' = Nobody
  /\ copy' = [p \in Proc |-> NoRig]
  /\ pc' = [p \in Proc |-> "idle"]
  /\ call' = [p \in Proc |-> NoCall]
  /\ UNCHANGED <<journal, disk, ended>>

Step(p) ==
  \/ Mint(p) \/ Load(p) \/ IntendCreate(p) \/ DownEnter(p) \/ IntendDrain(p)
  \/ \E to \in Targets, why \in Reason : CallTransition(p, to, why)
  \/ CallSave(p) \/ LockRig(p)
  \/ GuardPass(p) \/ GuardRefuse(p) \/ GuardUnreadable(p)
  \/ AppendEntry(p) \/ RenameSnapshot(p) \/ SyncDir(p) \/ CallFails(p)
  \/ Crash(p)

Next == (\E p \in Proc : Step(p)) \/ Writeback \/ PowerLoss

Spec == Init /\ [][Next]_vars

-----------------------------------------------------------------------------
(* What the store promises                                                 *)

\* Once a process has been told the rig is recorded DESTROYED, no stale copy,
\* crash or power loss brings it back: both what is read now and what a
\* reboot would read say DESTROYED (guardDestroyed under lockRig, then
\* fsync, rename and fsync of the directory in write).
AckedEndSurvives ==
  ended => view.state = "DESTROYED" /\ disk.state = "DESTROYED"

\* The journal is never behind the snapshot, whatever fails: a snapshot past
\* SELECTED has an entry that moved the rig there, and one that ends the rig
\* has an entry with the very reason it gives, so "why is my rig gone" is
\* answerable from the journal alone (RecordIntent before write).
Explained(s, j) ==
  s.state \notin {"IDLE", "SELECTED"} =>
    \E i \in DOMAIN j :
      /\ j[i].to = s.state
      /\ s.state = "DESTROYED" => j[i].end = s.end
JournalExplainsSnapshot == Explained(view, journal) /\ Explained(disk, journal)

\* The reason first recorded stands.  Only a caller whose own copy already
\* said DESTROYED (an operator's correction), one that could not read the
\* snapshot, or a power loss undoing a rename not yet durable changes it.
FirstReasonStands ==
  [][view.state = "DESTROYED" /\ view'.end # view.end =>
       \/ \E p \in Proc : /\ pc[p] = "write"
                          /\ call[p].from = "DESTROYED" \/ call[p].blind
       \/ view' = disk]_vars

\* Seen by its readers, the whole protocol is one record that changes in one
\* step and never leaves DESTROYED: every step of every process is a step of
\* RigRecord or none.
Record == INSTANCE RigRecord WITH record <- view, settled <- disk
ImplementsRecord == Record!RecordSpec

\* Why those hold, conjunct by conjunct: the inductive invariant.  The flock
\* is held exactly by the process inside its call; what a call's arguments
\* and copy say at each point of it; the guard's answer stays true until the
\* rename, because the flock keeps other renames out; and a copy is always as
\* well explained by the journal as the snapshot it came from.
LockInv == \A p \in Proc : pc[p] \in Locked <=> lock = p

CallInv == \A p \in Proc :
  /\ pc[p] \in {"lock"} \cup Locked =>
       /\ call[p].op # "none"
       /\ call[p].to = "DESTROYED" => call[p].op = "Transition"
       /\ call[p].op # "Transition" => copy[p].state = call[p].to
  /\ pc[p] = "append" => call[p].op = "Transition"
  /\ pc[p] \in {"write", "sync"} => copy[p].state = call[p].to
  /\ pc[p] = "sync" => view = copy[p]

GuardInv == \A p \in Proc :
  pc[p] \in {"append", "write"} /\ view.state = "DESTROYED" =>
    /\ call[p].to = "DESTROYED"
    /\ call[p].from = "DESTROYED" \/ call[p].blind

\* A corrected reason is in the copy before it is in the journal.
Correcting(p) == pc[p] \in {"lock", "guard", "append"}
                   /\ call[p].to = "DESTROYED"
CopyInv == \A p \in Proc : Correcting(p) \/ Explained(copy[p], journal)

StoreInv ==
  /\ TypeOK /\ LockInv /\ CallInv /\ GuardInv /\ CopyInv
  /\ JournalExplainsSnapshot /\ AckedEndSurvives

\* guardDestroyed exists because a stale copy "put a pod that no longer
\* existed back to billing in the journal".  By that account a rig whose
\* ending was recorded is not billable by its last entry (Store.Billable).
EndedRigNotBillable ==
  ended => ~Billable(journal[Len(journal)].to)

=============================================================================
