------------------------------ MODULE RigRecord ------------------------------
(***************************************************************************)
(* What internal/state promises of one rig's snapshot, with the processes, *)
(* the locks, the journal and the system calls left out: a record that     *)
(* changes in one step, that a power loss can take back to what had        *)
(* settled on disk, and that never leaves DESTROYED otherwise.             *)
(***************************************************************************)
EXTENDS Lifecycle

CONSTANTS Reason, NoReason

VARIABLES
  record,    \* what a reader loads
  settled,   \* what a reader would load after a power loss
  ended      \* some caller was told the rig is recorded DESTROYED

recordVars == <<record, settled, ended>>

Snapshots == [state : LifecycleState, end : Reason \cup {NoReason}]
Absent == [state |-> "IDLE", end |-> NoReason]

RecordInit == record = Absent /\ settled = Absent /\ ended = FALSE

\* A write lands whole; over DESTROYED only another DESTROYED does.
Put(r) ==
  /\ record.state = "DESTROYED" => r.state = "DESTROYED"
  /\ record' = r
  /\ UNCHANGED <<settled, ended>>

\* What is read becomes what a power loss would leave.
Settle ==
  /\ settled' = record
  /\ UNCHANGED <<record, ended>>

\* The caller of an ending is answered: only once it has settled.
Acknowledge ==
  /\ record.state = "DESTROYED"
  /\ settled' = record
  /\ ended' = TRUE
  /\ UNCHANGED record

LosePower ==
  /\ record' = settled
  /\ UNCHANGED <<settled, ended>>

RecordNext ==
  \/ \E r \in Snapshots : Put(r)
  \/ Settle \/ Acknowledge \/ LosePower

RecordSpec == RecordInit /\ [][RecordNext]_recordVars

=============================================================================
