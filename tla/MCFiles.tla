------------------------------- MODULE MCFiles -------------------------------
(***************************************************************************)
(* Three files that processes share without one lock over their whole use of *)
(* them, the journal, the holder's record and the client keys, for TLC side   *)
(* by side: a behaviour is of one of them.  Where the holder is a launcher's  *)
(* child, its record's directory is synced before anything else goes on.     *)
(***************************************************************************)
EXTENDS Journal, Detach, ClientKeys

VARIABLE part
fvars == <<part, jvars, dvars, kvars>>

FilesInit ==
  /\ part \in {"journal", "holder", "detach", "keys"}
  /\ JournalInit
  /\ DetachInit /\ (part # "detach" => command = "up")
  /\ KeysInit

FilesNext ==
  \/ part = "journal" /\ JournalNext /\ UNCHANGED <<part, dvars, kvars>>
  \/ part = "holder" /\ Next /\ UNCHANGED <<part, child, launcher, killed, jvars, kvars>>
  \/ /\ part = "detach" /\ DetachNext /\ (onDisk # {record} => onDisk' = {record'})
     /\ UNCHANGED <<part, jvars, kvars>>
  \/ part = "keys" /\ KeysNext /\ UNCHANGED <<part, jvars, dvars>>

FilesSpec == FilesInit /\ [][FilesNext]_fvars
=============================================================================
