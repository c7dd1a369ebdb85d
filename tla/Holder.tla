------------------------------- MODULE Holder -------------------------------
(***************************************************************************)
(* Who holds a rig: the flock, taken exclusively by the process serving it  *)
(* and shared, for an instant, by whoever asks; and the record beside it,  *)
(* replaced by rename, which names the holder and the logs of the earlier  *)
(* ones.  The kernel frees the lock of a process that dies; the record     *)
(* stays.                                                                  *)
(***************************************************************************)
EXTENDS Naturals, Sequences, FiniteSets

CONSTANTS
  Procs,      \* processes that take the rig; a pid is never used again
  Readers,    \* other callers of HolderOf: status, logs, resume
  Nobody,     \* no process: a pid of 0, or a rig without a record
  Detached,   \* the processes with a log, which goes by their name here
  MaxEarlier, \* maxEarlierLogs
  Attempts,   \* the tries for the lock that fit in its tenth of a second
  MaxHistory, \* bound on the logs written about
  Reboots     \* the power may fail

Callers == Procs \cup Readers

ASSUME HolderAssumption ==
  /\ Nobody \notin Callers /\ Procs \cap Readers = {} /\ IsFiniteSet(Callers)
  /\ Detached \subseteq Procs
  /\ MaxEarlier \in Nat \ {0} /\ MaxHistory \in Nat
  /\ Attempts \in Nat \ {0} /\ Cardinality(Callers) <= Attempts
  /\ Reboots \in BOOLEAN

VARIABLES
  lock,    \* who has it exclusively
  shared,  \* the callers probing it
  record,  \* the record: pid, earlier logs, and for comparison the whole history,
           \* since a holder last could not read it
  onDisk,  \* the records a power failure may bring back
  proc,    \* where a process is in Hold
  try,     \* its tries that failed, with the callers in their way and whether
           \* a holder was (observers)
  ask,     \* a caller's HolderOf, with who had the lock meanwhile (an observer)
  former   \* observer: who gave the rig up while alive

disk == <<record, onDisk>>
vars == <<lock, shared, disk, proc, try, ask, former>>

Record == [pid : Procs \cup {Nobody}, earlier : Seq(Procs), log : Procs \cup {Nobody}, all : Seq(Procs)]
NoRecord == [pid |-> Nobody, earlier |-> <<>>, log |-> Nobody, all |-> <<>>]
NoTry == [failed |-> 0, blockers |-> {}, met |-> FALSE]
NoCall == [pc |-> "none", held |-> FALSE, pid |-> Nobody, late |-> FALSE, seen |-> {}]

Alive(p) == p \in Procs /\ proc[p] \notin {"new", "dead"}
Calling(c) == ask[c].pc \in {"look", "probing", "read"}

TypeOK ==
  /\ lock \in Procs \cup {Nobody} /\ shared \subseteq Callers
  /\ record \in Record /\ onDisk \subseteq Record
  /\ proc \in [Procs -> {"new", "trying", "locked", "holding", "refused", "idle", "dead"}]
  /\ try \in [Procs -> [failed : 0..Attempts, blockers : SUBSET Callers, met : BOOLEAN]]
  /\ ask \in [Callers -> [pc : {"none", "look", "probing", "read", "answered"}, held : BOOLEAN,
                          pid : Procs \cup {Nobody}, late : BOOLEAN, seen : SUBSET Procs]]
  /\ former \subseteq Procs

Init ==
  /\ lock = Nobody /\ shared = {} /\ record = NoRecord /\ onDisk = {NoRecord}
  /\ proc = [p \in Procs |-> "new"] /\ try = [p \in Procs |-> NoTry]
  /\ ask = [c \in Callers |-> NoCall] /\ former = {}

-----------------------------------------------------------------------------
(* Taking and giving up the rig                                            *)

\* Hold opens the lock file.
Opens(p) ==
  /\ proc[p] \in {"new", "idle"} /\ ~Calling(p) /\ Len(record.all) < MaxHistory
  /\ proc' = [proc EXCEPT ![p] = "trying"] /\ ask' = [ask EXCEPT ![p] = NoCall]
  /\ UNCHANGED <<lock, shared, disk, try, former>>

\* The next try is 2 ms later, and no probe lasts that long.
Due(p) == proc[p] = "trying" /\ try[p].blockers \cap shared = {}

\* lockExclusive has it.
Locks(p) ==
  /\ Due(p) /\ lock = Nobody /\ shared = {}
  /\ lock' = p /\ proc' = [proc EXCEPT ![p] = "locked"]
  /\ try' = [try EXCEPT ![p] = NoTry]
  /\ ask' = [c \in Callers |->
       IF Calling(c) THEN [ask[c] EXCEPT !.seen = @ \cup {p}] ELSE ask[c]]
  /\ UNCHANGED <<shared, disk, former>>

\* Mutant of Blocked: a try that fails is the last.
BlockedOnce(p) ==
  /\ Due(p) /\ (lock # Nobody \/ shared # {})
  /\ try' = [try EXCEPT ![p] = [failed |-> 1, blockers |-> shared, met |-> lock # Nobody]]
  /\ proc' = [proc EXCEPT ![p] = "refused"]
  /\ UNCHANGED <<lock, shared, disk, ask, former>>

\* Or not, and has not much longer to wait: ErrHeld.
Blocked(p) ==
  /\ Due(p) /\ (lock # Nobody \/ shared # {})
  /\ try' = [try EXCEPT ![p] = [failed |-> @.failed + 1, blockers |-> @.blockers \cup shared,
                                 met |-> @.met \/ lock # Nobody]]
  /\ proc' = IF try'[p].failed = Attempts THEN [proc EXCEPT ![p] = "refused"] ELSE proc
  /\ UNCHANGED <<lock, shared, disk, ask, former>>

Own(p) == IF p \in Detached THEN p ELSE Nobody
Named(h) == IF h.log = Nobody THEN h.earlier ELSE Append(h.earlier, h.log)
Last(s) == s[Len(s)]
EndsWith(s, x) == s # <<>> /\ Last(s) = x
Newest(s, n) == IF Len(s) > n THEN SubSeq(s, Len(s) - n + 1, Len(s)) ELSE s

\* Mutant of Earlier: a holder's own log is not taken out of its history.
EarlierTwice(p, found) == Newest(Named(found), MaxEarlier)

\* What Hold makes of the record it finds.
Earlier(p, found) ==
  LET named == Named(found)
  IN Newest(IF EndsWith(named, Own(p)) THEN SubSeq(named, 1, Len(named) - 1) ELSE named, MaxEarlier)

\* The record is renamed into place; the directory is not synced.
Replaces(p, found) ==
  /\ record' = [pid |-> p, earlier |-> Earlier(p, found), log |-> Own(p),
                all |-> IF Own(p) = Nobody \/ EndsWith(found.all, Own(p)) THEN found.all
                        ELSE Append(found.all, Own(p))]
  /\ onDisk' = onDisk \cup {record'}

\* A record that cannot be read is replaced like one that is not there: what it
\* named is named no more.
Publishes(p) ==
  /\ proc[p] = "locked"
  /\ proc' = [proc EXCEPT ![p] = "holding"]
  /\ Replaces(p, record) \/ Replaces(p, NoRecord)
  /\ UNCHANGED <<lock, shared, try, ask, former>>

\* "A record that cannot be written fails the hold."
PublishFails(p) ==
  /\ proc[p] = "locked"
  /\ lock' = Nobody /\ proc' = [proc EXCEPT ![p] = "idle"]
  /\ UNCHANGED <<shared, disk, try, ask, former>>

Releases(p) ==
  /\ proc[p] = "holding"
  /\ lock' = Nobody /\ proc' = [proc EXCEPT ![p] = "idle"] /\ former' = former \cup {p}
  /\ UNCHANGED <<shared, disk, try, ask>>

Dies(p) ==
  /\ proc[p] \notin {"new", "dead"}
  /\ proc' = [proc EXCEPT ![p] = "dead"] /\ lock' = IF lock = p THEN Nobody ELSE lock
  /\ ask' = [ask EXCEPT ![p] = NoCall] /\ shared' = shared \ {p}
  /\ try' = [try EXCEPT ![p] = NoTry]
  /\ UNCHANGED <<disk, former>>

-----------------------------------------------------------------------------
(* Asking                                                                  *)

Asks(c) ==
  /\ IF c \in Procs THEN proc[c] = "refused" ELSE ~Calling(c)
  /\ ask' = [ask EXCEPT ![c] = [NoCall EXCEPT !.pc = "look", !.seen = {lock} \ {Nobody}]]
  /\ IF c \in Procs THEN proc' = [proc EXCEPT ![c] = "idle"] /\ try' = [try EXCEPT ![c] = NoTry]
     ELSE UNCHANGED <<proc, try>>
  /\ UNCHANGED <<lock, shared, disk, former>>

\* lockHeld.  A caller looks again only where it was told of a holder, or when
\* it asks again: it is not in the way of one attempt twice.
Probes(c) ==
  /\ ask[c].pc = "look"
  /\ IF lock = Nobody
     THEN /\ \A p \in Procs : proc[p] = "trying" => c \notin try[p].blockers
          /\ shared' = shared \cup {c} /\ ask' = [ask EXCEPT ![c].pc = "probing"]
     ELSE /\ ask' = [ask EXCEPT ![c].pc = "read", ![c].held = TRUE]
          /\ UNCHANGED shared
  /\ UNCHANGED <<lock, disk, proc, try, former>>

Unprobes(c) ==
  /\ ask[c].pc = "probing"
  /\ shared' = shared \ {c} /\ ask' = [ask EXCEPT ![c].pc = "read", ![c].held = FALSE]
  /\ UNCHANGED <<lock, disk, proc, try, former>>

\* Mutant of Reads: the record is taken as it is.
ReadsOnce(c) ==
  /\ ask[c].pc = "read"
  /\ ask' = [ask EXCEPT ![c].pc = "answered", ![c].pid = record.pid]
  /\ UNCHANGED <<lock, shared, disk, proc, try, former>>

\* The record, unless it names no live process and the lock is held; then,
\* 5 ms later, everything again ...
Reads(c) ==
  /\ ask[c].pc = "read"
  /\ ask' = IF ~ask[c].held \/ Alive(record.pid)
            THEN [ask EXCEPT ![c].pc = "answered", ![c].pid = record.pid]
            ELSE [ask EXCEPT ![c].pc = "look"]
  /\ UNCHANGED <<lock, shared, disk, proc, try, former>>

\* ... unless a quarter of a second is over.
ReadsLate(c) ==
  /\ ask[c].pc = "read" /\ ask[c].held /\ ~Alive(record.pid)
  /\ ask' = [ask EXCEPT ![c].pc = "answered", ![c].pid = record.pid, ![c].late = TRUE]
  /\ UNCHANGED <<lock, shared, disk, proc, try, former>>

\* Saving the rig's snapshot syncs the directory both records are in.
DirSynced ==
  /\ Reboots /\ onDisk' = {record}
  /\ UNCHANGED <<lock, shared, record, proc, try, ask, former>>

PowerFails ==
  /\ Reboots
  /\ lock' = Nobody /\ shared' = {}
  /\ \E r \in onDisk : record' = r /\ onDisk' = {r}
  /\ proc' = [p \in Procs |-> IF proc[p] = "new" THEN "new" ELSE "dead"]
  /\ ask' = [c \in Callers |-> NoCall]
  /\ try' = [p \in Procs |-> NoTry] /\ former' = {}

Hold(p) ==
  \/ Opens(p) \/ Locks(p) \/ Blocked(p) \/ Publishes(p) \/ PublishFails(p) \/ Releases(p) \/ Dies(p)

HolderOf(c) == Asks(c) \/ Probes(c) \/ Unprobes(c) \/ Reads(c) \/ ReadsLate(c)

Next ==
  \/ \E p \in Procs : Hold(p)
  \/ \E c \in Callers : HolderOf(c)
  \/ DirSynced \/ PowerFails

Spec == Init /\ [][Next]_vars

-----------------------------------------------------------------------------
(* Properties                                                              *)

\* A process that serves a rig has its lock, and the record names it: "a process
\* serving a rig that status, resume and logs cannot attribute to it is the
\* confusion the record exists to prevent" (Hold).
HolderIsNamed ==
  \A p \in Procs :
    /\ proc[p] \in {"locked", "holding"} <=> lock = p
    /\ proc[p] = "holding" => record.pid = p

\* A probe does not cost anybody the rig: who is refused has met a holder
\* (lockExclusive), whatever callers were asking meanwhile.
RefusedOnlyWhenHeld == \A p \in Procs : proc[p] = "refused" => try[p].met

\* The record names the logs of the rig's holders since one last could not read
\* it, oldest first, the newest MaxEarlier of them at least and none twice in a
\* row, also when the power fails between a rename and the directory's sync
\* (what that loses is the end).
HistoryKept ==
  LET named == Named(record)
  IN /\ named = Newest(record.all, Len(named))
     /\ Len(named) = Len(record.all) \/ Len(named) >= MaxEarlier

\* HolderOf names a process that held the rig during the call, or one that gave
\* it up and lives on: the former holder's record, read in the instant before
\* the next holder's is published.
AnswerNamesHolder ==
  \A c \in Callers :
    ask[c].pc = "answered" /\ ask[c].held /\ ~ask[c].late => ask[c].pid \in ask[c].seen \cup former

=============================================================================
