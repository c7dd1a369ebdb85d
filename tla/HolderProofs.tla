---------------------------- MODULE HolderProofs ----------------------------
(***************************************************************************)
(* For any number of processes and callers: the lock and the record agree, *)
(* probes cost nobody the rig, HolderOf names a holder, the newest logs    *)
(* stay named; and a detached child with its launcher is one of those      *)
(* processes.                                                              *)
(***************************************************************************)
EXTENDS Detach, TLAPS, FiniteSetTheorems, SequenceTheorems

Call == [pc : {"none", "look", "probing", "read", "answered"}, held : BOOLEAN,
         pid : Procs \cup {Nobody}, late : BOOLEAN, seen : SUBSET Procs]
Try == [failed : 0..Attempts, blockers : SUBSET Callers, met : BOOLEAN]

LEMMA Constants ==
  /\ Nobody \notin Callers /\ Nobody \notin Procs /\ Procs \subseteq Callers /\ IsFiniteSet(Callers)
  /\ Detached \subseteq Procs /\ MaxEarlier \in Nat /\ Attempts \in Nat /\ Attempts # 0
  /\ Cardinality(Callers) <= Attempts
BY HolderAssumption DEF Callers

LEMMA Blank == NoCall \in Call /\ NoTry \in Try /\ NoRecord \in Record
<1>1. NoCall \in Call BY DEF NoCall, Call
<1>2. NoTry \in Try BY Constants DEF NoTry, Try
<1>3. NoRecord \in Record BY DEF NoRecord, Record
<1> QED BY <1>1, <1>2, <1>3

\* The end of a sequence is one of the same elements.
LEMMA NewestType == ASSUME NEW S, NEW s \in Seq(S), NEW n \in Nat PROVE Newest(s, n) \in Seq(S)
<1>1. CASE Len(s) > n
  <2>1. Len(s) - n + 1 \in Int /\ Len(s) \in Nat /\ Len(s) - n + 1 >= 1
    BY <1>1, LenProperties
  <2>2. SubSeq(s, Len(s) - n + 1, Len(s)) \in Seq(S) BY <2>1, SubSeqProperties
  <2> QED BY <1>1, <2>2 DEF Newest
<1>2. CASE ~(Len(s) > n) BY <1>2 DEF Newest
<1> QED BY <1>1, <1>2

\* Parts of the record Publishes writes.
LEMMA PublishedType ==
  ASSUME NEW found \in Record, NEW p \in Procs, Replaces(p, found)
  PROVE  record' \in Record /\ record'.pid = p /\ onDisk' = onDisk \cup {record'}
<1> DEFINE all == IF Own(p) = Nobody \/ EndsWith(found.all, Own(p)) THEN found.all
                  ELSE Append(found.all, Own(p))
           n == Named(found)
<1>1. Own(p) \in Procs \cup {Nobody} BY Constants DEF Own
<1>2. n \in Seq(Procs) /\ all \in Seq(Procs) BY <1>1 DEF Named, Record
<1>3. EndsWith(n, Own(p)) => SubSeq(n, 1, Len(n) - 1) \in Seq(Procs)
  BY <1>2, SubSeqProperties, LenProperties DEF EndsWith
<1>6. record' = [pid |-> p, earlier |-> Earlier(p, found), log |-> Own(p), all |-> all]
  BY DEF Replaces
<1> HIDE DEF n, all
<1>4. (IF EndsWith(n, Own(p)) THEN SubSeq(n, 1, Len(n) - 1) ELSE n) \in Seq(Procs)
  BY <1>2, <1>3 DEF n
<1>5. Earlier(p, found) \in Seq(Procs) BY <1>4, NewestType, Constants DEF Earlier, n
<1> QED BY <1>1, <1>2, <1>5, <1>6 DEF Record, Replaces

-----------------------------------------------------------------------------
(* Types                                                                   *)

Typed ==
  /\ lock \in Procs \cup {Nobody} /\ shared \subseteq Callers
  /\ record \in Record /\ onDisk \subseteq Record
  /\ proc \in [Procs -> {"new", "trying", "locked", "holding", "refused", "idle", "dead"}]
  /\ ask \in [Callers -> Call] /\ former \subseteq Procs

Tries == try \in [Procs -> Try]

LEMMA TypeParts == TypeOK <=> Typed /\ Tries
BY DEF TypeOK, Typed, Tries, Call, Try

\* Who refuses to try again has tries left until then.
Left == \A p \in Procs : proc[p] = "trying" => try[p].failed < Attempts
Fresh == \A p \in Procs : proc[p] \notin {"trying", "refused"} => try[p] = NoTry

TypeInv == Typed /\ Tries /\ Left /\ Fresh

LEMMA InitTyped == Init => TypeInv
BY Blank, Constants DEF Init, TypeInv, Typed, Tries, Left, Fresh, NoTry

LEMMA HoldTyped == ASSUME TypeInv, NEW p \in Procs, Hold(p) PROVE TypeInv'
<1>0. Typed /\ Tries /\ Left /\ Fresh BY DEF TypeInv
<1>1. CASE Opens(p)
  BY <1>0, <1>1, Blank, Constants DEF Opens, TypeInv, Typed, Tries, Left, Fresh, NoTry, disk
<1>2. CASE Locks(p)
  <2>1. \A c \in Callers : [ask[c] EXCEPT !.seen = @ \cup {p}] \in Call BY <1>0 DEF Typed, Call
  <2>2. ask' \in [Callers -> Call] BY <1>0, <1>2, <2>1 DEF Locks, Typed
  <2> QED BY <1>0, <1>2, <2>2, Blank DEF Locks, TypeInv, Typed, Tries, Left, Fresh, disk
<1>3. CASE Blocked(p)
  <2> DEFINE t == [failed |-> try[p].failed + 1, blockers |-> try[p].blockers \cup shared,
                   met |-> try[p].met \/ lock # Nobody]
  <2>1. try' = [try EXCEPT ![p] = t] /\ proc[p] = "trying"
    BY <1>3 DEF Blocked, Due
  <2>2. try[p] \in Try /\ try[p].failed < Attempts BY <1>0, <2>1 DEF Tries, Left
  <2>3. t \in Try BY <1>0, <2>2, Constants DEF Try, Typed
  <2>4. Tries' BY <1>0, <2>1, <2>3 DEF Tries
  <2>5. try'[p] = t /\ \A q \in Procs \ {p} : try'[q] = try[q] BY <1>0, <2>1 DEF Tries
  <2>6. Typed' BY <1>0, <1>3 DEF Blocked, Typed, disk
  <2>7. t.failed \in 0..Attempts BY <2>3 DEF Try
  <2>8. \/ proc' = [proc EXCEPT ![p] = "refused"]
        \/ t.failed # Attempts /\ proc' = proc
    BY <1>3, <2>5 DEF Blocked
  <2> HIDE DEF t
  <2>9. Left' BY <1>0, <2>1, <2>5, <2>7, <2>8, Constants DEF Left, Typed
  <2>10. Fresh' BY <1>0, <2>1, <2>5, <2>8 DEF Fresh, Typed
  <2> QED BY <2>4, <2>6, <2>9, <2>10 DEF TypeInv
<1>4. CASE Publishes(p)
  <2>1. PICK found \in {record, NoRecord} : Replaces(p, found) BY <1>4 DEF Publishes
  <2>2. found \in Record BY <1>0, Blank DEF Typed
  <2>3. record' \in Record /\ onDisk' = onDisk \cup {record'} BY <2>1, <2>2, PublishedType
  <2> QED BY <1>0, <1>4, <2>3 DEF Publishes, TypeInv, Typed, Tries, Left, Fresh
<1>5. CASE PublishFails(p)
  BY <1>0, <1>5 DEF PublishFails, TypeInv, Typed, Tries, Left, Fresh, disk
<1>6. CASE Releases(p)
  BY <1>0, <1>6 DEF Releases, TypeInv, Typed, Tries, Left, Fresh, disk
<1>7. CASE Dies(p)
  BY <1>0, <1>7, Blank DEF Dies, TypeInv, Typed, Tries, Left, Fresh, disk
<1> QED BY <1>1, <1>2, <1>3, <1>4, <1>5, <1>6, <1>7 DEF Hold

LEMMA AskTyped == ASSUME TypeInv, NEW c \in Callers, HolderOf(c) PROVE TypeInv'
<1>0. Typed /\ Tries /\ Left /\ Fresh /\ ask[c] \in Call BY DEF TypeInv, Typed
<1>1. CASE Asks(c)
  <2>1. [NoCall EXCEPT !.pc = "look", !.seen = {lock} \ {Nobody}] \in Call
    BY <1>0, Blank DEF Call, Typed
  <2>2. CASE c \in Procs
    BY <1>0, <1>1, <2>1, <2>2, Blank DEF Asks, TypeInv, Typed, Tries, Left, Fresh, disk
  <2>3. CASE c \notin Procs
    BY <1>0, <1>1, <2>1, <2>3 DEF Asks, TypeInv, Typed, Tries, Left, Fresh, disk
  <2> QED BY <2>2, <2>3
<1>2. ASSUME ask' \in [Callers -> Call], shared' \subseteq Callers, UNCHANGED <<lock, record, onDisk, proc, try, former>>
      PROVE  TypeInv'
  BY <1>0, <1>2 DEF TypeInv, Typed, Tries, Left, Fresh
<1>3. CASE Probes(c)
  <2>1. [ask[c] EXCEPT !.pc = "probing"] \in Call /\ [ask[c] EXCEPT !.pc = "read", !.held = TRUE] \in Call
    BY <1>0 DEF Call
  <2> QED BY <1>0, <1>2, <1>3, <2>1 DEF Probes, Typed, disk
<1>4. CASE Unprobes(c)
  <2>1. [ask[c] EXCEPT !.pc = "read", !.held = FALSE] \in Call BY <1>0 DEF Call
  <2> QED BY <1>0, <1>2, <1>4, <2>1 DEF Unprobes, Typed, disk
<1>5. CASE Reads(c) \/ ReadsLate(c)
  <2>1. record.pid \in Procs \cup {Nobody} BY <1>0 DEF Typed, Record
  <2>2. /\ [ask[c] EXCEPT !.pc = "answered", !.pid = record.pid] \in Call
        /\ [ask[c] EXCEPT !.pc = "look"] \in Call
        /\ [ask[c] EXCEPT !.pc = "answered", !.pid = record.pid, !.late = TRUE] \in Call
    BY <1>0, <2>1 DEF Call
  <2> QED BY <1>0, <1>2, <1>5, <2>2 DEF Reads, ReadsLate, Typed, disk
<1> QED BY <1>1, <1>3, <1>4, <1>5 DEF HolderOf

LEMMA NextTyped == ASSUME TypeInv, [Next]_vars PROVE TypeInv'
<1>1. CASE DirSynced
  BY <1>1 DEF DirSynced, TypeInv, Typed, Tries, Left, Fresh
<1>2. CASE PowerFails
  BY <1>2, Blank DEF PowerFails, TypeInv, Typed, Tries, Left, Fresh
<1>3. CASE UNCHANGED vars
  BY <1>3 DEF vars, disk, TypeInv, Typed, Tries, Left, Fresh
<1> QED BY <1>1, <1>2, <1>3, HoldTyped, AskTyped DEF Next

THEOREM TypesHold == Spec => []TypeInv
BY InitTyped, NextTyped, PTL DEF Spec

-----------------------------------------------------------------------------
(* The lock and the record                                                 *)

\* A record is written by a process that has begun; while it lives on it has
\* the lock or gave it up.
Written ==
  /\ \A r \in onDisk \cup {record} : r.pid \in Procs => proc[r.pid] # "new"
  /\ Alive(record.pid) => proc[record.pid] = "holding" \/ record.pid \in former
\* A caller has seen who has the lock.
Seen == \A c \in Callers : Calling(c) /\ lock # Nobody => lock \in ask[c].seen

NameInv == HolderIsNamed /\ Written /\ Seen /\ AnswerNamesHolder

LEMMA InitNames == Init => NameInv
BY Constants DEF Init, NameInv, HolderIsNamed, Written, Seen, AnswerNamesHolder, Alive, Calling, NoCall, NoRecord

LEMMA HoldNames == ASSUME TypeInv, NameInv, NEW p \in Procs, Hold(p) PROVE NameInv'
<1>0. Typed /\ HolderIsNamed /\ Written /\ Seen /\ AnswerNamesHolder /\ p # Nobody /\ p \in Callers
  BY Constants DEF TypeInv, NameInv
<1>1. CASE Opens(p)
  <2>1. HolderIsNamed' BY <1>0, <1>1 DEF Opens, HolderIsNamed, Typed, disk
  <2>2. Written' BY <1>0, <1>1 DEF Opens, Written, Alive, Typed, disk
  <2>3. Seen' /\ AnswerNamesHolder'
    BY <1>0, <1>1 DEF Opens, Seen, AnswerNamesHolder, Calling, Typed, NoCall
  <2> QED BY <2>1, <2>2, <2>3 DEF NameInv
<1>2. CASE Locks(p)
  <2>1. HolderIsNamed' BY <1>0, <1>2, Constants DEF Locks, Due, HolderIsNamed, Typed, disk
  <2>2. Written' BY <1>0, <1>2 DEF Locks, Due, Written, Alive, Typed, disk
  <2>3. ASSUME NEW c \in Callers
        PROVE  /\ ask'[c].pc = ask[c].pc /\ ask'[c].held = ask[c].held /\ ask'[c].late = ask[c].late
               /\ ask'[c].pid = ask[c].pid
               /\ ask'[c].seen = IF Calling(c) THEN ask[c].seen \cup {p} ELSE ask[c].seen
    <3>1. ask[c] \in Call BY <1>0 DEF Typed
    <3> QED BY <1>2, <3>1 DEF Locks, Call
  <2>4. Seen' BY <1>2, <2>3 DEF Locks, Seen, Calling
  <2>5. AnswerNamesHolder' BY <1>0, <1>2, <2>3 DEF Locks, AnswerNamesHolder, Calling
  <2> QED BY <2>1, <2>2, <2>4, <2>5 DEF NameInv
<1>3. CASE Blocked(p)
  <2>1. HolderIsNamed' BY <1>0, <1>3 DEF Blocked, Due, HolderIsNamed, Typed, disk
  <2>2. Written' BY <1>0, <1>3 DEF Blocked, Due, Written, Alive, Typed, disk
  <2>3. Seen' /\ AnswerNamesHolder' BY <1>0, <1>3 DEF Blocked, Seen, AnswerNamesHolder, Calling
  <2> QED BY <2>1, <2>2, <2>3 DEF NameInv
<1>4. CASE Publishes(p)
  <2>0. record'.pid = p /\ onDisk' = onDisk \cup {record'} BY <1>4 DEF Publishes, Replaces
  <2>1. HolderIsNamed' BY <1>0, <1>4, <2>0 DEF Publishes, HolderIsNamed, Typed
  <2>2. Written' BY <1>0, <1>4, <2>0 DEF Publishes, Written, Alive, Typed
  <2>3. Seen' /\ AnswerNamesHolder' BY <1>0, <1>4 DEF Publishes, Seen, AnswerNamesHolder, Calling
  <2> QED BY <2>1, <2>2, <2>3 DEF NameInv
<1>5. CASE PublishFails(p)
  <2>1. HolderIsNamed' BY <1>0, <1>5, Constants DEF PublishFails, HolderIsNamed, Typed, disk
  <2>2. Written' BY <1>0, <1>5 DEF PublishFails, Written, Alive, Typed, disk
  <2>3. Seen' /\ AnswerNamesHolder' BY <1>0, <1>5 DEF PublishFails, Seen, AnswerNamesHolder, Calling
  <2> QED BY <2>1, <2>2, <2>3 DEF NameInv
<1>6. CASE Releases(p)
  <2>1. HolderIsNamed' BY <1>0, <1>6, Constants DEF Releases, HolderIsNamed, Typed, disk
  <2>2. Written' BY <1>0, <1>6 DEF Releases, Written, Alive, Typed, disk
  <2>3. Seen' /\ AnswerNamesHolder' BY <1>0, <1>6 DEF Releases, Seen, AnswerNamesHolder, Calling
  <2> QED BY <2>1, <2>2, <2>3 DEF NameInv
<1>7. CASE Dies(p)
  <2>1. HolderIsNamed' BY <1>0, <1>7, Constants DEF Dies, HolderIsNamed, Typed, disk
  <2>2. Written' BY <1>0, <1>7 DEF Dies, Written, Alive, Typed, disk
  <2>3. Seen' /\ AnswerNamesHolder'
    BY <1>0, <1>7 DEF Dies, Seen, AnswerNamesHolder, Calling, Typed, NoCall
  <2> QED BY <2>1, <2>2, <2>3 DEF NameInv
<1> QED BY <1>1, <1>2, <1>3, <1>4, <1>5, <1>6, <1>7 DEF Hold

LEMMA AskNames == ASSUME TypeInv, NameInv, NEW c \in Callers, HolderOf(c) PROVE NameInv'
<1>0. Typed /\ HolderIsNamed /\ Written /\ Seen /\ AnswerNamesHolder /\ ask[c] \in Call
  BY DEF TypeInv, NameInv, Typed
<1>1. UNCHANGED <<lock, record, onDisk, former>>
  BY DEF HolderOf, Asks, Probes, Unprobes, Reads, ReadsLate, disk
<1>2. HolderIsNamed' /\ Written'
  <2>1. CASE Asks(c) /\ c \in Procs
    BY <1>0, <1>1, <2>1 DEF Asks, HolderIsNamed, Written, Alive, Typed
  <2>2. CASE proc' = proc
    BY <1>0, <1>1, <2>2 DEF HolderIsNamed, Written, Alive
  <2> QED BY <2>1, <2>2 DEF HolderOf, Asks, Probes, Unprobes, Reads, ReadsLate
<1>3. ASSUME NEW x, ask' = [ask EXCEPT ![c] = x],
             x.pc \in {"look", "probing", "read"} /\ lock # Nobody => lock \in x.seen,
             x.pc = "answered" /\ x.held /\ ~x.late => x.pid \in x.seen \cup former
      PROVE  Seen' /\ AnswerNamesHolder'
  BY <1>0, <1>1, <1>3 DEF Seen, AnswerNamesHolder, Calling, Typed
<1>4. CASE Asks(c)
  <2> DEFINE x == [NoCall EXCEPT !.pc = "look", !.seen = {lock} \ {Nobody}]
  <2>1. x.pc = "look" /\ x.seen = {lock} \ {Nobody} BY DEF NoCall
  <2>2. ask' = [ask EXCEPT ![c] = x] BY <1>4 DEF Asks
  <2> HIDE DEF x
  <2>3. Seen' /\ AnswerNamesHolder' BY <1>3, <2>1, <2>2
  <2> QED BY <1>2, <2>3 DEF NameInv
<1>5. CASE Probes(c)
  <2> DEFINE x == [ask[c] EXCEPT !.pc = "probing"]
             y == [ask[c] EXCEPT !.pc = "read", !.held = TRUE]
  <2>1. /\ x.pc = "probing" /\ x.seen = ask[c].seen
        /\ y.pc = "read" /\ y.seen = ask[c].seen
    BY <1>0 DEF Call
  <2>2. ask' = [ask EXCEPT ![c] = x] \/ ask' = [ask EXCEPT ![c] = y] BY <1>5 DEF Probes
  <2>3. lock # Nobody => lock \in ask[c].seen BY <1>0, <1>5 DEF Probes, Seen, Calling
  <2> HIDE DEF x, y
  <2>4. Seen' /\ AnswerNamesHolder' BY <1>3, <2>1, <2>2, <2>3
  <2> QED BY <1>2, <2>4 DEF NameInv
<1>6. CASE Unprobes(c)
  <2> DEFINE x == [ask[c] EXCEPT !.pc = "read", !.held = FALSE]
  <2>1. x.pc = "read" /\ x.seen = ask[c].seen BY <1>0 DEF Call
  <2>2. ask' = [ask EXCEPT ![c] = x] BY <1>6 DEF Unprobes
  <2>3. lock # Nobody => lock \in ask[c].seen BY <1>0, <1>6 DEF Unprobes, Seen, Calling
  <2> HIDE DEF x
  <2>4. Seen' /\ AnswerNamesHolder' BY <1>3, <2>1, <2>2, <2>3
  <2> QED BY <1>2, <2>4 DEF NameInv
<1>7. CASE Reads(c)
  <2> DEFINE x == [ask[c] EXCEPT !.pc = "answered", !.pid = record.pid]
             y == [ask[c] EXCEPT !.pc = "look"]
  <2>1. /\ x.pc = "answered" /\ x.seen = ask[c].seen /\ x.held = ask[c].held /\ x.pid = record.pid
        /\ y.pc = "look" /\ y.seen = ask[c].seen
    BY <1>0 DEF Call
  <2>2. \/ ask' = [ask EXCEPT ![c] = x] /\ (~ask[c].held \/ Alive(record.pid))
        \/ ask' = [ask EXCEPT ![c] = y]
    BY <1>7 DEF Reads
  <2>3. lock # Nobody => lock \in ask[c].seen BY <1>0, <1>7 DEF Reads, Seen, Calling
  <2>4. Alive(record.pid) => record.pid \in ask[c].seen \cup former
    <3>1. Alive(record.pid) => record.pid \in Procs BY DEF Alive
    <3>2. Alive(record.pid) => lock = record.pid \/ record.pid \in former
      BY <1>0, <3>1 DEF HolderIsNamed, Written
    <3> QED BY <2>3, <3>1, <3>2, Constants
  <2> HIDE DEF x, y
  <2>5. Seen' /\ AnswerNamesHolder' BY <1>3, <2>1, <2>2, <2>3, <2>4
  <2> QED BY <1>2, <2>5 DEF NameInv
<1>8. CASE ReadsLate(c)
  <2> DEFINE x == [ask[c] EXCEPT !.pc = "answered", !.pid = record.pid, !.late = TRUE]
  <2>1. x.pc = "answered" /\ x.late BY <1>0 DEF Call
  <2>2. ask' = [ask EXCEPT ![c] = x] BY <1>8 DEF ReadsLate
  <2> HIDE DEF x
  <2>3. Seen' /\ AnswerNamesHolder' BY <1>3, <2>1, <2>2
  <2> QED BY <1>2, <2>3 DEF NameInv
<1> QED BY <1>4, <1>5, <1>6, <1>7, <1>8 DEF HolderOf

LEMMA NextNames == ASSUME TypeInv, NameInv, [Next]_vars PROVE NameInv'
<1>1. CASE DirSynced
  BY <1>1 DEF DirSynced, NameInv, HolderIsNamed, Written, Seen, AnswerNamesHolder, Alive, Calling
<1>2. CASE PowerFails
  <2>1. PICK r \in onDisk : record' = r /\ onDisk' = {r} BY <1>2 DEF PowerFails
  <2>2. \A p \in Procs : proc'[p] \in {"new", "dead"} /\ (proc'[p] = "new" => proc[p] = "new")
    BY <1>2 DEF PowerFails
  <2>3. HolderIsNamed' BY <1>2, <2>2, Constants DEF PowerFails, HolderIsNamed
  <2>4. Written' BY <2>1, <2>2 DEF NameInv, Written, Alive
  <2>5. Seen' /\ AnswerNamesHolder' BY <1>2 DEF PowerFails, Seen, AnswerNamesHolder, Calling, NoCall
  <2> QED BY <2>3, <2>4, <2>5 DEF NameInv
<1>3. CASE UNCHANGED vars
  BY <1>3 DEF vars, disk, NameInv, HolderIsNamed, Written, Seen, AnswerNamesHolder, Alive, Calling
<1> QED BY <1>1, <1>2, <1>3, HoldNames, AskNames DEF Next

THEOREM NamesHold == Spec => []NameInv
BY TypesHold, InitNames, NextNames, PTL DEF Spec

-----------------------------------------------------------------------------
(* Probes in the way of a try                                              *)

\* Only who is probing has the lock shared, and a process does not ask while it
\* tries; every try of its that failed met a holder, or a caller not met before.
Probing == \A c \in shared : ask[c].pc = "probing"
Silent == \A p \in Procs : proc[p] \in {"trying", "refused"} => ~Calling(p) /\ p \notin try[p].blockers
Counted == \A p \in Procs : try[p].met \/ try[p].failed <= Cardinality(try[p].blockers)

RefusedInv == Probing /\ Silent /\ Counted /\ RefusedOnlyWhenHeld

LEMMA NoTryCounted == NoTry.failed <= Cardinality(NoTry.blockers) /\ NoTry.blockers = {}
BY FS_EmptySet DEF NoTry

LEMMA InitRefused == Init => RefusedInv
BY NoTryCounted DEF Init, RefusedInv, Probing, Silent, Counted, RefusedOnlyWhenHeld

\* More callers in the way than before, and never all of them.
LEMMA MoreBlockers ==
  ASSUME NEW b \in SUBSET Callers, NEW s \in SUBSET Callers, NEW p \in Callers,
         s # {}, b \cap s = {}, p \notin b \cup s
  PROVE  /\ Cardinality(b) \in Nat /\ Cardinality(b \cup s) \in Nat
         /\ Cardinality(b) + 1 <= Cardinality(b \cup s)
         /\ Cardinality(b \cup s) < Attempts
<1>1. IsFiniteSet(b) /\ IsFiniteSet(b \cup s) /\ IsFiniteSet(Callers) BY Constants, FS_Subset
<1>2. /\ Cardinality(b) \in Nat /\ Cardinality(b \cup s) \in Nat /\ Cardinality(Callers) \in Nat
  BY <1>1, FS_CardinalityType
<1>3. PICK x \in s : x \notin b OBVIOUS
<1>4. Cardinality(b \cup {x}) = Cardinality(b) + 1 BY <1>1, <1>3, FS_AddElement
<1>5. Cardinality(b \cup {x}) <= Cardinality(b \cup s)
  <2>1. b \cup {x} \subseteq b \cup s BY <1>3
  <2> QED BY <1>1, <2>1, FS_Subset
<1>6. Cardinality((b \cup s) \cup {p}) = Cardinality(b \cup s) + 1 BY <1>1, FS_AddElement
<1>7. Cardinality((b \cup s) \cup {p}) <= Cardinality(Callers)
  <2>1. (b \cup s) \cup {p} \subseteq Callers OBVIOUS
  <2> QED BY <1>1, <2>1, FS_Subset
<1> QED BY <1>2, <1>4, <1>5, <1>6, <1>7, Constants

LEMMA BlockedRefused == ASSUME TypeInv, RefusedInv, NEW p \in Procs, Blocked(p) PROVE RefusedInv'
<1> DEFINE t == [failed |-> try[p].failed + 1, blockers |-> try[p].blockers \cup shared,
                 met |-> try[p].met \/ lock # Nobody]
<1>0. /\ Typed /\ Tries /\ Left /\ Probing /\ Silent /\ Counted /\ RefusedOnlyWhenHeld
      /\ try[p] \in Try /\ p \in Callers
  BY Constants DEF TypeInv, RefusedInv, Tries
<1>1. /\ try' = [try EXCEPT ![p] = t] /\ proc[p] = "trying" /\ try[p].blockers \cap shared = {}
      /\ (lock # Nobody \/ shared # {}) /\ UNCHANGED <<shared, ask>>
  BY DEF Blocked, Due
<1>2. try'[p] = t /\ \A q \in Procs \ {p} : try'[q] = try[q] BY <1>0, <1>1 DEF Tries
<1>3. /\ t.failed = try[p].failed + 1 /\ t.blockers = try[p].blockers \cup shared
      /\ t.met = (try[p].met \/ lock # Nobody)
  OBVIOUS
<1>4. /\ try[p].failed \in 0..Attempts /\ try[p].blockers \in SUBSET Callers /\ shared \in SUBSET Callers
  BY <1>0 DEF Try, Typed
<1>5. p \notin try[p].blockers \cup shared BY <1>0, <1>1 DEF Silent, Probing, Calling
<1> HIDE DEF t
<1>6. ~t.met => t.failed <= Cardinality(t.blockers) /\ t.failed < Attempts
  <2> SUFFICES ASSUME ~t.met PROVE t.failed <= Cardinality(t.blockers) /\ t.failed < Attempts OBVIOUS
  <2>1. ~try[p].met /\ shared # {} BY <1>1, <1>3
  <2>2. try[p].failed <= Cardinality(try[p].blockers) BY <1>0, <2>1 DEF Counted
  <2>3. /\ Cardinality(try[p].blockers) \in Nat /\ Cardinality(t.blockers) \in Nat
        /\ Cardinality(try[p].blockers) + 1 <= Cardinality(t.blockers)
        /\ Cardinality(t.blockers) < Attempts
    BY <1>0, <1>1, <1>3, <1>4, <1>5, <2>1, MoreBlockers
  <2> QED BY <1>3, <1>4, <2>2, <2>3, Constants
<1>7. proc' = (IF t.failed = Attempts THEN [proc EXCEPT ![p] = "refused"] ELSE proc)
  BY <1>2 DEF Blocked
<1>8. Probing' BY <1>0, <1>1 DEF Probing
<1>9. Silent' BY <1>0, <1>1, <1>2, <1>3, <1>5, <1>7 DEF Silent, Calling, Typed
<1>10. Counted' BY <1>0, <1>2, <1>6 DEF Counted
<1>11. RefusedOnlyWhenHeld'
  <2>1. t.failed = Attempts => t.met BY <1>3, <1>4, <1>6, Constants
  <2>2. t.failed # Attempts => proc' = proc BY <1>7
  <2>3. t.failed = Attempts => proc' = [proc EXCEPT ![p] = "refused"] BY <1>7
  <2> QED BY <1>0, <1>1, <1>2, <2>1, <2>2, <2>3 DEF RefusedOnlyWhenHeld, Typed
<1> QED BY <1>8, <1>9, <1>10, <1>11 DEF RefusedInv

LEMMA HoldRefused == ASSUME TypeInv, RefusedInv, NEW p \in Procs, Hold(p) PROVE RefusedInv'
<1>0. /\ Typed /\ Tries /\ Fresh /\ Probing /\ Silent /\ Counted /\ RefusedOnlyWhenHeld
      /\ NoTry.blockers = {} /\ NoTry.failed <= Cardinality(NoTry.blockers)
      /\ p \in Callers /\ Procs \subseteq Callers
  BY Constants, NoTryCounted DEF TypeInv, RefusedInv
<1>1. CASE Opens(p)
  <2>1. p \notin shared BY <1>0, <1>1 DEF Opens, Probing, Calling
  <2>2. Probing' BY <1>0, <1>1, <2>1 DEF Opens, Probing, Typed
  <2>3. Silent' BY <1>0, <1>1 DEF Opens, Silent, Fresh, Calling, Typed, NoCall
  <2> QED BY <1>0, <1>1, <2>2, <2>3 DEF Opens, Counted, RefusedOnlyWhenHeld, RefusedInv, Typed
<1>2. CASE Locks(p)
  <2>1. \A c \in Callers : ask'[c].pc = ask[c].pc
    <3> TAKE c \in Callers
    <3>1. ask[c] \in Call BY <1>0 DEF Typed
    <3> QED BY <1>2, <3>1 DEF Locks, Call
  <2>2. Probing' BY <1>0, <1>2, <2>1 DEF Locks, Probing, Typed
  <2>3. Silent' BY <1>0, <1>2, <2>1 DEF Locks, Silent, Calling, Typed, Tries
  <2> QED BY <1>0, <1>2, <2>2, <2>3 DEF Locks, Counted, RefusedOnlyWhenHeld, RefusedInv, Typed, Tries
<1>3. CASE Blocked(p) BY <1>3, BlockedRefused
<1>4. CASE Publishes(p) \/ PublishFails(p) \/ Releases(p)
  BY <1>0, <1>4 DEF Publishes, PublishFails, Releases, RefusedInv, Probing, Silent, Counted,
                    RefusedOnlyWhenHeld, Calling, Typed
<1>5. CASE Dies(p)
  <2>1. Probing' BY <1>0, <1>5 DEF Dies, Probing, Typed
  <2>2. Silent' BY <1>0, <1>5 DEF Dies, Silent, Calling, Typed, Tries, NoCall
  <2> QED BY <1>0, <1>5, <2>1, <2>2 DEF Dies, Counted, RefusedOnlyWhenHeld, RefusedInv, Typed, Tries
<1> QED BY <1>1, <1>2, <1>3, <1>4, <1>5 DEF Hold

LEMMA AskRefused == ASSUME TypeInv, RefusedInv, NEW c \in Callers, HolderOf(c) PROVE RefusedInv'
<1>0. /\ Typed /\ Tries /\ Fresh /\ Probing /\ Silent /\ Counted /\ RefusedOnlyWhenHeld
      /\ NoTry.blockers = {} /\ NoTry.failed <= Cardinality(NoTry.blockers) /\ ask[c] \in Call
      /\ Procs \subseteq Callers
  BY Constants, NoTryCounted DEF TypeInv, RefusedInv, Typed
<1>1. CASE Asks(c)
  <2>0. c \in Procs => proc[c] = "refused" /\ ~Calling(c) BY <1>0, <1>1 DEF Asks, Silent
  <2>1. c \notin shared BY <1>0, <1>1, <2>0 DEF Asks, Probing, Calling
  <2>2. Probing' BY <1>0, <1>1, <2>1 DEF Asks, Probing, Typed
  <2>3. CASE c \in Procs
    <3>1. Silent' BY <1>0, <1>1, <2>3 DEF Asks, Silent, Calling, Typed, Tries
    <3> QED BY <1>0, <1>1, <2>2, <2>3, <3>1 DEF Asks, Counted, RefusedOnlyWhenHeld, RefusedInv, Typed, Tries
  <2>4. CASE c \notin Procs
    <3>1. Silent' BY <1>0, <1>1, <2>4 DEF Asks, Silent, Calling, Typed
    <3> QED BY <1>0, <1>1, <2>2, <2>4, <3>1 DEF Asks, Counted, RefusedOnlyWhenHeld, RefusedInv
  <2> QED BY <2>3, <2>4
<1>2. ASSUME NEW x, ask' = [ask EXCEPT ![c] = x], Calling(c), UNCHANGED <<proc, try>>,
             c \in shared' => x.pc = "probing", shared' \subseteq shared \cup {c}
      PROVE  RefusedInv'
  <2>1. Probing' BY <1>0, <1>2 DEF Probing, Typed
  <2>2. Silent' BY <1>0, <1>2 DEF Silent, Calling, Typed
  <2> QED BY <1>0, <1>2, <2>1, <2>2 DEF Counted, RefusedOnlyWhenHeld, RefusedInv
<1>3. CASE Probes(c)
  <2> DEFINE x == [ask[c] EXCEPT !.pc = "probing"]
             y == [ask[c] EXCEPT !.pc = "read", !.held = TRUE]
  <2>1. x.pc = "probing" /\ Calling(c) /\ c \notin shared BY <1>0, <1>3 DEF Probes, Probing, Calling, Call
  <2>2. \/ ask' = [ask EXCEPT ![c] = x] /\ shared' = shared \cup {c}
        \/ ask' = [ask EXCEPT ![c] = y] /\ shared' = shared
    BY <1>3 DEF Probes
  <2>3. UNCHANGED <<proc, try>> BY <1>3 DEF Probes
  <2> HIDE DEF x, y
  <2> QED BY <1>2, <2>1, <2>2, <2>3
<1>4. CASE Unprobes(c)
  <2>1. PICK x : ask' = [ask EXCEPT ![c] = x] BY <1>4 DEF Unprobes
  <2>2. Calling(c) /\ shared' = shared \ {c} /\ UNCHANGED <<proc, try>> BY <1>4 DEF Unprobes, Calling
  <2> QED BY <1>2, <2>1, <2>2
<1>5. CASE Reads(c) \/ ReadsLate(c)
  <2>1. PICK x : ask' = [ask EXCEPT ![c] = x] BY <1>5 DEF Reads, ReadsLate
  <2>2. Calling(c) /\ shared' = shared /\ c \notin shared /\ UNCHANGED <<proc, try>>
    BY <1>0, <1>5 DEF Reads, ReadsLate, Calling, Probing
  <2> QED BY <1>2, <2>1, <2>2
<1> QED BY <1>1, <1>3, <1>4, <1>5 DEF HolderOf

LEMMA NextRefused == ASSUME TypeInv, RefusedInv, [Next]_vars PROVE RefusedInv'
<1>1. CASE DirSynced \/ UNCHANGED vars
  BY <1>1 DEF DirSynced, vars, RefusedInv, Probing, Silent, Counted, RefusedOnlyWhenHeld, Calling
<1>2. CASE PowerFails
  BY <1>2, NoTryCounted DEF PowerFails, RefusedInv, Probing, Silent, Counted, RefusedOnlyWhenHeld
<1> QED BY <1>1, <1>2, HoldRefused, AskRefused DEF Next

THEOREM RefusedHolds == Spec => []RefusedInv
BY TypesHold, InitRefused, NextRefused, PTL DEF Spec

-----------------------------------------------------------------------------
(* The history of the logs                                                 *)

\* A sequence that is the end of another.
EndOf(s, a) == Len(s) <= Len(a) /\ \A i \in 1..Len(s) : s[i] = a[Len(a) - Len(s) + i]

\* What is left of a sequence's end.
LEMMA NewestEnds ==
  ASSUME NEW S, NEW s \in Seq(S), NEW n \in Nat
  PROVE  /\ Newest(s, n) \in Seq(S)
         /\ Len(Newest(s, n)) = IF Len(s) > n THEN n ELSE Len(s)
         /\ EndOf(Newest(s, n), s)
<1>0. Len(s) \in Nat BY LenProperties
<1>1. CASE Len(s) > n
  <2> DEFINE t == SubSeq(s, Len(s) - n + 1, Len(s))
  <2>0. Len(s) - n + 1 \in Int /\ Len(s) - n + 1 >= 1 BY <1>0, <1>1
  <2>1. Newest(s, n) = t BY <1>1 DEF Newest
  <2>2. t \in Seq(S) /\ Len(t) = n /\ \A i \in 1..n : t[i] = s[Len(s) - n + i]
    BY <1>0, <1>1, <2>0, SubSeqProperties
  <2> HIDE DEF t
  <2> QED BY <1>0, <1>1, <2>1, <2>2 DEF EndOf
<1>2. CASE ~(Len(s) > n)
  <2>1. Newest(s, n) = s BY <1>2 DEF Newest
  <2>2. \A i \in 1..Len(s) : s[i] = s[Len(s) - Len(s) + i] BY <1>0
  <2> QED BY <1>0, <1>2, <2>1, <2>2 DEF EndOf
<1> QED BY <1>1, <1>2

LEMMA EndsNewest ==
  ASSUME NEW S, NEW s \in Seq(S), NEW a \in Seq(S)
  PROVE  EndOf(s, a) <=> s = Newest(a, Len(s))
<1>0. Len(s) \in Nat /\ Len(a) \in Nat BY LenProperties
<1> DEFINE t == Newest(a, Len(s))
<1>1. t \in Seq(S) /\ EndOf(t, a) /\ Len(t) = IF Len(a) > Len(s) THEN Len(s) ELSE Len(a)
  BY <1>0, NewestEnds
<1> HIDE DEF t
<1>2. ASSUME EndOf(s, a) PROVE s = t
  <2>1. Len(s) = Len(t) BY <1>0, <1>1, <1>2 DEF EndOf
  <2>2. \A i \in 1..Len(s) : s[i] = t[i] BY <1>1, <1>2, <2>1 DEF EndOf
  <2> QED BY <1>1, <2>1, <2>2, SeqEqual
<1> QED BY <1>1, <1>2 DEF t

LEMMA EndsTransitive ==
  ASSUME NEW S, NEW r \in Seq(S), NEW s \in Seq(S), NEW a \in Seq(S), EndOf(r, s), EndOf(s, a)
  PROVE  EndOf(r, a)
<1>0. Len(r) \in Nat /\ Len(s) \in Nat /\ Len(a) \in Nat BY LenProperties
<1> SUFFICES ASSUME NEW i \in 1..Len(r) PROVE r[i] = a[Len(a) - Len(r) + i]
  BY <1>0 DEF EndOf
<1>1. Len(s) - Len(r) + i \in 1..Len(s) BY <1>0 DEF EndOf
<1>2. r[i] = s[Len(s) - Len(r) + i] BY DEF EndOf
<1>3. s[Len(s) - Len(r) + i] = a[Len(a) - Len(s) + (Len(s) - Len(r) + i)] BY <1>1 DEF EndOf
<1>4. Len(a) - Len(s) + (Len(s) - Len(r) + i) = Len(a) - Len(r) + i BY <1>0
<1> QED BY <1>2, <1>3, <1>4

LEMMA EndsAppend ==
  ASSUME NEW S, NEW s \in Seq(S), NEW a \in Seq(S), NEW x \in S, EndOf(s, a)
  PROVE  EndOf(Append(s, x), Append(a, x))
<1>0. Len(s) \in Nat /\ Len(a) \in Nat BY LenProperties
<1>1. ASSUME NEW t \in Seq(S)
      PROVE  /\ Len(Append(t, x)) = Len(t) + 1 /\ Append(t, x)[Len(t) + 1] = x
             /\ \A i \in 1..Len(t) : Append(t, x)[i] = t[i]
  BY AppendProperties
<1>2. Len(s) <= Len(a) BY DEF EndOf
<1>3. /\ Len(Append(s, x)) = Len(s) + 1 /\ Len(Append(a, x)) = Len(a) + 1
      /\ Append(s, x)[Len(s) + 1] = x /\ Append(a, x)[Len(a) + 1] = x
  BY <1>1
<1>4. ASSUME NEW i \in 1..(Len(s) + 1)
      PROVE  Append(s, x)[i] = Append(a, x)[(Len(a) + 1) - (Len(s) + 1) + i]
  <2>1. CASE i = Len(s) + 1
    <3>1. (Len(a) + 1) - (Len(s) + 1) + i = Len(a) + 1 BY <1>0, <2>1
    <3> QED BY <1>3, <2>1, <3>1
  <2>2. CASE i \in 1..Len(s)
    <3>1. /\ (Len(a) + 1) - (Len(s) + 1) + i = Len(a) - Len(s) + i
          /\ Len(a) - Len(s) + i \in 1..Len(a)
      BY <1>0, <1>2, <2>2
    <3>2. s[i] = a[Len(a) - Len(s) + i] BY <2>2 DEF EndOf
    <3>3. Append(s, x)[i] = s[i] BY <1>1, <2>2
    <3>4. Append(a, x)[Len(a) - Len(s) + i] = a[Len(a) - Len(s) + i] BY <1>1, <3>1
    <3> QED BY <3>1, <3>2, <3>3, <3>4
  <2>3. i = Len(s) + 1 \/ i \in 1..Len(s) BY <1>0
  <2> QED BY <2>1, <2>2, <2>3
<1>5. Len(s) + 1 <= Len(a) + 1 BY <1>0, <1>2
<1>6. \A i \in 1..Len(Append(s, x)) :
        Append(s, x)[i] = Append(a, x)[Len(Append(a, x)) - Len(Append(s, x)) + i]
  BY <1>3, <1>4
<1> QED BY <1>3, <1>5, <1>6 DEF EndOf

\* The beginning of a sequence.
LEMMA Beginning ==
  ASSUME NEW S, NEW s \in Seq(S), NEW m \in 0..Len(s)
  PROVE  /\ SubSeq(s, 1, m) \in Seq(S) /\ Len(SubSeq(s, 1, m)) = m
         /\ \A i \in 1..m : SubSeq(s, 1, m)[i] = s[i]
<1>0. Len(s) \in Nat /\ m \in Int /\ m >= 0 /\ m <= Len(s) BY LenProperties
<1>1. \A i \in 1..m : s[i] \in S BY <1>0, ElementOfSeq
<1>2. /\ SubSeq(s, 1, m) \in Seq(S) /\ Len(SubSeq(s, 1, m)) = IF 1 <= m THEN m - 1 + 1 ELSE 0
      /\ \A i \in 1..(m - 1 + 1) : SubSeq(s, 1, m)[i] = s[1 + i - 1]
  BY <1>0, <1>1, SubSeqProperties
<1> QED BY <1>0, <1>2

\* A sequence without its last, which is the same in one that it is the end of.
LEMMA EndsFront ==
  ASSUME NEW S, NEW s \in Seq(S), NEW a \in Seq(S), EndOf(s, a), s # <<>>
  PROVE  /\ SubSeq(s, 1, Len(s) - 1) \in Seq(S) /\ Len(SubSeq(s, 1, Len(s) - 1)) = Len(s) - 1
         /\ Append(SubSeq(s, 1, Len(s) - 1), Last(s)) = s
         /\ Last(s) \in S /\ Last(s) = Last(a) /\ a # <<>>
<1> DEFINE f == SubSeq(s, 1, Len(s) - 1)
<1>0. Len(s) \in Nat /\ Len(a) \in Nat /\ Len(s) # 0 BY LenProperties, EmptySeq
<1>1. f \in Seq(S) /\ Len(f) = Len(s) - 1 /\ \A i \in 1..(Len(s) - 1) : f[i] = s[i]
  <2>1. Len(s) - 1 \in 0..Len(s) BY <1>0
  <2> QED BY <2>1, Beginning
<1>2. Last(s) \in S BY <1>0, ElementOfSeq DEF Last
<1> HIDE DEF f
<1>3. Append(f, Last(s)) = s
  <2>1. /\ Append(f, Last(s)) \in Seq(S) /\ Len(Append(f, Last(s))) = Len(s)
        /\ \A i \in 1..Len(s) - 1 : Append(f, Last(s))[i] = s[i]
        /\ Append(f, Last(s))[Len(s)] = s[Len(s)]
    BY <1>0, <1>1, <1>2, AppendProperties DEF Last
  <2>2. \A i \in 1..Len(s) : Append(f, Last(s))[i] = s[i] BY <1>0, <2>1
  <2> QED BY <2>1, <2>2, SeqEqual
<1>4. Len(a) # 0 BY <1>0 DEF EndOf
<1>5. a # <<>> BY <1>4
<1>6. Last(s) = Last(a)
  <2>1. s[Len(s)] = a[Len(a) - Len(s) + Len(s)] BY <1>0 DEF EndOf
  <2>2. Len(a) - Len(s) + Len(s) = Len(a) BY <1>0
  <2> QED BY <2>1, <2>2 DEF Last
<1> QED BY <1>1, <1>2, <1>3, <1>5, <1>6 DEF f

\* A record names the end of the history, or all of it.
Kept(r) ==
  /\ EndOf(Named(r), r.all)
  /\ Len(Named(r)) = Len(r.all) \/ Len(Named(r)) >= MaxEarlier

HistoryInv == \A r \in onDisk \cup {record} : Kept(r)

LEMMA SomeEarlier == MaxEarlier # 0
BY HolderAssumption

\* With another log, of a process whose log is not the newest already.
LEMMA KeptWith ==
  ASSUME NEW n \in Seq(Procs), NEW a \in Seq(Procs), NEW p \in Procs, EndOf(n, a),
         Len(n) = Len(a) \/ Len(n) >= MaxEarlier
  PROVE  /\ EndOf(Append(Newest(n, MaxEarlier), p), Append(a, p))
         /\ \/ Len(Append(Newest(n, MaxEarlier), p)) = Len(Append(a, p))
            \/ Len(Append(Newest(n, MaxEarlier), p)) >= MaxEarlier
<1> DEFINE e == Newest(n, MaxEarlier)
<1>1. e \in Seq(Procs) /\ Len(e) = (IF Len(n) > MaxEarlier THEN MaxEarlier ELSE Len(n)) /\ EndOf(e, n)
  BY Constants, SomeEarlier, NewestEnds
<1> HIDE DEF e
<1>2. EndOf(Append(e, p), Append(a, p)) BY <1>1, EndsTransitive, EndsAppend
<1>3. Len(Append(e, p)) = Len(e) + 1 /\ Len(Append(a, p)) = Len(a) + 1
  BY <1>1, AppendProperties
<1>4. Len(e) \in Nat /\ Len(n) \in Nat /\ Len(a) \in Nat BY <1>1, LenProperties
<1>5. Len(Append(e, p)) = Len(Append(a, p)) \/ Len(Append(e, p)) >= MaxEarlier
  BY <1>1, <1>3, <1>4, Constants, SomeEarlier
<1> QED BY <1>2, <1>5 DEF e

\* What Publishes writes keeps it.
LEMMA PublishedKept ==
  ASSUME NEW p \in Procs, NEW found \in Record, Kept(found), Replaces(p, found)
  PROVE  Kept(record')
<1> DEFINE n == Named(found)
           a == found.all
<1>0. n \in Seq(Procs) /\ a \in Seq(Procs) BY DEF Named, Record
<1>t. Len(n) \in Nat /\ Len(a) \in Nat BY <1>0, LenProperties
<1>k. EndOf(n, a) /\ (Len(n) = Len(a) \/ Len(n) >= MaxEarlier) BY DEF Kept
<1>1. /\ record'.earlier = Newest(IF EndsWith(n, Own(p)) THEN SubSeq(n, 1, Len(n) - 1) ELSE n, MaxEarlier)
      /\ record'.log = Own(p)
      /\ record'.all = IF Own(p) = Nobody \/ EndsWith(a, Own(p)) THEN a ELSE Append(a, Own(p))
  BY DEF Replaces, Earlier
<1>2. Own(p) \in Procs \/ Own(p) = Nobody BY DEF Own
<1> HIDE DEF n, a
<1>3. n # <<>> => /\ SubSeq(n, 1, Len(n) - 1) \in Seq(Procs) /\ Len(SubSeq(n, 1, Len(n) - 1)) = Len(n) - 1
                  /\ Append(SubSeq(n, 1, Len(n) - 1), Last(n)) = n
                  /\ Last(n) \in Procs /\ Last(n) = Last(a) /\ a # <<>>
  BY <1>0, <1>k, EndsFront
<1>4. CASE Own(p) = Nobody
  <2>1. ~EndsWith(n, Own(p)) BY <1>3, <1>4, Constants, SomeEarlier DEF EndsWith
  <2>2. Named(record') = Newest(n, MaxEarlier) /\ record'.all = a
    BY <1>1, <1>4, <2>1 DEF Named
  <2>3. /\ Newest(n, MaxEarlier) \in Seq(Procs) /\ EndOf(Newest(n, MaxEarlier), n)
        /\ Len(Newest(n, MaxEarlier)) = IF Len(n) > MaxEarlier THEN MaxEarlier ELSE Len(n)
    BY <1>0, Constants, SomeEarlier, NewestEnds
  <2>4. EndOf(Newest(n, MaxEarlier), a) BY <1>0, <1>k, <2>3, EndsTransitive
  <2>5. Len(Newest(n, MaxEarlier)) = Len(a) \/ Len(Newest(n, MaxEarlier)) >= MaxEarlier
    BY <1>t, <1>k, <2>3, Constants, SomeEarlier
  <2> QED BY <2>2, <2>4, <2>5 DEF Kept
<1>5. CASE Own(p) \in Procs /\ EndsWith(a, Own(p))
  <2>1. n # <<>>
    <3>1. Len(a) # 0 BY <1>0, <1>5, EmptySeq DEF EndsWith
    <3>2. Len(n) # 0 BY <1>t, <1>k, <3>1, Constants, SomeEarlier
    <3> QED BY <3>2
  <2> DEFINE f == SubSeq(n, 1, Len(n) - 1)
  <2>2. Last(n) = Own(p) BY <1>3, <1>5, <2>1 DEF EndsWith
  <2>3. f \in Seq(Procs) /\ Len(f) = Len(n) - 1 /\ Append(f, Own(p)) = n BY <1>3, <2>1, <2>2
  <2>4. Own(p) # Nobody BY <1>5, Constants, SomeEarlier
  <2>5. EndsWith(n, Own(p)) BY <2>1, <2>2 DEF EndsWith
  <2>6. Named(record') = Append(Newest(f, MaxEarlier), Own(p)) /\ record'.all = a
    BY <1>1, <1>5, <2>4, <2>5 DEF Named
  <2> HIDE DEF f
  <2> DEFINE e == Newest(f, MaxEarlier)
  <2>7. e \in Seq(Procs) /\ EndOf(e, f) /\ Len(e) = IF Len(f) > MaxEarlier THEN MaxEarlier ELSE Len(f)
    BY <2>3, Constants, SomeEarlier, NewestEnds
  <2> HIDE DEF e
  <2>8. EndOf(Append(e, Own(p)), n) /\ Append(e, Own(p)) \in Seq(Procs) /\ Len(Append(e, Own(p))) = Len(e) + 1
    <3>1. EndOf(Append(e, Own(p)), Append(f, Own(p))) BY <1>5, <2>3, <2>7, EndsAppend
    <3> QED BY <1>5, <2>3, <2>7, <3>1, AppendProperties
  <2>9. EndOf(Append(e, Own(p)), a) BY <1>0, <1>k, <2>8, EndsTransitive
  <2>10. Len(Append(e, Own(p))) = Len(a) \/ Len(Append(e, Own(p))) >= MaxEarlier
    <3>1. Len(e) \in Nat /\ Len(f) \in Nat BY <2>3, <2>7, LenProperties
    <3> QED BY <1>t, <1>k, <2>3, <2>7, <2>8, <3>1, Constants, SomeEarlier
  <2> QED BY <2>6, <2>9, <2>10 DEF Kept, e
<1>6. CASE Own(p) \in Procs /\ ~EndsWith(a, Own(p))
  <2>1. ~EndsWith(n, Own(p)) BY <1>3, <1>6 DEF EndsWith
  <2>2. Own(p) # Nobody BY <1>6, Constants, SomeEarlier
  <2>3. Named(record') = Append(Newest(n, MaxEarlier), Own(p)) /\ record'.all = Append(a, Own(p))
    BY <1>1, <1>6, <2>1, <2>2 DEF Named
  <2> QED BY <1>0, <1>k, <1>6, <2>3, KeptWith DEF Kept
<1> QED BY <1>2, <1>4, <1>5, <1>6

LEMMA NothingKept == Kept(NoRecord)
BY EmptySeq DEF Kept, NoRecord, Named, EndOf

LEMMA NextHistory == ASSUME TypeInv, TypeInv', HistoryInv, [Next]_vars PROVE HistoryInv'
<1>0. record \in Record /\ record' \in Record BY DEF TypeInv, Typed
<1>1. CASE UNCHANGED disk BY <1>1 DEF disk, HistoryInv, Kept
<1>2. ASSUME NEW p \in Procs, Publishes(p) PROVE HistoryInv'
  <2>0. PICK found \in {record, NoRecord} : Replaces(p, found) BY <1>2 DEF Publishes
  <2>1. Kept(record')
    <3>1. found \in Record /\ Kept(found) BY <1>0, <2>0, Blank, NothingKept DEF HistoryInv
    <3> QED BY <2>0, <3>1, PublishedKept
  <2>2. onDisk' = onDisk \cup {record'} BY <2>0 DEF Replaces
  <2>3. \A r \in onDisk' \cup {record'} : Kept(r) BY <2>1, <2>2 DEF HistoryInv
  <2> QED BY <2>3 DEF HistoryInv, Kept
<1>3. CASE DirSynced \/ PowerFails
  <2>1. record' \in onDisk \cup {record} /\ onDisk' = {record'} BY <1>3 DEF DirSynced, PowerFails
  <2>2. \A r \in onDisk' \cup {record'} : Kept(r) BY <2>1 DEF HistoryInv
  <2> QED BY <2>2 DEF HistoryInv, Kept
<1> QED
  BY <1>1, <1>2, <1>3
  DEF Next, Hold, HolderOf, Opens, Locks, Blocked, PublishFails, Releases, Dies, Asks, Probes,
      Unprobes, Reads, ReadsLate, vars, disk

LEMMA InitHistory == Init => HistoryInv
BY NothingKept DEF Init, HistoryInv

THEOREM HistoryHolds == Spec => []HistoryInv
<1>1. TypeInv /\ TypeInv' /\ HistoryInv /\ [Next]_vars => HistoryInv' BY NextHistory
<1> QED BY <1>1, TypesHold, InitHistory, PTL DEF Spec

-----------------------------------------------------------------------------
(* The detached child                                                      *)

\* A launched child is one of the processes that want the rig.
THEOREM DetachRefines == DetachSpec => Spec
<1>1. DetachInit => Init BY DEF DetachInit
<1>2. [DetachNext]_dvars => [Next]_vars
  <2>0. Child \in Procs /\ Child \in Callers BY DetachAssumption, Constants
  <2>1. CASE Spawns BY <2>0, <2>1 DEF Spawns, Next, Hold
  <2>2. CASE Takes BY <2>0, <2>2 DEF Takes, Next, Hold
  <2>3. CASE Cleans \/ LetsGo BY <2>0, <2>3 DEF Cleans, LetsGo, Next, Hold
  <2>4. CASE Exits \/ Killed BY <2>0, <2>4 DEF Exits, Killed, Next, Hold
  <2>5. CASE Others BY <2>5 DEF Others, Next
  <2>6. CASE Reboot BY <2>6 DEF Reboot, Next
  <2>7. CASE Interrupts \/ ReadsReport \/ HangsUp
    BY <2>7 DEF Interrupts, ReadsReport, HangsUp
  <2>8. CASE Rents \/ Fails \/ ReportsReady \/ SuperviseEnds \/ Ends \/ ReportsError
    BY <2>8 DEF Rents, Fails, ReportsReady, SuperviseEnds, Ends, ReportsError
  <2>9. CASE UNCHANGED dvars BY <2>9 DEF dvars
  <2> QED BY <2>1, <2>2, <2>3, <2>4, <2>5, <2>6, <2>7, <2>8, <2>9 DEF DetachNext, Launcher, Works
<1> QED BY <1>1, <1>2, PTL DEF DetachSpec, Spec

DetachTyped ==
  /\ command \in Commands
  /\ stage \in {"none", "taking", "working", "cleaning", "serving", "ending", "failing", "exiting", "gone"}
  /\ rig \in {"none", "billing", "ended", "kept"}
  /\ report \in {"none", "ok", "error", "closed"}
  /\ launcher \in {"idle", "waiting", "failed", "ready", "gone"}
  /\ signal \in BOOLEAN /\ killed \in BOOLEAN

\* While it works on the rig, serves it and ends it, the child is the holder;
\* what it rented it has ended when it gives the rig up, or could not.
DetachInv ==
  /\ DetachTyped
  /\ stage \in {"working", "cleaning", "serving", "ending"} => proc[Child] = "holding"
  /\ stage = "gone" => proc[Child] = "dead"
  /\ (stage = "none" <=> proc[Child] = "new") /\ (launcher = "idle" => stage = "none")
  /\ stage \in {"failing", "exiting"} => proc[Child] \notin {"locked", "holding"}
  /\ report \in {"error", "closed"} => stage \in {"exiting", "gone"}
  /\ launcher = "failed" => report \in {"error", "closed"}
  /\ command = "up" /\ stage \in {"none", "taking"} => rig = "none"
  /\ command = "up" /\ stage \in {"failing", "exiting", "gone"} /\ ~killed => rig # "billing"

LEMMA InitDetach == DetachInit => DetachInv
BY DetachAssumption DEF DetachInit, Init, DetachInv, DetachTyped

\* What the other processes do leaves the child where it is.
LEMMA OthersSpare ==
  ASSUME TypeInv, NEW p \in Procs, NEW q \in Procs, p # q, Hold(q) \/ (HolderOf(q)) PROVE proc'[p] = proc[p]
BY Constants DEF TypeInv, Typed, Hold, HolderOf, Opens, Locks, Blocked, Publishes, PublishFails, Releases, Dies,
       Asks, Probes, Unprobes, Reads, ReadsLate

LEMMA OthersStep == ASSUME TypeInv, DetachInv, Others PROVE DetachInv'
<1>1. UNCHANGED <<command, stage, rig, report, signal, launcher, killed>> BY DEF Others, child
<1>2. Child \in Procs BY DetachAssumption
<1>3. proc'[Child] = proc[Child]
  <2>1. ASSUME NEW c \in Callers \ {Child}, c \notin Procs, HolderOf(c) PROVE proc' = proc
    BY <2>1 DEF HolderOf, Asks, Probes, Unprobes, Reads, ReadsLate
  <2>2. ASSUME NEW q \in Procs \ {Child}, Hold(q) \/ HolderOf(q) PROVE proc'[Child] = proc[Child]
    BY <1>2, <2>2, OthersSpare
  <2>3. CASE DirSynced BY <2>3 DEF DirSynced
  <2> QED BY <2>1, <2>2, <2>3 DEF Others
<1> QED BY <1>1, <1>3 DEF DetachInv, DetachTyped

LEMMA WorksStep == ASSUME TypeInv, DetachInv, Works \/ SuperviseEnds PROVE DetachInv'
<1>0. Child \in Procs /\ proc \in [Procs -> {"new", "trying", "locked", "holding", "refused", "idle", "dead"}]
  BY DetachAssumption DEF TypeInv, Typed
<1>1. CASE Takes
  <2>1. stage = "taking" /\ UNCHANGED <<command, rig, report, launcher, signal, killed>> BY <1>1 DEF Takes
  <2>2. \/ stage' = "working" /\ proc'[Child] = "holding"
        \/ stage' = "failing" /\ proc'[Child] = "idle"
        \/ stage' = "taking"
    BY <1>1 DEF Takes
  <2>3. proc'[Child] # "new"
    <3>1. proc[Child] # "new" BY <2>1 DEF DetachInv
    <3>2. CASE Locks(Child) \/ Blocked(Child) \/ Publishes(Child) \/ PublishFails(Child)
      BY <1>0, <3>1, <3>2 DEF Locks, Blocked, Publishes, PublishFails
    <3>3. CASE HolderOf(Child)
      BY <1>0, <3>1, <3>3 DEF HolderOf, Asks, Probes, Unprobes, Reads, ReadsLate
    <3> QED BY <1>1, <3>2, <3>3 DEF Takes
  <2> QED BY <2>1, <2>2, <2>3 DEF DetachInv, DetachTyped
<1>2. CASE Rents \/ Fails \/ ReportsReady \/ SuperviseEnds \/ Ends \/ ReportsError
  <2>1. UNCHANGED <<proc, command, launcher, killed, signal>>
    BY <1>2 DEF Rents, Fails, ReportsReady, SuperviseEnds, Ends, ReportsError, vars
  <2> QED BY <1>2, <2>1 DEF Rents, Fails, ReportsReady, SuperviseEnds, Ends, ReportsError, DetachInv, DetachTyped
<1>3. CASE Cleans \/ LetsGo
  <2>1. proc'[Child] = "idle" BY <1>0, <1>3 DEF Cleans, LetsGo, Releases
  <2> QED BY <1>3, <2>1 DEF Cleans, LetsGo, DetachInv, DetachTyped
<1>4. CASE Exits
  <2>1. proc'[Child] = "dead" BY <1>0, <1>4 DEF Exits, Dies
  <2> QED BY <1>4, <2>1 DEF Exits, DetachInv, DetachTyped
<1> QED BY <1>1, <1>2, <1>3, <1>4 DEF Works

LEMMA DetachStep == ASSUME TypeInv, DetachInv, [DetachNext]_dvars PROVE DetachInv'
<1>0. Child \in Procs /\ proc \in [Procs -> {"new", "trying", "locked", "holding", "refused", "idle", "dead"}]
  BY DetachAssumption DEF TypeInv, Typed
<1>1. CASE Spawns
  <2>1. proc'[Child] = "trying" /\ proc[Child] \in {"new", "idle"} BY <1>0, <1>1 DEF Spawns, Opens
  <2>2. /\ command' = command /\ rig' = rig /\ stage' = "taking" /\ launcher' = "waiting"
        /\ report' = report /\ signal' = signal /\ killed' = killed
    BY <1>1 DEF Spawns
  <2>3. (command = "up" => rig = "none") /\ report \notin {"error", "closed"}
    BY <1>1 DEF Spawns, DetachInv
  <2> QED BY <2>1, <2>2, <2>3 DEF DetachInv, DetachTyped
<1>2. CASE Interrupts \/ ReadsReport \/ HangsUp
  <2>1. /\ command' = command /\ stage' = stage /\ rig' = rig /\ report' = report /\ proc' = proc
        /\ killed' = killed
    BY <1>2 DEF Interrupts, ReadsReport, HangsUp, vars, child
  <2>2. signal' \in BOOLEAN
    <3>1. signal \in BOOLEAN BY DEF DetachInv, DetachTyped
    <3>2. signal' = TRUE \/ signal' = signal BY <1>2 DEF Interrupts, ReadsReport, HangsUp, child
    <3> QED BY <3>1, <3>2
  <2>3. launcher' \in {launcher, "ready", "failed", "gone"} /\ launcher = "waiting"
    BY <1>2 DEF Interrupts, ReadsReport, HangsUp
  <2>4. DetachTyped' BY <2>1, <2>2, <2>3 DEF DetachInv, DetachTyped
  <2>5. launcher' # "idle" BY <2>3
  <2>6. launcher' = "failed" => report \in {"error", "closed"}
    BY <1>2 DEF Interrupts, ReadsReport, HangsUp, DetachInv, DetachTyped
  <2> QED BY <2>1, <2>4, <2>5, <2>6 DEF DetachInv
<1>3. CASE Killed
  <2>1. proc'[Child] = "dead" BY <1>0, <1>3 DEF Killed, Dies
  <2> QED BY <1>3, <2>1 DEF Killed, DetachInv, DetachTyped
<1>4. CASE Reboot
  <2>1. proc'[Child] = IF proc[Child] = "new" THEN "new" ELSE "dead" BY <1>0, <1>4 DEF Reboot, PowerFails
  <2> QED BY <1>4, <2>1 DEF Reboot, DetachInv, DetachTyped
<1>5. CASE UNCHANGED dvars
  BY <1>5 DEF dvars, vars, child, DetachInv, DetachTyped
<1> QED BY <1>1, <1>2, <1>3, <1>4, <1>5, OthersStep, WorksStep DEF DetachNext, Launcher

THEOREM DetachHolds == DetachSpec => [](DetachInv /\ TypeInv /\ NameInv /\ RefusedInv)
<1>1. DetachSpec => []TypeInv BY DetachRefines, TypesHold, PTL
<1>2. DetachSpec => [](NameInv /\ RefusedInv) BY DetachRefines, NamesHold, RefusedHolds, PTL
<1> QED BY <1>1, <1>2, InitDetach, DetachStep, PTL DEF DetachSpec

-----------------------------------------------------------------------------
(* The results, of the composition                                         *)

\* The types, for any number of processes and callers.
THEOREM DetachType == DetachSpec => []DetachTypeOK
<1>1. DetachInv /\ TypeInv => DetachTypeOK
  BY TypeParts DEF DetachInv, DetachTyped, TypeInv, DetachTypeOK
<1> QED BY <1>1, DetachHolds, PTL

\* Who serves the rig has its lock and is named by its record (Hold).
THEOREM HolderNamed == DetachSpec => []HolderIsNamed
<1>1. NameInv => HolderIsNamed BY DEF NameInv
<1> QED BY <1>1, DetachHolds, PTL

\* With more tries than callers, none is refused for a probe (lockExclusive).
THEOREM NoneRefusedForAProbe == DetachSpec => []RefusedOnlyWhenHeld
<1>1. RefusedInv => RefusedOnlyWhenHeld BY DEF RefusedInv
<1> QED BY <1>1, DetachHolds, PTL

\* An answer in time names who held the rig meanwhile, or gave it up (HolderOf).
THEOREM AnswersName == DetachSpec => []AnswerNamesHolder
<1>1. NameInv => AnswerNamesHolder BY DEF NameInv
<1> QED BY <1>1, DetachHolds, PTL

\* The record names the newest logs of the rig's holders, as many as it is to
\* keep, whatever a power failure leaves of it (Hold).
THEOREM HistoryStays == DetachSpec => []HistoryKept
<1>1. TypeInv /\ HistoryInv => HistoryKept
  <2> SUFFICES ASSUME TypeInv, HistoryInv PROVE HistoryKept OBVIOUS
  <2>1. record \in Record /\ Kept(record) BY DEF TypeInv, Typed, HistoryInv
  <2>2. Named(record) \in Seq(Procs) /\ record.all \in Seq(Procs) BY <2>1 DEF Named, Record
  <2> QED BY <2>1, <2>2, EndsNewest DEF HistoryKept, Kept
<1> QED BY <1>1, DetachRefines, TypesHold, HistoryHolds, PTL

\* The child holds the rig it works on, by name, to the end (EndServing).
THEOREM ReadyHeld == DetachSpec => []ReadyIsHeld
<1>1. DetachInv /\ NameInv => ReadyIsHeld
  BY DetachAssumption DEF DetachInv, NameInv, HolderIsNamed, ReadyIsHeld
<1> QED BY <1>1, DetachHolds, PTL

\* A failure is told when the rig is free, and what was rented for it ended or
\* past ending (finishDetached, main).
THEOREM FailureSettled == DetachSpec => []FailureIsSettled
<1>1. DetachInv /\ NameInv => FailureIsSettled
  BY DetachAssumption DEF DetachInv, NameInv, HolderIsNamed, FailureIsSettled
<1> QED BY <1>1, DetachHolds, PTL

\* A bring-up that is stopped ends the rig it rented (cmdUp).
THEOREM SignalEnds == DetachSpec => []SignalEndsRented
<1>1. DetachInv => SignalEndsRented BY DEF DetachInv, SignalEndsRented, SignalEndsRig
<1> QED BY <1>1, DetachHolds, PTL

=============================================================================
