------------------------------ MODULE FilesProofs ------------------------------
(***************************************************************************)
(* The files that processes share without one lock over their whole use of  *)
(* them, for any number of processes: what the journal's Append returned    *)
(* for stays in it, and what a writer of the client keys was told of a key  *)
(* stays so, a key being admitted because it is stored, or was while the    *)
(* request was being answered.                                              *)
(***************************************************************************)
EXTENDS Journal, ClientKeys, TLAPS, FiniteSetTheorems

-----------------------------------------------------------------------------
(* The journal                                                             *)

\* Every piece an action writes is one.
LEMMA Pieces ==
  \A n \in Nat, part \in Part : [of |-> n, part |-> part] \in Piece
BY DEF Piece

\* The k-th piece after a step that put one more at the end.
LEMMA PutAt ==
  ASSUME JournalTypeOK, NEW piece \in Piece, file' = Append(file, piece)
  PROVE  /\ file' \in Seq(Piece) /\ Len(file') = Len(file) + 1
         /\ file'[Len(file) + 1] = piece
         /\ \A i \in 1..Len(file) : file'[i] = file[i]
BY DEF JournalTypeOK

\* What a power loss leaves: a prefix no shorter than what was fsynced, with
\* one line after it cut, perhaps.
LEMMA CutAt ==
  ASSUME JournalTypeOK, PowerLoss
  PROVE  /\ file' \in Seq(Piece) /\ synced' = Len(file')
         /\ Len(file') \in synced..Len(file)
         /\ \A i \in 1..Len(file') : file'[i].of = file[i].of
         /\ \E n \in synced..Len(file) :
              /\ \A i \in 1..n : file'[i] = file[i]
              /\ \/ Len(file') = n /\ torn' = torn
                 \/ /\ Len(file') = n + 1
                    /\ file[n + 1].part = "line" /\ file'[n + 1].part \in {"head", "body"}
                    /\ torn' = torn + 1
<1>t. file \in Seq(Piece) /\ synced \in 0..Len(file) /\ torn \in Nat
  BY DEF JournalTypeOK
<1>1. PICK n \in synced..Len(file) :
        \/ file' = SubSeq(file, 1, n) /\ synced' = n /\ torn' = torn
        \/ /\ n < Len(file) /\ file[n + 1].part = "line" /\ torn' = torn + 1
           /\ \E part \in {"head", "body"} :
                file' = Append(SubSeq(file, 1, n), [file[n + 1] EXCEPT !.part = part])
           /\ synced' = n + 1
  BY DEF PowerLoss
<1>2. /\ n \in Nat /\ SubSeq(file, 1, n) \in Seq(Piece)
      /\ Len(SubSeq(file, 1, n)) = n
      /\ \A i \in 1..n : SubSeq(file, 1, n)[i] = file[i]
  BY <1>t
<1>3. CASE file' = SubSeq(file, 1, n) /\ synced' = n /\ torn' = torn
  BY <1>t, <1>2, <1>3
<1>4. CASE ~(file' = SubSeq(file, 1, n) /\ synced' = n /\ torn' = torn)
  <2>1. PICK part \in {"head", "body"} :
          file' = Append(SubSeq(file, 1, n), [file[n + 1] EXCEPT !.part = part])
    BY <1>1, <1>4
  <2> DEFINE cut == [file[n + 1] EXCEPT !.part = part]
  <2>2. n + 1 \in 1..Len(file) /\ file[n + 1] \in Piece
    BY <1>t, <1>1, <1>2, <1>4
  <2>3. cut \in Piece /\ cut.of = file[n + 1].of /\ cut.part = part
    BY <2>2 DEF Piece, Part
  <2> HIDE DEF cut
  <2>4. /\ file' \in Seq(Piece) /\ Len(file') = n + 1 /\ file'[n + 1] = cut
        /\ \A i \in 1..n : file'[i] = file[i]
    BY <1>2, <2>1, <2>3 DEF cut
  <2>5. QED
    BY SMTT(30), <1>t, <1>1, <1>2, <1>4, <2>2, <2>3, <2>4
<1>5. QED
  BY <1>3, <1>4

-----------------------------------------------------------------------------

LEMMA InitJournal == JournalInit => JournalInv
BY BoundsAssumption DEF JournalInit, JournalInv, JournalTypeOK, EntriesInv, EndsInv, UncutInv, Ended

LEMMA TypeStep == JournalTypeOK /\ [JournalNext]_jvars => JournalTypeOK'
<1> SUFFICES ASSUME JournalTypeOK, [JournalNext]_jvars PROVE JournalTypeOK'
  OBVIOUS
<1> USE DEF JournalTypeOK, Goes
<1>p. ASSUME NEW n \in Nat, NEW part \in Part, Put([of |-> n, part |-> part])
      PROVE  file' \in Seq(Piece) /\ Len(file') = Len(file) + 1
  BY <1>p, Pieces, PutAt DEF Put
<1>n. Len(file) \in Nat
  OBVIOUS
<1>1. ASSUME NEW p \in Proc,
             Write(p) \/ WriteShort(p) \/ WriteRest(p)
      PROVE  JournalTypeOK'
  <2>1. CASE Write(p)
    <3>1. begun + 1 \in Nat /\ {"line", "head", "body"} \subseteq Part
      BY DEF Part
    <3>2. file' \in Seq(Piece) /\ Len(file') = Len(file) + 1
      BY <1>p, <2>1, <3>1 DEF Write
    <3>3. QED
      BY <1>n, <2>1, <3>2 DEF Write, Begin
  <2>2. CASE WriteShort(p)
    <3>1. begun + 1 \in Nat /\ {"line", "head", "body"} \subseteq Part
      BY DEF Part
    <3>2. file' \in Seq(Piece) /\ Len(file') = Len(file) + 1
      BY <1>p, <2>2, <3>1 DEF WriteShort
    <3>3. QED
      BY <1>n, <2>2, <3>2 DEF WriteShort, Begin
  <2>3. CASE WriteRest(p)
    <3>1. file' \in Seq(Piece) /\ Len(file') = Len(file) + 1
      BY <1>p, <2>3 DEF WriteRest, Part
    <3>2. QED
      BY <1>n, <2>3, <3>1 DEF WriteRest
  <2>4. QED
    BY <1>1, <2>1, <2>2, <2>3
<1>2. ASSUME NEW p \in Proc, AppendFails(p) \/ Sync(p) \/ Crash(p) PROVE JournalTypeOK'
  <2>1. CASE AppendFails(p) \/ Crash(p)
    BY <2>1 DEF AppendFails, Crash
  <2>2. CASE Sync(p)
    <3>1. acked' = acked \cup {entry[p]} /\ entry[p] \in Nat
      BY <2>2 DEF Sync
    <3>2. acked' \in SUBSET Nat
      BY <3>1
    <3>3. synced' \in 0..Len(file)
      BY <1>n, <2>2 DEF Sync
    <3>4. QED
      BY <2>2, <3>2, <3>3 DEF Sync
  <2>3. QED
    BY <1>2, <2>1, <2>2
<1>3. CASE PowerLoss
  <2>1. file' \in Seq(Piece) /\ synced' = Len(file') /\ torn' \in Nat
    BY <1>3, CutAt
  <2>2. QED
    BY <1>3, <2>1 DEF PowerLoss
<1>4. CASE UNCHANGED jvars
  BY <1>4 DEF jvars
<1>5. QED
  BY <1>1, <1>2, <1>3, <1>4 DEF JournalNext

\* One more piece, of an entry whose pieces are all heads or which has none.
LEMMA EntriesPut ==
  ASSUME JournalTypeOK, EntriesInv, NEW n \in Nat, NEW part \in Part,
         Put([of |-> n, part |-> part]), begun' \in {begun, begun + 1},
         n \in 1..begun',
         \A i \in 1..Len(file) : file[i].of = n =>
           file[i].part \notin LineEnds /\ part = "tail"
  PROVE  /\ \A i \in 1..Len(file') : file'[i].of \in 1..begun'
         /\ \A i, j \in 1..Len(file') :
              i < j /\ file'[i].of = file'[j].of =>
                file'[i].part \notin LineEnds /\ file'[j].part = "tail"
<1>1. /\ Len(file') = Len(file) + 1 /\ Len(file) \in Nat /\ begun \in Nat
      /\ file'[Len(file) + 1].of = n /\ file'[Len(file) + 1].part = part
      /\ \A i \in 1..Len(file) : file'[i] = file[i]
  BY PutAt, Pieces DEF Put, JournalTypeOK
<1>2. \A i \in 1..Len(file') : i \in 1..Len(file) \/ i = Len(file) + 1
  BY <1>1
<1>3. \A i \in 1..Len(file') : file'[i].of \in 1..begun'
  BY <1>1, <1>2 DEF EntriesInv
<1>4. ASSUME NEW i \in 1..Len(file'), NEW j \in 1..Len(file'), i < j,
             file'[i].of = file'[j].of
      PROVE  file'[i].part \notin LineEnds /\ file'[j].part = "tail"
  <2>1. i \in 1..Len(file)
    BY <1>1, <1>4
  <2>2. CASE j \in 1..Len(file)
    BY <1>1, <1>4, <2>1, <2>2 DEF EntriesInv
  <2>3. CASE j = Len(file) + 1
    BY <1>1, <1>4, <2>1, <2>3
  <2>4. QED
    BY <1>2, <2>2, <2>3
<1>5. QED
  BY <1>3, <1>4

\* The pieces of an entry stay one line, or a head and its tail.
LEMMA EntriesStep == JournalInv /\ [JournalNext]_jvars => EntriesInv'
<1> SUFFICES ASSUME JournalInv, [JournalNext]_jvars PROVE EntriesInv'
  OBVIOUS
<1>t. /\ JournalTypeOK /\ EntriesInv /\ begun \in Nat
      /\ pc \in [Proc -> {"idle", "rest", "sync"}] /\ entry \in [Proc -> Nat]
      /\ \A p \in Proc : pc[p] = "rest" => ~Ended(entry[p], Len(file))
  BY DEF JournalInv, JournalTypeOK, EndsInv
<1> DEFINE Numbers == /\ \A i \in 1..Len(file) : file[i].of \in 1..begun
                      /\ \A i, j \in 1..Len(file) :
                           i < j /\ file[i].of = file[j].of =>
                             file[i].part \notin LineEnds /\ file[j].part = "tail"
           Appenders == \A p \in Proc : pc[p] # "idle" =>
                          /\ entry[p] \in 1..begun
                          /\ \A q \in Proc :
                               pc[q] # "idle" /\ entry[q] = entry[p] => q = p
<1>i. EntriesInv' <=> Numbers' /\ Appenders'
  BY DEF EntriesInv
<1>j. Numbers /\ Appenders
  BY <1>t DEF EntriesInv
<1>b. ASSUME NEW p \in Proc, NEW part \in Part \ {"tail"},
             Begin(p), Put([of |-> begun + 1, part |-> part])
      PROVE  Numbers'
  <2>1. /\ begun + 1 \in Nat /\ begun' = begun + 1 /\ begun + 1 \in 1..begun'
        /\ \A i \in 1..Len(file) : file[i].of # begun + 1
    BY <1>b, <1>t DEF Begin, EntriesInv
  <2>2. QED
    BY <1>b, <1>t, <2>1, EntriesPut
<1>w. ASSUME NEW p \in Proc, Begin(p), NEW to, Goes(p, to) PROVE Appenders'
  BY <1>w, <1>t, <1>j DEF Begin, Goes
<1>1. ASSUME NEW p \in Proc, Write(p) PROVE EntriesInv'
  BY <1>1, <1>b, <1>w, <1>i DEF Write, Part
<1>2. ASSUME NEW p \in Proc, WriteShort(p) PROVE EntriesInv'
  <2>1. PICK part \in {"head", "body"} : Put([of |-> begun + 1, part |-> part])
    BY <1>2 DEF WriteShort
  <2>2. QED
    BY <1>2, <2>1, <1>b, <1>w, <1>i DEF WriteShort, Part
<1>3. ASSUME NEW p \in Proc, WriteRest(p) PROVE EntriesInv'
  <2>1. /\ entry[p] \in Nat /\ entry[p] \in 1..begun' /\ begun' = begun
        /\ \A i \in 1..Len(file) : file[i].of = entry[p] => file[i].part \notin LineEnds
        /\ "tail" \in Part /\ Put([of |-> entry[p], part |-> "tail"])
    BY <1>3, <1>t, <1>j DEF WriteRest, Ended, Part
  <2>2. Numbers'
    BY <1>t, <2>1, EntriesPut
  <2>3. Appenders'
    BY <1>3, <1>t, <1>j DEF WriteRest, Goes
  <2>4. QED
    BY <1>i, <2>2, <2>3
<1>4. ASSUME NEW p \in Proc, AppendFails(p) \/ Sync(p) \/ Crash(p) PROVE EntriesInv'
  <2>1. UNCHANGED <<file, begun, entry>> /\ Goes(p, "idle")
    BY <1>4 DEF AppendFails, Sync, Crash
  <2>2. Numbers'
    BY <1>j, <2>1
  <2>3. Appenders'
    BY <1>t, <1>j, <2>1 DEF Goes
  <2>4. QED
    BY <1>i, <2>2, <2>3
<1>5. CASE PowerLoss
  <2>1. Appenders' /\ begun' = begun
    BY <1>5 DEF PowerLoss
  <2>2. /\ Len(file') \in Nat /\ Len(file') <= Len(file) /\ Len(file) \in Nat
        /\ \A i \in 1..Len(file') : file'[i].of = file[i].of
    BY <1>5, <1>t, CutAt DEF JournalTypeOK
  <2>3. PICK n \in synced..Len(file) :
          /\ \A i \in 1..n : file'[i] = file[i]
          /\ \/ Len(file') = n
             \/ /\ Len(file') = n + 1
                /\ file[n + 1].part = "line" /\ file'[n + 1].part \in {"head", "body"}
    BY <1>5, <1>t, CutAt
  <2>4. n \in Nat
    BY <1>t, <2>2 DEF JournalTypeOK
  <2>5. ASSUME NEW i \in 1..Len(file'), NEW j \in 1..Len(file'), i < j,
               file'[i].of = file'[j].of
        PROVE  file'[i].part \notin LineEnds /\ file'[j].part = "tail"
    <3>1. file[i].part \notin LineEnds /\ file[j].part = "tail" /\ i \in 1..n
      BY <1>j, <2>2, <2>3, <2>4, <2>5
    <3>2. j # n + 1
      BY <2>2, <2>3, <2>4, <3>1
    <3>3. QED
      BY <2>2, <2>3, <2>4, <3>1, <3>2
  <2>6. Numbers'
    BY <1>j, <2>1, <2>2, <2>5
  <2>7. QED
    BY <1>i, <2>1, <2>6
<1>6. CASE UNCHANGED jvars
  BY <1>6, <1>i, <1>j DEF jvars
<1>7. QED
  BY <1>1, <1>2, <1>3, <1>4, <1>5, <1>6 DEF JournalNext

\* What is in the file up to what was fsynced stays there.
LEMMA SyncedStays ==
  ASSUME JournalTypeOK, [JournalNext]_jvars
  PROVE  /\ synced' >= synced /\ Len(file') >= synced
         /\ \A i \in 1..synced : file'[i] = file[i]
<1>t. synced \in Nat /\ Len(file) \in Nat /\ synced <= Len(file)
  BY DEF JournalTypeOK
<1>1. ASSUME NEW p \in Proc, Write(p) \/ WriteShort(p) \/ WriteRest(p)
      PROVE  /\ synced' = synced /\ Len(file') = Len(file) + 1
             /\ \A i \in 1..Len(file) : file'[i] = file[i]
  <2>1. PICK n \in Nat, part \in Part : Put([of |-> n, part |-> part])
    <3>1. begun + 1 \in Nat /\ entry[p] \in Nat
      BY DEF JournalTypeOK
    <3>2. QED
      BY <1>1, <3>1 DEF Write, WriteShort, WriteRest, Part
  <2>2. synced' = synced
    BY <1>1 DEF Write, WriteShort, WriteRest
  <2>3. QED
    BY <2>1, <2>2, PutAt, Pieces DEF Put
<1>2. ASSUME NEW p \in Proc, AppendFails(p) \/ Sync(p) \/ Crash(p)
      PROVE  file' = file /\ synced' \in {synced, Len(file)}
  BY <1>2 DEF AppendFails, Sync, Crash
<1>3. CASE PowerLoss
  <2>1. synced' = Len(file') /\ Len(file') \in synced..Len(file)
    BY <1>3, CutAt
  <2>2. PICK n \in synced..Len(file) : \A i \in 1..n : file'[i] = file[i]
    BY <1>3, CutAt
  <2>3. QED
    BY <1>t, <2>1, <2>2
<1>4. QED
  BY <1>1, <1>2, <1>3, <1>t DEF JournalNext, jvars

\* An acknowledged entry's end is on the disk, and stays.
LEMMA EndsStep == JournalInv /\ [JournalNext]_jvars => EndsInv'
<1> SUFFICES ASSUME JournalInv, [JournalNext]_jvars PROVE EndsInv'
  OBVIOUS
<1>t. /\ JournalTypeOK /\ EntriesInv /\ EndsInv
      /\ pc \in [Proc -> {"idle", "rest", "sync"}] /\ entry \in [Proc -> Nat]
      /\ synced \in Nat /\ Len(file) \in Nat /\ synced <= Len(file) /\ begun \in Nat
      /\ synced' >= synced /\ Len(file') >= synced
      /\ synced' \in Nat /\ Len(file') \in Nat /\ synced' <= Len(file')
      /\ \A i \in 1..synced : file'[i] = file[i]
  BY TypeStep, SyncedStays DEF JournalInv, JournalTypeOK
<1>k. \A e : Ended(e, synced) => Ended(e, synced)'
  BY <1>t DEF Ended
<1>n. ASSUME NEW n \in Nat, NEW part \in Part, Put([of |-> n, part |-> part])
      PROVE  /\ Len(file') = Len(file) + 1
             /\ file'[Len(file) + 1].of = n /\ file'[Len(file) + 1].part = part
             /\ \A i \in 1..Len(file) : file'[i] = file[i]
  BY <1>n, <1>t, PutAt, Pieces DEF Put
\* A new piece ends its own entry, if it ends any, and changes no other.
<1>e. ASSUME NEW n \in Nat, NEW part \in Part, Put([of |-> n, part |-> part]), NEW e
      PROVE  Ended(e, Len(file))' <=> Ended(e, Len(file)) \/ (e = n /\ part \in LineEnds)
  <2>1. \A i : i \in 1..Len(file') <=> i \in 1..Len(file) \/ i = Len(file) + 1
    BY <1>e, <1>n, <1>t
  <2>2. QED
    BY SMTT(30), <1>e, <1>n, <1>t, <2>1 DEF Ended
<1>b. ~Ended(begun + 1, Len(file))
  BY <1>t DEF EntriesInv, Ended
<1>p. Part = {"line", "head", "body", "tail"} /\ "line" \in LineEnds /\ "tail" \in LineEnds
        /\ "head" \notin LineEnds /\ "body" \notin LineEnds
  BY DEF Part, LineEnds
<1>a. ASSUME UNCHANGED acked PROVE \A e \in acked' : Ended(e, synced)'
  BY <1>a, <1>k, <1>t DEF EndsInv
<1> DEFINE Writing(p) == /\ pc[p] = "rest" => ~Ended(entry[p], Len(file))
                         /\ pc[p] = "sync" => Ended(entry[p], Len(file))
<1>w. \A p \in Proc : Writing(p)
  BY <1>t DEF EndsInv
<1>i. (\A p \in Proc : Writing(p)') /\ (\A e \in acked' : Ended(e, synced)') => EndsInv'
  BY DEF EndsInv
\* The process that puts a piece of its entry, and any other.
<1>v. ASSUME NEW p \in Proc, NEW q \in Proc, NEW n \in Nat, NEW part \in Part,
             Put([of |-> n, part |-> part]), NEW to \in {"rest", "sync"},
             pc' = [pc EXCEPT ![p] = to], entry' = [entry EXCEPT ![p] = n],
             \/ n = begun + 1 /\ (to = "sync" <=> part \in LineEnds)
             \/ n = entry[p] /\ pc[p] = "rest" /\ to = "sync" /\ part \in LineEnds
      PROVE  Writing(q)'
  <2>1. CASE q = p
    <3>1. pc'[q] = to /\ entry'[q] = n
      BY <1>v, <1>t, <2>1
    <3>2. to = "sync" => Ended(n, Len(file))'
      BY <1>v, <1>e
    <3>3. to = "rest" => ~Ended(n, Len(file))'
      BY <1>v, <1>e, <1>b
    <3>4. QED
      BY <3>1, <3>2, <3>3 DEF Ended
  <2>2. CASE q # p /\ pc[q] # "idle"
    <3>1. pc'[q] = pc[q] /\ entry'[q] = entry[q] /\ entry[q] # n
      BY <1>v, <1>t, <2>2 DEF EntriesInv
    <3>2. \A e : e # n => (Ended(e, Len(file))' <=> Ended(e, Len(file)))
      BY <1>v, <1>e
    <3>3. QED
      BY <1>w, <3>1, <3>2 DEF Ended
  <2>3. CASE q # p /\ pc[q] = "idle"
    BY <1>v, <1>t, <2>3
  <2>4. QED
    BY <2>1, <2>2, <2>3
<1>1. ASSUME NEW p \in Proc, Write(p) PROVE EndsInv'
  <2>1. begun + 1 \in Nat /\ Put([of |-> begun + 1, part |-> "line"])
          /\ UNCHANGED acked /\ Goes(p, "sync") /\ Begin(p)
    BY <1>1, <1>t DEF Write
  <2>2. \A q \in Proc : Writing(q)'
    <3>1. ASSUME NEW q \in Proc PROVE Writing(q)'
      BY <2>1, <3>1, <1>v, <1>p DEF Goes, Begin
    <3>2. QED
      BY <3>1
  <2>3. QED
    BY <1>a, <1>i, <2>1, <2>2
<1>2. ASSUME NEW p \in Proc, WriteShort(p) PROVE EndsInv'
  <2>1. PICK part \in {"head", "body"} : Put([of |-> begun + 1, part |-> part])
    BY <1>2 DEF WriteShort
  <2>2. begun + 1 \in Nat /\ UNCHANGED acked /\ Goes(p, "rest") /\ Begin(p)
    BY <1>2, <1>t DEF WriteShort
  <2>3. \A q \in Proc : Writing(q)'
    <3>1. ASSUME NEW q \in Proc PROVE Writing(q)'
      BY <2>1, <2>2, <3>1, <1>v, <1>p DEF Goes, Begin
    <3>2. QED
      BY <3>1
  <2>4. QED
    BY <1>a, <1>i, <2>2, <2>3
<1>3. ASSUME NEW p \in Proc, WriteRest(p) PROVE EndsInv'
  <2>1. /\ entry[p] \in Nat /\ Put([of |-> entry[p], part |-> "tail"])
        /\ pc[p] = "rest" /\ Goes(p, "sync") /\ UNCHANGED <<entry, acked>>
    BY <1>3, <1>t DEF WriteRest
  <2>2. \A q \in Proc : Writing(q)'
    <3>1. entry' = [entry EXCEPT ![p] = entry[p]]
      BY <1>t, <2>1
    <3>2. ASSUME NEW q \in Proc PROVE Writing(q)'
      BY <2>1, <3>1, <3>2, <1>v, <1>p DEF Goes
    <3>3. QED
      BY <3>2
  <2>3. QED
    BY <1>a, <1>i, <2>1, <2>2
<1>4. ASSUME NEW p \in Proc, AppendFails(p) \/ Crash(p) PROVE EndsInv'
  <2>1. UNCHANGED <<file, entry, acked>> /\ Goes(p, "idle")
    BY <1>4 DEF AppendFails, Crash
  <2>2. \A q \in Proc : Writing(q)'
    BY <2>1, <1>t, <1>w DEF Goes, Ended
  <2>3. QED
    BY <1>a, <1>i, <2>1, <2>2
<1>5. ASSUME NEW p \in Proc, Sync(p) PROVE EndsInv'
  <2>1. /\ UNCHANGED <<file, entry>> /\ Goes(p, "idle") /\ synced' = Len(file)
        /\ pc[p] = "sync" /\ acked' = acked \cup {entry[p]}
    BY <1>5 DEF Sync
  <2>2. \A q \in Proc : Writing(q)'
    BY <2>1, <1>t, <1>w DEF Goes, Ended
  <2>3. \A e \in acked' : Ended(e, synced)'
    <3>1. \A e \in acked : Ended(e, synced)'
      BY <1>k, <1>t DEF EndsInv
    <3>2. Ended(entry[p], synced)'
      BY <1>w, <2>1 DEF Ended
    <3>3. QED
      BY <2>1, <3>1, <3>2
  <2>4. QED
    BY <1>i, <2>2, <2>3
<1>6. CASE PowerLoss
  BY <1>6, <1>a, <1>i DEF PowerLoss
<1>7. CASE UNCHANGED jvars
  BY <1>7, <1>a, <1>i, <1>w DEF jvars, Ended
<1>8. QED
  BY <1>1, <1>2, <1>3, <1>4, <1>5, <1>6, <1>7 DEF JournalNext

\* With no write cut short, the file is lines and nothing else.
LEMMA UncutStep == JournalInv /\ [JournalNext]_jvars => UncutInv'
<1> SUFFICES ASSUME JournalInv, [JournalNext]_jvars, torn' = 0
             PROVE  /\ \A i \in 1..Len(file') : file'[i].part = "line"
                    /\ \A p \in Proc : pc'[p] # "rest"
  BY DEF UncutInv
<1>t. /\ JournalTypeOK /\ torn \in Nat /\ begun \in Nat
      /\ pc \in [Proc -> {"idle", "rest", "sync"}]
      /\ torn = 0 => /\ \A i \in 1..Len(file) : file[i].part = "line"
                     /\ \A p \in Proc : pc[p] # "rest"
  BY DEF JournalInv, JournalTypeOK, UncutInv
<1>1. ASSUME NEW p \in Proc, Write(p)
      PROVE  /\ \A i \in 1..Len(file') : file'[i].part = "line"
             /\ \A q \in Proc : pc'[q] # "rest"
  <2>1. begun + 1 \in Nat /\ "line" \in Part /\ Put([of |-> begun + 1, part |-> "line"])
    BY <1>1, <1>t DEF Write, Part
  <2>2. /\ Len(file) \in Nat /\ Len(file') = Len(file) + 1
        /\ file'[Len(file) + 1].part = "line"
        /\ \A i \in 1..Len(file) : file'[i] = file[i]
    BY <1>t, <2>1, PutAt, Pieces DEF Put, JournalTypeOK
  <2>3. torn = 0
    BY <1>1 DEF Write
  <2>4. \A i \in 1..Len(file') : file'[i].part = "line"
    BY <1>t, <2>2, <2>3
  <2>5. QED
    BY <1>1, <1>t, <2>3, <2>4 DEF Write, Goes
<1>2. ASSUME NEW p \in Proc, WriteShort(p) \/ WriteRest(p) PROVE FALSE
  BY <1>2, <1>t DEF WriteShort, WriteRest
<1>3. ASSUME NEW p \in Proc, AppendFails(p) \/ Sync(p) \/ Crash(p)
      PROVE  /\ \A i \in 1..Len(file') : file'[i].part = "line"
             /\ \A q \in Proc : pc'[q] # "rest"
  BY <1>3, <1>t DEF AppendFails, Sync, Crash, Goes
<1>4. CASE PowerLoss
  <2>1. PICK n \in synced..Len(file) :
          /\ \A i \in 1..n : file'[i] = file[i]
          /\ \/ Len(file') = n /\ torn' = torn
             \/ torn' = torn + 1
    BY <1>4, <1>t, CutAt
  <2>2. torn = 0 /\ Len(file') = n /\ synced \in Nat /\ Len(file) \in Nat
    BY <1>t, <2>1 DEF JournalTypeOK
  <2>3. QED
    BY <1>4, <1>t, <2>1, <2>2 DEF PowerLoss
<1>5. CASE UNCHANGED jvars
  BY <1>5, <1>t DEF jvars
<1>6. QED
  BY <1>1, <1>2, <1>3, <1>4, <1>5 DEF JournalNext

-----------------------------------------------------------------------------

LEMMA JournalStep == JournalInv /\ [JournalNext]_jvars => JournalInv'
BY TypeStep, EntriesStep, EndsStep, UncutStep DEF JournalInv

\* The journal's inductive invariant, for any number of processes and torn
\* writes.
THEOREM JournalInvariant == JournalSpec => []JournalInv
  BY InitJournal, JournalStep, PTL DEF JournalSpec

\* Append's promise as RigStore takes it: unless a write was cut short, an entry
\* whose Append returned is read back, through crashes and power losses.
THEOREM UncutRead == JournalSpec => []UncutReadable
<1>1. JournalInv => UncutReadable
  <2> SUFFICES ASSUME JournalInv, torn = 0, NEW e \in acked PROVE e \in ReadJournal
    BY DEF UncutReadable
  <2>1. /\ synced \in Nat /\ Len(file) \in Nat /\ synced <= Len(file)
        /\ Ended(e, synced) /\ \A i \in 1..Len(file) : file[i].part = "line"
    BY DEF JournalInv, JournalTypeOK, EndsInv, UncutInv
  <2>2. PICK i \in 1..Len(file) : file[i].of = e
    BY <2>1 DEF Ended
  <2>3. ReadAt(i)
    BY <2>1, <2>2 DEF ReadAt, Starts, LineEnds
  <2>4. QED
    BY <2>2, <2>3 DEF ReadJournal
<1>2. QED
  BY <1>1, JournalInvariant, PTL

\* The line of an acknowledged entry that can be read back lies below what was
\* fsynced.
LEMMA ReadBelowSynced ==
  ASSUME JournalInv, NEW e \in acked, NEW i \in 1..Len(file), ReadAt(i), file[i].of = e
  PROVE  /\ i <= synced
         /\ \/ file[i].part = "line"
            \/ /\ i + 1 <= synced /\ file[i].part \in {"head", "body"}
               /\ file[i + 1].part = "tail" /\ file[i + 1].of = e
<1>t. /\ synced \in Nat /\ Len(file) \in Nat /\ synced <= Len(file)
      /\ EntriesInv /\ Ended(e, synced)
  BY DEF JournalInv, JournalTypeOK, EndsInv
<1>1. PICK j \in 1..Len(file) : j <= synced /\ file[j].of = e /\ file[j].part \in LineEnds
  BY <1>t DEF Ended
<1>2. CASE file[i].part = "line"
  <2>1. i = j
    BY <1>t, <1>1, <1>2 DEF EntriesInv, LineEnds
  <2>2. QED
    BY <1>1, <1>2, <2>1
<1>3. CASE file[i].part \in {"head", "body"} /\ i < Len(file)
             /\ file[i + 1].part = "tail" /\ file[i + 1].of = e
  <2>1. i + 1 = j
    BY <1>t, <1>1, <1>3 DEF EntriesInv, LineEnds
  <2>2. QED
    BY <1>t, <1>1, <1>3, <2>1
\* The last piece of the file is no body of an entry that ended before it.
<1>4. CASE file[i].part = "body" /\ i = Len(file)
  BY <1>t, <1>1, <1>4 DEF EntriesInv, LineEnds
<1>5. QED
  BY <1>2, <1>3, <1>4 DEF ReadAt

\* No later write, crash or power loss hides an acknowledged entry that could be
\* read back: the journal is append-only and its torn pieces only harm what
\* comes after them.
THEOREM AckedStays == JournalSpec => AckedStaysReadable
<1>1. JournalInv /\ [JournalNext]_jvars =>
        \A e \in acked : e \in ReadJournal => e \in ReadJournal'
  <2> SUFFICES ASSUME JournalInv, [JournalNext]_jvars, NEW e \in acked, e \in ReadJournal
               PROVE  e \in ReadJournal'
    OBVIOUS
  <2>1. PICK i \in 1..Len(file) : ReadAt(i) /\ file[i].of = e
    BY DEF ReadJournal
  <2>2. /\ i <= synced
        /\ \/ file[i].part = "line"
           \/ /\ i + 1 <= synced /\ file[i].part \in {"head", "body"}
              /\ file[i + 1].part = "tail" /\ file[i + 1].of = e
    BY <2>1, ReadBelowSynced
  <2>3. /\ synced \in Nat /\ Len(file') \in Nat /\ Len(file') >= synced
        /\ \A k \in 1..synced : file'[k] = file[k]
    BY SyncedStays, TypeStep DEF JournalInv, JournalTypeOK
  <2>4. i \in 1..Len(file') /\ file'[i].of = e
    BY <2>1, <2>2, <2>3
  <2>5. ReadAt(i)'
    BY <2>1, <2>2, <2>3, <2>4 DEF ReadAt, Starts
  <2>6. QED
    BY <2>4, <2>5 DEF ReadJournal
<1>2. QED
  BY <1>1, JournalInvariant, PTL DEF JournalSpec, AckedStaysReadable

-----------------------------------------------------------------------------
(* What a torn write costs                                                 *)

Cuts == {i \in 1..Len(file) : file[i].part \notin LineEnds}

\* No piece lacks its line's end but by a write, or a power loss, that tore it;
\* and a tail comes after the head it completes.
CutsInv ==
  /\ Cardinality(Cuts) <= torn
  /\ \A i \in 1..Len(file) : file[i].part = "tail" => \E k \in Cuts : k < i /\ file[k].of = file[i].of
  /\ \A p \in Proc : pc[p] = "rest" => \E k \in Cuts : file[k].of = entry[p]

LEMMA OneMoreCut ==
  ASSUME NEW S, IsFiniteSet(S), NEW x
  PROVE  /\ IsFiniteSet(S \cup {x}) /\ Cardinality(S \cup {x}) \in Nat
         /\ Cardinality(S \cup {x}) <= Cardinality(S) + 1
<1>1. Cardinality(S) \in Nat BY FS_CardinalityType
<1>2. IsFiniteSet(S \cup {x}) BY FS_AddElement
<1>3. Cardinality(S \cup {x}) = IF x \in S THEN Cardinality(S) ELSE Cardinality(S) + 1
  BY FS_AddElement
<1> QED BY <1>1, <1>2, <1>3

LEMMA CutsFinite ==
  ASSUME JournalTypeOK
  PROVE  IsFiniteSet(Cuts) /\ Cardinality(Cuts) \in Nat
<1>1. IsFiniteSet(1..Len(file)) BY FS_Interval DEF JournalTypeOK
<1>2. Cuts \in SUBSET (1..Len(file)) BY DEF Cuts
<1> QED BY <1>1, <1>2, FS_Subset, FS_CardinalityType

LEMMA CutsInit == JournalInit => CutsInv
<1> SUFFICES ASSUME JournalInit PROVE CutsInv OBVIOUS
<1>1. Cuts = {} /\ 1..Len(file) = {} BY DEF JournalInit, Cuts
<1> QED BY <1>1, FS_EmptySet DEF JournalInit, CutsInv

\* A piece put at the end is one more cut, or none.
LEMMA CutsPut ==
  ASSUME JournalTypeOK, CutsInv, NEW n \in Nat, NEW part \in Part, Put([of |-> n, part |-> part])
  PROVE  /\ Cuts' = Cuts \cup (IF part \in LineEnds THEN {} ELSE {Len(file) + 1})
         /\ Cardinality(Cuts') <= torn + (IF part \in LineEnds THEN 0 ELSE 1)
         /\ \A k \in Cuts : k \in Cuts' /\ file'[k].of = file[k].of
         /\ file'[Len(file) + 1].of = n /\ file'[Len(file) + 1].part = part
         /\ \A i \in 1..Len(file') : i \in 1..Len(file) \/ i = Len(file) + 1
         /\ \A i \in 1..Len(file) : file'[i] = file[i]
<1>1. /\ Len(file') = Len(file) + 1 /\ Len(file) \in Nat /\ torn \in Nat
      /\ file'[Len(file) + 1].of = n /\ file'[Len(file) + 1].part = part
      /\ \A i \in 1..Len(file) : file'[i] = file[i]
  BY PutAt, Pieces DEF Put, JournalTypeOK
<1>2. 1..Len(file') = 1..Len(file) \cup {Len(file) + 1} BY <1>1
<1>3. Cuts' = Cuts \cup (IF part \in LineEnds THEN {} ELSE {Len(file) + 1})
  <2>1. Len(file) + 1 \notin 1..Len(file) BY <1>1
  <2> QED BY <1>1, <1>2, <2>1 DEF Cuts
<1>4. Cardinality(Cuts') <= torn + (IF part \in LineEnds THEN 0 ELSE 1)
  <2>1. IsFiniteSet(Cuts) /\ Cardinality(Cuts) \in Nat /\ Cardinality(Cuts) <= torn
    BY CutsFinite DEF CutsInv
  <2>2. CASE part \in LineEnds
    <3>1. Cuts' = Cuts BY <1>3, <2>2
    <3> QED BY <1>1, <2>1, <2>2, <3>1
  <2>3. CASE part \notin LineEnds
    <3>1. Cuts' = Cuts \cup {Len(file) + 1} BY <1>3, <2>3
    <3>2. Cardinality(Cuts') <= Cardinality(Cuts) + 1 /\ Cardinality(Cuts') \in Nat
      BY <2>1, <3>1, OneMoreCut
    <3> QED BY <1>1, <2>1, <2>3, <3>2
  <2> QED BY <2>2, <2>3
<1> QED BY <1>1, <1>2, <1>3, <1>4 DEF Cuts

\* So a put keeps the count, if it tears no more than it says.
LEMMA CutsKept ==
  ASSUME JournalTypeOK, CutsInv, NEW n \in Nat, NEW part \in Part, Put([of |-> n, part |-> part]),
         torn' = torn + (IF part \in LineEnds THEN 0 ELSE 1),
         part = "tail" => \E k \in Cuts : file[k].of = n,
         \A q \in Proc : pc'[q] = "rest" =>
           \/ pc[q] = "rest" /\ entry'[q] = entry[q]
           \/ part \notin LineEnds /\ entry'[q] = n
  PROVE  CutsInv'
<1>1. Cardinality(Cuts') <= torn' BY CutsPut
<1>2. ASSUME NEW i \in 1..Len(file'), file'[i].part = "tail"
      PROVE  \E k \in Cuts' : k < i /\ file'[k].of = file'[i].of
  <2>1. CASE i \in 1..Len(file)
    <3>1. PICK k \in Cuts : k < i /\ file[k].of = file[i].of BY <1>2, <2>1, CutsPut DEF CutsInv
    <3>2. k \in Cuts' /\ file'[k].of = file[k].of /\ file'[i] = file[i] BY <2>1, CutsPut
    <3> QED BY <3>1, <3>2
  <2>2. CASE i = Len(file) + 1
    <3>1. PICK k \in Cuts : file[k].of = n BY <1>2, <2>2, CutsPut
    <3>2. k < i BY <2>2 DEF Cuts, JournalTypeOK
    <3>3. k \in Cuts' /\ file'[k].of = n /\ file'[i].of = n BY <2>2, <3>1, CutsPut
    <3> QED BY <3>2, <3>3
  <2> QED BY <2>1, <2>2, CutsPut
<1>3. ASSUME NEW q \in Proc, pc'[q] = "rest" PROVE \E k \in Cuts' : file'[k].of = entry'[q]
  <2>1. CASE pc[q] = "rest" /\ entry'[q] = entry[q]
    <3>1. PICK k \in Cuts : file[k].of = entry[q] BY <2>1 DEF CutsInv
    <3> QED BY <2>1, <3>1, CutsPut
  <2>2. CASE part \notin LineEnds /\ entry'[q] = n
    <3>1. Len(file) + 1 \in Cuts' /\ file'[Len(file) + 1].of = n BY <2>2, CutsPut
    <3> QED BY <2>2, <3>1
  <2> QED BY <1>3, <2>1, <2>2
<1> QED BY <1>1, <1>2, <1>3 DEF CutsInv

LEMMA CutsStep ==
  ASSUME JournalInv, CutsInv, [JournalNext]_jvars
  PROVE  CutsInv'
<1>t. /\ JournalTypeOK /\ begun \in Nat /\ begun + 1 \in Nat /\ torn \in Nat
      /\ pc \in [Proc -> {"idle", "rest", "sync"}] /\ entry \in [Proc -> Nat]
  BY DEF JournalInv, JournalTypeOK
<1>p. Part = {"line", "head", "body", "tail"} /\ LineEnds = {"line", "tail"}
  BY DEF Part, LineEnds
<1>1. ASSUME NEW p \in Proc, Write(p) PROVE CutsInv'
  <2>1. Put([of |-> begun + 1, part |-> "line"]) /\ torn' = torn
    BY <1>1 DEF Write
  <2>2. \A q \in Proc : pc'[q] = "rest" => pc[q] = "rest" /\ entry'[q] = entry[q]
    BY <1>1, <1>t DEF Write, Begin, Goes
  <2>3. torn' = torn + (IF "line" \in LineEnds THEN 0 ELSE 1) BY <1>t, <1>p, <2>1
  <2>4. "line" \in Part /\ "line" # "tail" BY <1>p
  <2>5. JournalTypeOK /\ begun + 1 \in Nat BY <1>t
  <2> QED BY <2>1, <2>2, <2>3, <2>4, <2>5, CutsKept
<1>2. ASSUME NEW p \in Proc, WriteShort(p) PROVE CutsInv'
  <2>1. PICK part \in {"head", "body"} : Put([of |-> begun + 1, part |-> part])
    BY <1>2 DEF WriteShort
  <2>2. torn' = torn + 1 /\ entry'[p] = begun + 1
        /\ \A q \in Proc : q # p => pc'[q] = pc[q] /\ entry'[q] = entry[q]
    BY <1>2, <1>t DEF WriteShort, Begin, Goes
  <2>3. torn' = torn + (IF part \in LineEnds THEN 0 ELSE 1) /\ part \notin LineEnds
    BY <1>p, <2>2
  <2>4. part \in Part /\ part # "tail" BY <1>p
  <2>5. JournalTypeOK /\ begun + 1 \in Nat BY <1>t
  <2> QED BY <2>1, <2>2, <2>3, <2>4, <2>5, CutsKept
<1>3. ASSUME NEW p \in Proc, WriteRest(p) PROVE CutsInv'
  <2>1. Put([of |-> entry[p], part |-> "tail"]) /\ torn' = torn /\ entry' = entry
        /\ pc[p] = "rest" /\ entry[p] \in Nat
    BY <1>3, <1>t DEF WriteRest
  <2>2. \A q \in Proc : pc'[q] = "rest" => pc[q] = "rest"
    BY <1>3, <1>t DEF WriteRest, Goes
  <2>3. PICK k \in Cuts : file[k].of = entry[p] BY <2>1 DEF CutsInv
  <2>4. torn' = torn + (IF "tail" \in LineEnds THEN 0 ELSE 1) BY <1>t, <1>p, <2>1
  <2>5. "tail" \in Part /\ JournalTypeOK BY <1>t, <1>p
  <2> QED BY <2>1, <2>2, <2>3, <2>4, <2>5, CutsKept
<1>4. ASSUME NEW p \in Proc, AppendFails(p) \/ Sync(p) \/ Crash(p) PROVE CutsInv'
  <2>1. UNCHANGED <<file, entry, torn>> /\ \A q \in Proc : pc'[q] = "rest" => pc[q] = "rest"
    BY <1>4, <1>t DEF AppendFails, Sync, Crash, Goes
  <2>2. Cuts' = Cuts BY <2>1 DEF Cuts
  <2> QED BY <2>1, <2>2 DEF CutsInv
<1>5. CASE PowerLoss
  <2>0. /\ Len(file) \in Nat /\ Len(file') \in Nat /\ Len(file') <= Len(file) /\ synced \in Nat
        /\ \A i \in 1..Len(file') : file'[i].of = file[i].of
    BY <1>5, <1>t, CutAt DEF JournalTypeOK
  <2>1. PICK n \in synced..Len(file) :
          /\ \A i \in 1..n : file'[i] = file[i]
          /\ \/ Len(file') = n /\ torn' = torn
             \/ /\ Len(file') = n + 1 /\ torn' = torn + 1
                /\ file[n + 1].part = "line" /\ file'[n + 1].part \in {"head", "body"}
    BY <1>5, <1>t, CutAt
  <2>2. n \in Nat BY <2>0
  <2>3. Cuts' \subseteq Cuts \cup {n + 1} /\ (torn' = torn => Cuts' \subseteq Cuts)
    BY <1>t, <2>0, <2>1, <2>2 DEF Cuts
  <2>4. Cardinality(Cuts') <= torn'
    <3>1. IsFiniteSet(Cuts) /\ Cardinality(Cuts) \in Nat /\ Cardinality(Cuts) <= torn
      BY <1>t, CutsFinite DEF CutsInv
    <3>2. CASE torn' = torn
      <4>1. Cuts' \in SUBSET Cuts BY <2>3, <3>2
      <4>2. Cardinality(Cuts') <= Cardinality(Cuts) /\ Cardinality(Cuts') \in Nat
        BY <3>1, <4>1, FS_Subset, FS_CardinalityType
      <4> QED BY <1>t, <3>1, <3>2, <4>2
    <3>3. CASE torn' = torn + 1
      <4>1. /\ IsFiniteSet(Cuts \cup {n + 1}) /\ Cardinality(Cuts \cup {n + 1}) \in Nat
            /\ Cardinality(Cuts \cup {n + 1}) <= Cardinality(Cuts) + 1
        BY <3>1, OneMoreCut
      <4>2. Cuts' \in SUBSET (Cuts \cup {n + 1}) BY <2>3
      <4>3. Cardinality(Cuts') <= Cardinality(Cuts \cup {n + 1}) /\ Cardinality(Cuts') \in Nat
        BY <4>1, <4>2, FS_Subset, FS_CardinalityType
      <4> QED BY <1>t, <3>1, <3>3, <4>1, <4>3
    <3> QED BY <2>1, <3>2, <3>3
  <2>5. ASSUME NEW i \in 1..Len(file'), file'[i].part = "tail"
        PROVE  \E k \in Cuts' : k < i /\ file'[k].of = file'[i].of
    <3>1. i \in 1..n /\ i \in 1..Len(file) BY <2>0, <2>1, <2>2, <2>5
    <3>2. PICK k \in Cuts : k < i /\ file[k].of = file[i].of BY <2>1, <2>5, <3>1 DEF CutsInv
    <3>3. k \in 1..n /\ k \in 1..Len(file') BY <2>0, <2>1, <2>2, <3>1, <3>2 DEF Cuts
    <3>4. k \in Cuts' BY <2>1, <3>2, <3>3 DEF Cuts
    <3> QED BY <2>0, <3>2, <3>3, <3>4
  <2>6. \A p \in Proc : pc'[p] = "idle" BY <1>5 DEF PowerLoss
  <2> QED BY <2>4, <2>5, <2>6 DEF CutsInv
<1>6. CASE UNCHANGED jvars
  BY <1>6 DEF jvars, CutsInv, Cuts
<1> QED BY <1>1, <1>2, <1>3, <1>4, <1>5, <1>6 DEF JournalNext

\* A set of what the cuts say something of is no larger than there are cuts.
LEMMA CutsCount ==
  ASSUME NEW C, IsFiniteSet(C), NEW f
  PROVE  IsFiniteSet({f[k] : k \in C}) /\ Cardinality({f[k] : k \in C}) <= Cardinality(C)
         /\ Cardinality({f[k] : k \in C}) \in Nat
<1> DEFINE g == [k \in C |-> f[k]]
<1>1. g \in Surjection(C, {f[k] : k \in C}) BY DEF Surjection
<1> HIDE DEF g
<1> QED BY <1>1, FS_Surjection, FS_CardinalityType

\* An acknowledged entry that is not read back was cut itself, or follows a cut.
LEMMA LostAtCut ==
  ASSUME JournalInv, CutsInv, NEW e \in acked \ ReadJournal
  PROVE  \E k \in Cuts : e = file[k].of \/ e = file[k + 1].of
<1>1. JournalTypeOK /\ Ended(e, synced) BY DEF JournalInv, EndsInv
<1>2. PICK i \in 1..Len(file) : file[i].of = e /\ file[i].part \in LineEnds
  BY <1>1 DEF Ended, JournalTypeOK
<1>3. i \in Nat \ {0} /\ Len(file) \in Nat BY <1>1 DEF JournalTypeOK
<1>4. CASE file[i].part = "tail" BY <1>2, <1>4 DEF CutsInv
<1>5. CASE file[i].part = "line"
  <2>1. ~ReadAt(i) BY <1>2 DEF ReadJournal
  <2>2. i # 1 /\ file[i - 1].part \notin LineEnds BY <1>5, <2>1 DEF ReadAt, Starts
  <2>3. i - 1 \in Cuts /\ (i - 1) + 1 = i BY <1>2, <1>3, <2>2 DEF Cuts
  <2> QED BY <1>2, <2>3
<1> QED BY <1>2, <1>4, <1>5 DEF LineEnds

\* Each piece left without its line's end costs at most two acknowledged entries,
\* its own and the next, for any number of processes, crashes and power losses
\* (Append and ReadJournal).
THEOREM TornWriteCostsTwo == JournalSpec => []TornCostsTwo
<1>1. JournalInit => JournalInv /\ CutsInv BY InitJournal, CutsInit
<1>2. JournalInv /\ CutsInv /\ [JournalNext]_jvars => (JournalInv /\ CutsInv)'
  BY JournalStep, CutsStep
<1>3. ASSUME JournalInv, CutsInv PROVE TornCostsTwo
  <2> DEFINE cut == [k \in Cuts |-> file[k].of]
             behind == [k \in Cuts |-> file[k + 1].of]
             A == {cut[k] : k \in Cuts}
             B == {behind[k] : k \in Cuts}
             lost == acked \ ReadJournal
  <2>1. \A e \in lost : e \in A \/ e \in B BY <1>3, LostAtCut
  <2>2. /\ IsFiniteSet(Cuts) /\ Cardinality(Cuts) \in Nat /\ torn \in Nat
        /\ Cardinality(Cuts) <= torn
    BY <1>3, CutsFinite DEF JournalInv, CutsInv, JournalTypeOK
  <2> HIDE DEF cut, behind
  <2>3. /\ IsFiniteSet(A) /\ Cardinality(A) <= Cardinality(Cuts) /\ Cardinality(A) \in Nat
        /\ IsFiniteSet(B) /\ Cardinality(B) <= Cardinality(Cuts) /\ Cardinality(B) \in Nat
    BY <2>2, CutsCount
  <2> HIDE DEF A, B, lost
  <2>4. IsFiniteSet(A \cup B) /\ Cardinality(A \cup B) <= Cardinality(A) + Cardinality(B)
    <3>1. Cardinality(A \cap B) \in Nat BY <2>3, FS_Intersection, FS_CardinalityType
    <3>2. Cardinality(A \cup B) = Cardinality(A) + Cardinality(B) - Cardinality(A \cap B)
      BY <2>3, FS_Union
    <3>3. IsFiniteSet(A \cup B) BY <2>3, FS_Union
    <3> QED BY <2>3, <3>1, <3>2, <3>3
  <2>5. lost \in SUBSET (A \cup B) BY <2>1
  <2>6. Cardinality(lost) <= Cardinality(A \cup B) /\ Cardinality(lost) \in Nat
        /\ Cardinality(A \cup B) \in Nat
    BY <2>4, <2>5, FS_Subset, FS_CardinalityType
  <2>7. Cardinality(lost) <= 2 * torn BY <2>2, <2>3, <2>4, <2>6
  <2> QED BY <2>7 DEF TornCostsTwo, lost
<1> QED BY <1>1, <1>2, <1>3, PTL DEF JournalSpec

-----------------------------------------------------------------------------
(* The client keys                                                         *)

Everyone == Writers \cup {Serving}
fileVars == <<keyFile, keyLock, writer, made, promised, ended>>

-----------------------------------------------------------------------------
(* The file and its writers                                                *)

Key == [name : Names, nr : Nat]

WriterOf(keys) ==
  [pc : {"idle", "locked", "replaced"}, op : {"none", "create", "revoke"},
   name : Names \cup {"none"}, read : SUBSET keys]

FileTypeOK ==
  /\ made \subseteq Key
  /\ keyFile \in [keys : SUBSET made, stamp : Nat]
  /\ writer \in [Everyone -> WriterOf(made)]
  /\ \A w \in Everyone : writer[w].pc = "locked" => writer[w].name \in Names
  /\ promised \subseteq made /\ ended \subseteq made

\* A key made next is another than every key made so far.
MadeInv == IsFiniteSet(made) /\ \A k \in made : k.nr <= Cardinality(made)

\* One writer at a time, from its reading of the file to the end of its call.
TurnInv == \A w \in Everyone : writer[w].pc # "idle" => keyLock = w

\* What a writer read is what the file holds, until it has replaced it; then it
\* knows what the file holds now, or does not.
ReadInv == \A w \in Everyone :
  /\ writer[w].pc = "locked" => writer[w].read = keyFile.keys
  /\ writer[w].pc = "replaced" /\ writer[w].op = "create" => writer[w].read \subseteq keyFile.keys
  /\ writer[w].pc = "replaced" /\ writer[w].op = "revoke" => writer[w].read \cap keyFile.keys = {}

FileInv == FileTypeOK /\ MadeInv /\ TurnInv /\ ReadInv /\ AckedKeysStand

LEMMA NobodyElse ==
  ASSUME FileInv, NEW w \in Everyone, writer[w].pc # "idle", NEW v \in Everyone, v # w
  PROVE  writer[v].pc = "idle"
BY DEF FileInv, TurnInv

LEMMA NoOneIsNoWriter == NoOne \notin Everyone
BY ClientKeysAssumption DEF Everyone

LEMMA WriterReplaces ==
  ASSUME NEW keys, NEW more, keys \subseteq more, writer \in [Everyone -> WriterOf(keys)],
         NEW w \in Everyone, NEW read \in SUBSET more,
         writer' = [writer EXCEPT ![w].pc = "replaced", ![w].read = read]
  PROVE  /\ writer' \in [Everyone -> WriterOf(more)]
         /\ writer'[w].pc = "replaced" /\ writer'[w].op = writer[w].op /\ writer'[w].read = read
         /\ \A v \in Everyone : v # w => writer'[v] = writer[v]
<1>1. writer' = [writer EXCEPT ![w] = [writer[w] EXCEPT !.pc = "replaced", !.read = read]]
  OBVIOUS
<1>2. \A v \in Everyone : writer[v] \in WriterOf(more) BY DEF WriterOf
<1>3. [writer[w] EXCEPT !.pc = "replaced", !.read = read] \in WriterOf(more) BY <1>2 DEF WriterOf
<1>4. \A v \in Everyone : writer'[v] = IF v = w THEN [writer[w] EXCEPT !.pc = "replaced", !.read = read] ELSE writer[v]
  BY <1>1
<1>5. /\ writer'[w].pc = "replaced" /\ writer'[w].op = writer[w].op /\ writer'[w].read = read
  BY <1>2, <1>4 DEF WriterOf
<1>6. writer' \in [Everyone -> WriterOf(more)] BY <1>1, <1>2, <1>3
<1> QED BY <1>4, <1>5, <1>6

LEMMA FileBegins ==
  ASSUME FileInv, NEW w \in Everyone, NEW op \in {"create", "revoke"}, NEW name \in Names,
         Begins(w, op, name)
  PROVE  FileInv'
<1>1. /\ writer' = [writer EXCEPT ![w] = [pc |-> "locked", op |-> op, name |-> name, read |-> keyFile.keys]]
      /\ keyLock = NoOne /\ keyLock' = w /\ writer[w].pc = "idle"
      /\ UNCHANGED <<keyFile, made, promised, ended>>
  BY DEF Begins, takesLock
<1>2. FileTypeOK' BY <1>1 DEF FileInv, FileTypeOK, WriterOf
<1>3. MadeInv' BY <1>1 DEF FileInv, MadeInv
<1>4. \A v \in Everyone : writer[v].pc = "idle"
  BY <1>1, NoOneIsNoWriter DEF FileInv, TurnInv
<1>5. \A v \in Everyone : v # w => writer'[v] = writer[v] BY <1>1 DEF FileInv, FileTypeOK
<1>6. writer'[w] = [pc |-> "locked", op |-> op, name |-> name, read |-> keyFile.keys]
  BY <1>1 DEF FileInv, FileTypeOK
<1>7. TurnInv' BY <1>1, <1>4, <1>5 DEF TurnInv
<1>8. ReadInv' BY <1>1, <1>4, <1>5, <1>6 DEF ReadInv
<1>9. AckedKeysStand' BY <1>1 DEF FileInv, AckedKeysStand
<1> QED BY <1>2, <1>3, <1>7, <1>8, <1>9 DEF FileInv

LEMMA FreshKey ==
  ASSUME FileInv, NEW name \in Names, NEW k, k = [name |-> name, nr |-> Cardinality(made) + 1]
  PROVE  /\ k \in Key /\ k \notin made
         /\ IsFiniteSet(made \cup {k})
         /\ \A l \in made \cup {k} : l.nr <= Cardinality(made \cup {k})
<1>1. IsFiniteSet(made) /\ Cardinality(made) \in Nat
  BY FS_CardinalityType DEF FileInv, MadeInv
<1>2. k \in Key /\ k.nr = Cardinality(made) + 1 BY <1>1 DEF Key
<1>3. \A l \in made : l.nr <= Cardinality(made) /\ l.nr \in Nat
  BY DEF FileInv, MadeInv, FileTypeOK, Key
<1>4. k \notin made BY <1>1, <1>2, <1>3
<1>5. IsFiniteSet(made \cup {k}) /\ Cardinality(made \cup {k}) = Cardinality(made) + 1
  BY <1>1, <1>4, FS_AddElement
<1> QED BY <1>1, <1>2, <1>3, <1>4, <1>5

LEMMA FileCreate ==
  ASSUME FileInv, NEW w \in Everyone, Create(w)
  PROVE  FileInv'
<1> DEFINE new == [name |-> writer[w].name, nr |-> Cardinality(made) + 1]
<1>1. /\ writer[w].pc = "locked" /\ writer[w].op = "create"
      /\ keyFile' = [keys |-> writer[w].read \cup {new}, stamp |-> keyFile.stamp + 1]
      /\ made' = made \cup {new}
      /\ writer' = [writer EXCEPT ![w].pc = "replaced", ![w].read = {new}]
      /\ UNCHANGED <<keyLock, promised, ended>>
  BY DEF Create, ReplacedBy
<1>2. writer[w].name \in Names BY <1>1 DEF FileInv, FileTypeOK
<1>3. /\ new \in Key /\ new \notin made
      /\ IsFiniteSet(made') /\ \A l \in made' : l.nr <= Cardinality(made')
  <2> HIDE DEF new
  <2>1. new = [name |-> writer[w].name, nr |-> Cardinality(made) + 1] BY DEF new
  <2> QED BY <1>1, <1>2, <2>1, FreshKey
<1> HIDE DEF new
<1>4. writer[w].read = keyFile.keys /\ keyFile.keys \subseteq made /\ keyFile.stamp \in Nat
  BY <1>1 DEF FileInv, ReadInv, FileTypeOK
<1>5. \A v \in Everyone : v # w => writer[v].pc = "idle"
  BY <1>1, NobodyElse
<1>6. /\ writer' \in [Everyone -> WriterOf(made')]
      /\ writer'[w].pc = "replaced" /\ writer'[w].op = writer[w].op /\ writer'[w].read = {new}
      /\ \A v \in Everyone : v # w => writer'[v] = writer[v]
  <2>1. writer \in [Everyone -> WriterOf(made)] BY DEF FileInv, FileTypeOK
  <2>2. made \subseteq made' /\ {new} \in SUBSET made' BY <1>1
  <2>3. writer' = [writer EXCEPT ![w].pc = "replaced", ![w].read = {new}] BY <1>1
  <2> HIDE DEF new
  <2> QED BY <2>1, <2>2, <2>3, w \in Everyone, WriterReplaces
<1>7. FileTypeOK'
  <2>3. \A v \in Everyone : writer'[v].pc = "locked" => writer'[v].name \in Names
    BY <1>5, <1>6
  <2>4. keyFile' \in [keys : SUBSET made', stamp : Nat] BY <1>1, <1>4
  <2> QED BY <1>1, <1>3, <1>6, <2>3, <2>4 DEF FileInv, FileTypeOK
<1>8. MadeInv' BY <1>3 DEF MadeInv
<1>9. TurnInv' BY <1>1, <1>5, <1>6 DEF FileInv, TurnInv
<1>10. ReadInv' BY <1>1, <1>5, <1>6 DEF ReadInv
<1>11. AckedKeysStand'
  BY <1>1, <1>3, <1>4 DEF FileInv, FileTypeOK, AckedKeysStand
<1> QED BY <1>7, <1>8, <1>9, <1>10, <1>11 DEF FileInv

LEMMA FileRevoke ==
  ASSUME FileInv, NEW w \in Everyone, Revoke(w)
  PROVE  FileInv'
<1> DEFINE gone == Holding(writer[w].read, writer[w].name)
<1>1. /\ writer[w].pc = "locked" /\ writer[w].op = "revoke"
      /\ keyFile' = [keys |-> writer[w].read \ gone, stamp |-> keyFile.stamp + 1]
      /\ writer' = [writer EXCEPT ![w].pc = "replaced", ![w].read = gone]
      /\ promised' = promised \ gone
      /\ UNCHANGED <<keyLock, made, ended>>
  BY DEF Revoke, ReplacedBy
<1>2. gone \subseteq writer[w].read BY DEF Holding
<1> HIDE DEF gone
<1>3. writer[w].read = keyFile.keys /\ keyFile.keys \subseteq made /\ keyFile.stamp \in Nat
  BY <1>1 DEF FileInv, ReadInv, FileTypeOK
<1>4. \A v \in Everyone : v # w => writer[v].pc = "idle"
  BY <1>1, NobodyElse
<1>5. /\ writer' \in [Everyone -> WriterOf(made')]
      /\ writer'[w].pc = "replaced" /\ writer'[w].op = writer[w].op /\ writer'[w].read = gone
      /\ \A v \in Everyone : v # w => writer'[v] = writer[v]
  <2>1. writer \in [Everyone -> WriterOf(made)] BY DEF FileInv, FileTypeOK
  <2>2. made \subseteq made' /\ gone \in SUBSET made' BY <1>1, <1>2, <1>3
  <2>3. writer' = [writer EXCEPT ![w].pc = "replaced", ![w].read = gone] BY <1>1
  <2> QED BY <2>1, <2>2, <2>3, w \in Everyone, WriterReplaces
<1>6. FileTypeOK'
  <2>2. \A v \in Everyone : writer'[v].pc = "locked" => writer'[v].name \in Names
    BY <1>4, <1>5
  <2>3. keyFile' \in [keys : SUBSET made', stamp : Nat] BY <1>1, <1>3
  <2> QED BY <1>1, <1>5, <2>2, <2>3 DEF FileInv, FileTypeOK
<1>7. MadeInv' BY <1>1 DEF FileInv, MadeInv
<1>8. TurnInv' BY <1>1, <1>4, <1>5 DEF FileInv, TurnInv
<1>9. ReadInv' BY <1>1, <1>4, <1>5 DEF ReadInv
<1>10. AckedKeysStand' BY <1>1, <1>3 DEF FileInv, AckedKeysStand
<1> QED BY <1>6, <1>7, <1>8, <1>9, <1>10 DEF FileInv

LEMMA FileRests ==
  ASSUME FileInv, NEW w \in Everyone, writer[w].pc # "idle", Unlock(w),
         writer' = [writer EXCEPT ![w] = Resting], UNCHANGED <<keyFile, made>>,
         promised' \in SUBSET keyFile.keys, ended' \in SUBSET made, ended' \cap keyFile.keys = {}
  PROVE  FileInv'
<1>1. \A v \in Everyone : writer'[v].pc = "idle"
  BY NobodyElse DEF FileInv, FileTypeOK, Resting
<1>2. FileTypeOK'
  <2>1. Resting \in WriterOf(made) BY DEF Resting, WriterOf
  <2> QED BY <1>1, <2>1 DEF FileInv, FileTypeOK
<1>3. MadeInv' BY DEF FileInv, MadeInv
<1>4. TurnInv' BY <1>1 DEF TurnInv
<1>5. ReadInv' BY <1>1 DEF ReadInv
<1>6. AckedKeysStand' BY DEF AckedKeysStand
<1> QED BY <1>2, <1>3, <1>4, <1>5, <1>6 DEF FileInv

LEMMA FileGivesUp ==
  ASSUME FileInv, NEW w \in Everyone, GivesUp(w)
  PROVE  FileInv'
<1>1. promised \in SUBSET keyFile.keys /\ ended \in SUBSET made /\ ended \cap keyFile.keys = {}
  BY DEF FileInv, FileTypeOK, AckedKeysStand
<1> QED BY <1>1, FileRests DEF GivesUp

LEMMA FileTells ==
  ASSUME FileInv, NEW w \in Everyone, NEW told \in BOOLEAN, Tells(w, told)
  PROVE  FileInv'
<1>1. /\ writer[w].read \subseteq made
      /\ writer[w].op = "create" => writer[w].read \subseteq keyFile.keys
      /\ writer[w].op = "revoke" => writer[w].read \cap keyFile.keys = {}
  BY DEF Tells, FileInv, FileTypeOK, WriterOf, ReadInv
<1>2. promised' \in SUBSET keyFile.keys /\ ended' \in SUBSET made /\ ended' \cap keyFile.keys = {}
  BY <1>1 DEF Tells, FileInv, FileTypeOK, AckedKeysStand
<1> QED BY <1>2, FileRests DEF Tells

LEMMA FileStays ==
  ASSUME FileInv, UNCHANGED fileVars
  PROVE  FileInv'
BY DEF fileVars, FileInv, FileTypeOK, MadeInv, TurnInv, ReadInv, AckedKeysStand

LEMMA FileStart ==
  ASSUME KeysInit
  PROVE  FileInv
<1>1. FileTypeOK BY DEF KeysInit, FileTypeOK, WriterOf, Everyone, Resting
<1>2. MadeInv BY FS_EmptySet DEF KeysInit, MadeInv
<1>3. TurnInv /\ ReadInv /\ AckedKeysStand
  BY DEF KeysInit, TurnInv, ReadInv, AckedKeysStand, Everyone, Resting
<1> QED BY <1>1, <1>2, <1>3 DEF FileInv

LEMMA FileStep ==
  ASSUME FileInv, [KeysNext]_kvars
  PROVE  FileInv'
<1>1. Serving \in Everyone /\ Writers \subseteq Everyone BY DEF Everyone
<1>2. ASSUME NEW w \in Writers, NEW op \in {"create", "revoke"}, NEW name \in Names, Begins(w, op, name)
      PROVE  FileInv'
  BY <1>1, <1>2, FileBegins
<1>3. ASSUME NEW w \in Writers, Writer(w) PROVE FileInv'
  BY <1>1, <1>3, FileCreate, FileRevoke, FileGivesUp, FileTells DEF Writer
<1>4. ASSUME NEW alone \in BOOLEAN, attachTunnel(alone) PROVE FileInv'
  BY <1>4, FileStays DEF attachTunnel, Unwritten, fileVars
<1>5. ASSUME ListsKeys \/ AddRigKey \/ Drains PROVE FileInv'
  BY <1>5, FileStays DEF ListsKeys, AddRigKey, Drains, Unwritten, fileVars
<1>6. CASE MakesDefault
  BY <1>1, <1>6, FileBegins, ClientKeysAssumption DEF MakesDefault
<1>7. CASE MadeDefault
  BY <1>1, <1>7, FileCreate, FileGivesUp, FileTells DEF MadeDefault
<1>8. ASSUME NEW r \in Requests, NEW key \in made \cup {RigKey}, Arrives(r, key) PROVE FileInv'
  BY <1>8, FileStays DEF Arrives, Unwritten, fileVars
<1>9. ASSUME NEW r \in Requests, ServeHTTP(r) PROVE FileInv'
  BY <1>9, FileStays DEF ServeHTTP, authenticate, Forwards, Match, Unwritten, fileVars
<1>10. CASE UNCHANGED kvars
  BY <1>10, FileStays DEF kvars, fileVars
<1> QED BY <1>2, <1>3, <1>4, <1>5, <1>6, <1>7, <1>8, <1>9, <1>10 DEF KeysNext

\* AckedKeysStand holds of every run: of any number of runs of larri token, and the
\* first key a serving process makes (internal/clientkeys), what one has told its
\* operator of a key no other undoes.
THEOREM AckedKeysAlwaysStand == KeysSpec => []AckedKeysStand
<1>1. KeysInit => FileInv BY FileStart
<1>2. FileInv /\ [KeysNext]_kvars => FileInv' BY FileStep
<1>3. FileInv => AckedKeysStand BY DEF FileInv
<1> QED BY <1>1, <1>2, <1>3, PTL DEF KeysSpec

-----------------------------------------------------------------------------
(* The proxy's requests                                                    *)

RequestOf ==
  [pc : {"none", "asked", "statted", "admitted", "unauthorized", "forwarded", "unavailable"},
   key : Key \cup {RigKey}, stamp : Nat, stored : BOOLEAN, missing : BOOLEAN, unread : BOOLEAN]

RequestTypeOK ==
  /\ request \in [Requests -> RequestOf]
  /\ cache \in [keys : SUBSET Key, stamp : Nat]
  /\ own \in BOOLEAN

\* The copy is kept under a stamp that is the file's or older: under the file's
\* own, it is the file.
StampInv ==
  /\ keyFile.stamp = 0 => keyFile.keys = {}
  /\ cache.stamp <= keyFile.stamp
  /\ cache.stamp = keyFile.stamp => cache.keys = keyFile.keys

\* What a set of keys says of a request's key is true of some time until now.
Witnessed(q, keys) == IF q.key \in keys THEN q.stored ELSE q.missing

SeenInv == \A r \in Requests : Unanswered(r) => Witnessed(request[r], keyFile.keys)

\* A request that has seen the stamp may be answered from what another request
\* read under the same stamp, earlier or later than this one's look.
StatInv == \A r \in Requests : request[r].pc = "statted" =>
  /\ request[r].stamp <= keyFile.stamp
  /\ request[r].stamp = 0 => request[r].missing
  /\ cache.stamp = request[r].stamp /\ request[r].stamp # 0 => Witnessed(request[r], cache.keys)

LineInv == line = "none" => \A r \in Requests : request[r].pc = "none"

RequestInv == RequestTypeOK /\ StampInv /\ SeenInv /\ StatInv /\ LineInv /\ KeysDecide

LEMMA FileTyped ==
  ASSUME FileInv
  PROVE  keyFile \in [keys : SUBSET Key, stamp : Nat] /\ made \subseteq Key
BY DEF FileInv, FileTypeOK

LEMMA RequestsStart ==
  ASSUME KeysInit
  PROVE  RequestInv
<1>1. \A r \in Requests : request[r].pc = "none" BY DEF KeysInit, NoRequest
<1>2. RequestTypeOK BY DEF KeysInit, RequestTypeOK, RequestOf, NoRequest
<1>3. StampInv BY DEF KeysInit, StampInv
<1>4. SeenInv /\ StatInv /\ LineInv /\ KeysDecide
  BY <1>1 DEF SeenInv, Unanswered, StatInv, LineInv, KeysDecide
<1> QED BY <1>2, <1>3, <1>4 DEF RequestInv

LEMMA RequestsStay ==
  ASSUME RequestInv, UNCHANGED <<keyFile, cache, request>>, own => own', own' \in BOOLEAN,
         line' = "none" => line = "none"
  PROVE  RequestInv'
<1>1. RequestTypeOK' BY DEF RequestInv, RequestTypeOK
<1>2. StampInv' BY DEF RequestInv, StampInv
<1>3. SeenInv' /\ StatInv' BY DEF RequestInv, SeenInv, StatInv, Unanswered, Witnessed
<1>4. LineInv' BY DEF RequestInv, LineInv
<1>5. KeysDecide' BY DEF RequestInv, KeysDecide
<1> QED BY <1>1, <1>2, <1>3, <1>4, <1>5 DEF RequestInv

LEMMA RequestsAttach ==
  ASSUME RequestInv, NEW alone \in BOOLEAN, attachTunnel(alone)
  PROVE  RequestInv'
<1>1. /\ \A r \in Requests : request[r].pc = "none"
      /\ UNCHANGED <<keyFile, cache, request>> /\ own' \in BOOLEAN
  BY DEF attachTunnel, Unwritten, RequestInv, LineInv
<1>2. RequestTypeOK' BY <1>1 DEF RequestInv, RequestTypeOK
<1>3. StampInv' BY <1>1 DEF RequestInv, StampInv
<1>4. SeenInv' /\ StatInv' /\ LineInv' /\ KeysDecide'
  BY <1>1 DEF SeenInv, Unanswered, StatInv, LineInv, KeysDecide
<1> QED BY <1>2, <1>3, <1>4 DEF RequestInv

LEMMA RequestsReplaced ==
  ASSUME FileInv, RequestInv, NEW keys \in SUBSET Key, ReplacedBy(keys),
         UNCHANGED <<cache, own>>, line' = "none" => line = "none"
  PROVE  RequestInv'
<1>1. /\ keyFile' = [keys |-> keys, stamp |-> keyFile.stamp + 1]
      /\ request' = [r \in Requests |-> IF Unanswered(r) THEN Watched(request[r], keys) ELSE request[r]]
  BY DEF ReplacedBy
<1>2. keyFile.stamp \in Nat BY FileTyped
<1>3. ASSUME NEW r \in Requests
      PROVE  /\ request'[r] \in RequestOf /\ request'[r].pc = request[r].pc
             /\ request'[r].key = request[r].key /\ request'[r].stamp = request[r].stamp
             /\ request'[r].unread = request[r].unread
             /\ request[r].stored => request'[r].stored
             /\ request[r].missing => request'[r].missing
             /\ Unanswered(r) => Witnessed(request'[r], keys)
  BY <1>1 DEF RequestInv, RequestTypeOK, RequestOf, Watched, Witnessed
<1>4. RequestTypeOK'
  <2>1. request' \in [Requests -> RequestOf] BY <1>1, <1>3
  <2> QED BY <2>1 DEF RequestInv, RequestTypeOK
<1>5. StampInv' BY <1>1, <1>2 DEF RequestInv, RequestTypeOK, StampInv
<1>6. SeenInv' BY <1>1, <1>3 DEF SeenInv, Unanswered
<1>7. StatInv'
  <2>1. \A r \in Requests : request[r].stamp \in Nat BY DEF RequestInv, RequestTypeOK, RequestOf
  <2> QED BY <1>1, <1>2, <1>3, <2>1 DEF RequestInv, StatInv, Witnessed
<1>8. LineInv' BY <1>3 DEF RequestInv, LineInv
<1>9. KeysDecide' BY <1>3 DEF RequestInv, KeysDecide
<1> QED BY <1>4, <1>5, <1>6, <1>7, <1>8, <1>9 DEF RequestInv

LEMMA RequestsCreate ==
  ASSUME FileInv, RequestInv, NEW w \in Everyone, Create(w), UNCHANGED <<cache, own>>,
         line' = "none" => line = "none"
  PROVE  RequestInv'
<1> DEFINE new == [name |-> writer[w].name, nr |-> Cardinality(made) + 1]
<1>1. writer[w].name \in Names /\ writer[w].read \subseteq made
  BY DEF Create, FileInv, FileTypeOK, WriterOf
<1>2. new \in Key BY <1>1, FreshKey
<1>3. writer[w].read \cup {new} \in SUBSET Key BY <1>1, <1>2, FileTyped
<1>4. ReplacedBy(writer[w].read \cup {new}) BY DEF Create
<1> HIDE DEF new
<1> QED BY <1>3, <1>4, RequestsReplaced

LEMMA RequestsRevoke ==
  ASSUME FileInv, RequestInv, NEW w \in Everyone, Revoke(w), UNCHANGED <<cache, own, line>>
  PROVE  RequestInv'
<1> DEFINE kept == writer[w].read \ Holding(writer[w].read, writer[w].name)
<1>1. kept \in SUBSET Key BY FileTyped DEF FileInv, FileTypeOK, WriterOf
<1>2. ReplacedBy(kept) BY DEF Revoke
<1> HIDE DEF kept
<1> QED BY <1>1, <1>2, RequestsReplaced

\* A step of one request, seen from the others'.
LEMMA OthersStay ==
  ASSUME RequestInv, NEW r \in Requests, NEW q \in RequestOf, request' = [request EXCEPT ![r] = q],
         UNCHANGED <<keyFile, own, line>>, line # "none",
         RequestTypeOK', StampInv',
         q.pc \in {"asked", "statted"} => Witnessed(q, keyFile.keys),
         StatInv',
         q.pc \in {"admitted", "forwarded", "unavailable"} => q.stored \/ (own /\ q.key = RigKey),
         q.pc = "unauthorized" => q.unread \/ q.missing
  PROVE  RequestInv'
<1>1. request'[r] = q /\ \A s \in Requests : s # r => request'[s] = request[s]
  BY DEF RequestInv, RequestTypeOK
<1>2. SeenInv' BY <1>1 DEF RequestInv, SeenInv, Unanswered
<1>3. LineInv' BY DEF LineInv
<1>4. KeysDecide' BY <1>1 DEF RequestInv, KeysDecide
<1> QED BY <1>2, <1>3, <1>4 DEF RequestInv

LEMMA RequestTyped ==
  ASSUME RequestInv, NEW r \in Requests
  PROVE  request[r] \in RequestOf /\ (request[r].pc # "none" => line # "none")
BY DEF RequestInv, RequestTypeOK, LineInv

LEMMA RequestArrives ==
  ASSUME FileInv, RequestInv, NEW r \in Requests, NEW key \in made \cup {RigKey}, Arrives(r, key)
  PROVE  RequestInv'
<1> DEFINE q == Watched([NoRequest EXCEPT !.pc = "asked", !.key = key], keyFile.keys)
<1>1. request' = [request EXCEPT ![r] = q] /\ line # "none" /\ UNCHANGED <<keyFile, cache, own, line>>
  BY DEF Arrives, Unwritten, proxy
<1>2. q \in RequestOf /\ q.pc = "asked" /\ Witnessed(q, keyFile.keys)
  BY FileTyped DEF Watched, NoRequest, RequestOf, Witnessed
<1> HIDE DEF q
<1>3. RequestTypeOK' BY <1>1, <1>2 DEF RequestInv, RequestTypeOK
<1>4. StampInv' BY <1>1 DEF RequestInv, StampInv
<1>5. StatInv' BY <1>1, <1>2 DEF RequestInv, RequestTypeOK, StatInv, Witnessed
<1> QED BY <1>1, <1>2, <1>3, <1>4, <1>5, OthersStay

LEMMA RequestAdmitted ==
  ASSUME FileInv, RequestInv, NEW r \in Requests, request[r].pc \notin {"none", "unauthorized"},
         NEW to \in {"admitted", "forwarded", "unavailable"}, Turns(r, to),
         request[r].stored \/ (own /\ request[r].key = RigKey),
         UNCHANGED <<keyFile, cache, own, line>>
  PROVE  RequestInv'
<1> DEFINE q == [request[r] EXCEPT !.pc = to]
<1>1. request' = [request EXCEPT ![r] = q] BY DEF Turns
<1>2. q \in RequestOf /\ q.pc = to /\ q.stored = request[r].stored /\ q.key = request[r].key
  BY RequestTyped DEF RequestOf
<1> HIDE DEF q
<1>3. RequestTypeOK' BY <1>1, <1>2 DEF RequestInv, RequestTypeOK
<1>4. StampInv' BY DEF RequestInv, StampInv
<1>5. StatInv' BY <1>1, <1>2 DEF RequestInv, RequestTypeOK, StatInv, Witnessed
<1> QED BY <1>1, <1>2, <1>3, <1>4, <1>5, OthersStay, RequestTyped

LEMMA RequestAuthenticate ==
  ASSUME FileInv, RequestInv, NEW r \in Requests, authenticate(r)
  PROVE  RequestInv'
<1>1. request[r].pc = "asked" /\ UNCHANGED <<keyFile, cache, own, line>>
  BY DEF authenticate, Unwritten, proxy
<1>2. CASE own /\ request[r].key = RigKey
  <2>1. Turns(r, "admitted") BY <1>2 DEF authenticate
  <2> QED BY <1>1, <1>2, <2>1, RequestAdmitted
<1>3. CASE ~(own /\ request[r].key = RigKey)
  <2> DEFINE q == [request[r] EXCEPT !.pc = "statted", !.stamp = keyFile.stamp]
  <2>1. request' = [request EXCEPT ![r] = q] BY <1>3 DEF authenticate
  <2>2. keyFile.stamp \in Nat /\ cache.stamp \in Nat BY FileTyped DEF RequestInv, RequestTypeOK
  <2>3. /\ q \in RequestOf /\ q.pc = "statted" /\ q.stamp = keyFile.stamp /\ q.key = request[r].key
        /\ q.stored = request[r].stored /\ q.missing = request[r].missing
    BY <2>2, RequestTyped DEF RequestOf
  <2> HIDE DEF q
  <2>4. Witnessed(q, keyFile.keys)
    BY <1>1, <2>3 DEF RequestInv, SeenInv, Unanswered, Witnessed
  <2>5. keyFile.stamp = 0 => q.missing BY <2>4 DEF RequestInv, StampInv, Witnessed
  <2>6. cache.stamp = keyFile.stamp => Witnessed(q, cache.keys) BY <2>4 DEF RequestInv, StampInv
  <2>7. RequestTypeOK' BY <1>1, <2>1, <2>3 DEF RequestInv, RequestTypeOK
  <2>8. StampInv' BY <1>1 DEF RequestInv, StampInv
  <2>9. StatInv'
    <3>1. request'[r] = q /\ \A s \in Requests : s # r => request'[s] = request[s]
      BY <2>1 DEF RequestInv, RequestTypeOK
    <3> QED BY <1>1, <2>2, <2>3, <2>5, <2>6, <3>1 DEF RequestInv, StatInv, Witnessed
  <2> QED BY <1>1, <2>1, <2>3, <2>4, <2>7, <2>8, <2>9, OthersStay, RequestTyped
<1> QED BY <1>2, <1>3

LEMMA RequestMatch ==
  ASSUME FileInv, RequestInv, NEW r \in Requests, NEW fails \in BOOLEAN, Match(r, fails)
  PROVE  RequestInv'
<1> DEFINE to == IF request[r].key \in cache'.keys THEN "admitted" ELSE "unauthorized"
           q == [request[r] EXCEPT !.unread = fails, !.stamp = 0, !.pc = to]
<1>1. /\ request[r].pc = "statted" /\ cache' = current(r, fails)
      /\ request' = [request EXCEPT ![r] = q]
      /\ UNCHANGED <<keyFile, own, line>>
  BY DEF Match, Unwritten
<1>2. /\ keyFile \in [keys : SUBSET Key, stamp : Nat] /\ cache \in [keys : SUBSET Key, stamp : Nat]
      /\ request[r].stamp \in Nat /\ request[r].stamp <= keyFile.stamp
      /\ request[r].stamp = 0 => request[r].missing
      /\ cache.stamp = request[r].stamp /\ request[r].stamp # 0 => Witnessed(request[r], cache.keys)
      /\ Witnessed(request[r], keyFile.keys)
  BY <1>1, FileTyped, RequestTyped
     DEF RequestInv, RequestTypeOK, RequestOf, StatInv, SeenInv, Unanswered
<1>3. /\ q \in RequestOf /\ q.pc = to /\ q.key = request[r].key /\ q.unread = fails
      /\ q.stored = request[r].stored /\ q.missing = request[r].missing
  BY RequestTyped DEF RequestOf
\* The copy is dropped, kept, or replaced by what the file holds now.
<1>4. \/ cache' = [stamp |-> 0, keys |-> {}] /\ (request[r].stamp = 0 \/ fails)
      \/ cache' = cache /\ cache.stamp = request[r].stamp /\ request[r].stamp # 0
      \/ cache' = [stamp |-> request[r].stamp, keys |-> keyFile.keys] /\ request[r].stamp # 0
  BY <1>1 DEF current
<1>5. to \in {"admitted", "unauthorized"} /\ (to = "admitted" <=> request[r].key \in cache'.keys)
  OBVIOUS
<1> HIDE DEF to, q
<1>6. cache' \in [keys : SUBSET Key, stamp : Nat] BY <1>2, <1>4
<1>7. RequestTypeOK' BY <1>1, <1>3, <1>6 DEF RequestInv, RequestTypeOK
<1>8. StampInv' BY <1>1, <1>2, <1>4 DEF RequestInv, StampInv
<1>9. StatInv'
  <2>1. request'[r] = q /\ \A s \in Requests : s # r => request'[s] = request[s]
    BY <1>1 DEF RequestInv, RequestTypeOK
  <2>2. SUFFICES ASSUME NEW s \in Requests, s # r, request[s].pc = "statted",
                        cache'.stamp = request[s].stamp, request[s].stamp # 0
                 PROVE  Witnessed(request[s], cache'.keys)
    BY <1>1, <1>3, <1>5, <2>1 DEF RequestInv, StatInv, Witnessed
  <2>3. Witnessed(request[s], keyFile.keys)
    BY <2>2 DEF RequestInv, SeenInv, Unanswered
  <2> QED BY <1>4, <2>2, <2>3 DEF RequestInv, StatInv
<1>10. q.pc = "admitted" => q.stored BY <1>2, <1>3, <1>4, <1>5 DEF Witnessed
<1>11. q.pc = "unauthorized" => q.unread \/ q.missing
  BY <1>2, <1>3, <1>4, <1>5 DEF Witnessed
<1> QED BY <1>1, <1>3, <1>5, <1>7, <1>8, <1>9, <1>10, <1>11, OthersStay, RequestTyped

LEMMA RequestForwards ==
  ASSUME FileInv, RequestInv, NEW r \in Requests, Forwards(r)
  PROVE  RequestInv'
<1>1. /\ request[r].pc = "admitted" /\ UNCHANGED <<keyFile, cache, own, line>>
      /\ Turns(r, "forwarded") \/ Turns(r, "unavailable")
  BY DEF Forwards, Unwritten, proxy
<1>2. request[r].stored \/ (own /\ request[r].key = RigKey)
  BY <1>1 DEF RequestInv, KeysDecide
<1> QED BY <1>1, <1>2, RequestAdmitted

LEMMA RequestStep ==
  ASSUME FileInv, RequestInv, [KeysNext]_kvars
  PROVE  RequestInv'
<1> USE DEF Unwritten, proxy
<1>1. Serving \in Everyone /\ Writers \subseteq Everyone /\ own \in BOOLEAN
  BY DEF Everyone, RequestInv, RequestTypeOK
<1>2. ASSUME NEW w \in Writers, NEW op \in {"create", "revoke"}, NEW name \in Names,
             Begins(w, op, name), UNCHANGED proxy
      PROVE  RequestInv'
  BY <1>1, <1>2, RequestsStay DEF Begins
<1>3. ASSUME NEW w \in Writers, Writer(w), UNCHANGED proxy PROVE RequestInv'
  <2>1. CASE Create(w) BY <1>1, <1>3, <2>1, RequestsCreate
  <2>2. CASE Revoke(w) BY <1>1, <1>3, <2>2, RequestsRevoke
  <2>3. CASE GivesUp(w) BY <1>1, <1>3, <2>3, RequestsStay DEF GivesUp
  <2>4. ASSUME NEW told \in BOOLEAN, Tells(w, told) PROVE RequestInv'
    BY <1>1, <1>3, <2>4, RequestsStay DEF Tells
  <2> QED BY <1>3, <2>1, <2>2, <2>3, <2>4 DEF Writer
<1>4. ASSUME NEW alone \in BOOLEAN, attachTunnel(alone) PROVE RequestInv'
  BY <1>4, RequestsAttach
<1>5. CASE ListsKeys \/ AddRigKey \/ Drains
  BY <1>1, <1>5, RequestsStay DEF ListsKeys, AddRigKey, Drains
<1>6. CASE MakesDefault
  BY <1>1, <1>6, RequestsStay DEF MakesDefault, Begins
<1>7. CASE MadeDefault
  <2>1. line = "making" /\ UNCHANGED <<cache, own>> /\ line' # "none" BY <1>7 DEF MadeDefault
  <2>2. CASE Create(Serving) /\ UNCHANGED line BY <1>1, <2>1, <2>2, RequestsCreate
  <2>3. CASE GivesUp(Serving) /\ line' = "failed" BY <1>1, <2>1, <2>3, RequestsStay DEF GivesUp
  <2>4. ASSUME NEW told \in BOOLEAN, Tells(Serving, told) PROVE RequestInv'
    BY <1>1, <2>1, <2>4, RequestsStay DEF Tells
  <2> QED BY <1>7, <2>2, <2>3, <2>4 DEF MadeDefault
<1>8. ASSUME NEW r \in Requests, NEW key \in made \cup {RigKey}, Arrives(r, key) PROVE RequestInv'
  BY <1>8, RequestArrives
<1>9. ASSUME NEW r \in Requests, ServeHTTP(r) PROVE RequestInv'
  BY <1>9, RequestAuthenticate, RequestForwards, RequestMatch DEF ServeHTTP
<1>10. CASE UNCHANGED kvars BY <1>1, <1>10, RequestsStay DEF kvars
<1> QED BY <1>2, <1>3, <1>4, <1>5, <1>6, <1>7, <1>8, <1>9, <1>10 DEF KeysNext

\* KeysDecide holds of every run: a request is admitted by a key the file held, and
\* refused for one it did not hold, at some time while it was being answered
\* (Proxy.authenticate and Store.Match), though readers take no lock and share
\* a copy.
THEOREM KeysAlwaysDecide == KeysSpec => []KeysDecide
<1>1. KeysInit => FileInv /\ RequestInv BY FileStart, RequestsStart
<1>2. FileInv /\ RequestInv /\ [KeysNext]_kvars => (FileInv /\ RequestInv)'
  BY FileStep, RequestStep
<1>3. FileInv /\ RequestInv => KeysDecide BY DEF RequestInv
<1> QED BY <1>1, <1>2, <1>3, PTL DEF KeysSpec

=============================================================================
