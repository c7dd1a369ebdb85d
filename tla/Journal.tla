-------------------------------- MODULE Journal --------------------------------
(***************************************************************************)
(* journal.jsonl as the larri processes share it: each appends through a   *)
(* descriptor of its own (O_APPEND), one line at a time under its mutex,   *)
(* and fsyncs before Append returns; anyone reads it, line by line.        *)
(*                                                                         *)
(* The file is the sequence of pieces the write calls put there.  A line   *)
(* goes in whole or, when a write comes up short (a full disk, a signal),  *)
(* in two pieces, with other processes' lines between them.  A crash keeps *)
(* what was written; a power loss keeps what was fsynced and some of what  *)
(* came after, the last of it perhaps cut.  What is inside an entry is     *)
(* left out, and so is a line too long for the reader's buffer.            *)
(***************************************************************************)
EXTENDS Naturals, Sequences, FiniteSets

CONSTANTS
  Proc,        \* processes with the journal open
  MaxEntries,  \* bound: entries ever begun
  MaxTorn      \* bound: pieces written, or left, without their line's end

ASSUME BoundsAssumption == MaxEntries \in Nat /\ MaxTorn \in Nat

VARIABLES
  file,     \* the pieces in the file, in order
  synced,   \* how many of them an fsync has made durable
  begun,    \* entries are numbered as their Append begins
  entry,    \* the entry each process is appending
  pc,       \* what is left of its Append: the rest of the line, the fsync
  acked,    \* history: the entries whose Append returned nil
  torn      \* history: how many pieces were left without their line's end

jvars == <<file, synced, begun, entry, pc, acked, torn>>

\* head: some of the JSON; body: all of it, without the newline; tail: what
\* was missing, newline included.
Part == {"line", "head", "body", "tail"}
Piece == [of : Nat, part : Part]
LineEnds == {"line", "tail"}

JournalTypeOK ==
  /\ file \in Seq(Piece)
  /\ synced \in 0..Len(file)
  /\ begun \in Nat
  /\ entry \in [Proc -> Nat]
  /\ pc \in [Proc -> {"idle", "rest", "sync"}]
  /\ acked \in SUBSET Nat
  /\ torn \in Nat

JournalInit ==
  /\ file = <<>> /\ synced = 0
  /\ begun = 0 /\ entry = [p \in Proc |-> 0]
  /\ pc = [p \in Proc |-> "idle"]
  /\ acked = {} /\ torn = 0

-----------------------------------------------------------------------------
(* Append                                                                  *)

\* Mutant of Put: the file is opened without O_APPEND.
PutOverwrites(piece) == file' = <<piece>>

Put(piece) == file' = Append(file, piece)

Goes(p, to) == pc' = [pc EXCEPT ![p] = to]

Begin(p) ==
  /\ pc[p] = "idle" /\ begun < MaxEntries
  /\ begun' = begun + 1
  /\ entry' = [entry EXCEPT ![p] = begun + 1]

Write(p) ==
  /\ Begin(p) /\ Goes(p, "sync")
  /\ Put([of |-> begun + 1, part |-> "line"])
  /\ UNCHANGED <<synced, acked, torn>>

WriteShort(p) ==
  /\ Begin(p) /\ Goes(p, "rest")
  /\ torn < MaxTorn /\ torn' = torn + 1
  /\ \E part \in {"head", "body"} : Put([of |-> begun + 1, part |-> part])
  /\ UNCHANGED <<synced, acked>>

\* os.File.Write tries again with the rest, wherever the file's end is now.
WriteRest(p) ==
  /\ pc[p] = "rest" /\ Goes(p, "sync")
  /\ Put([of |-> entry[p], part |-> "tail"])
  /\ UNCHANGED <<synced, begun, entry, acked, torn>>

\* The disk stays full, or the fsync fails: Append returns the error, and
\* nothing is taken back.
AppendFails(p) ==
  /\ pc[p] \in {"rest", "sync"} /\ Goes(p, "idle")
  /\ UNCHANGED <<file, synced, begun, entry, acked, torn>>

\* Mutant of Sync: Append returns with the line in the page cache only.
SyncSkipped(p) ==
  /\ pc[p] = "sync" /\ Goes(p, "idle")
  /\ acked' = acked \cup {entry[p]}
  /\ UNCHANGED <<file, synced, begun, entry, torn>>

\* The fsync covers the whole file, whoever wrote it.
Sync(p) ==
  /\ pc[p] = "sync" /\ Goes(p, "idle")
  /\ synced' = Len(file)
  /\ acked' = acked \cup {entry[p]}
  /\ UNCHANGED <<file, begun, entry, torn>>

-----------------------------------------------------------------------------
(* Crashes                                                                 *)

Crash(p) ==
  /\ pc[p] # "idle" /\ Goes(p, "idle")
  /\ UNCHANGED <<file, synced, begun, entry, acked, torn>>

\* A file system that extends a file in order keeps a prefix of it.
PowerLoss ==
  /\ pc' = [p \in Proc |-> "idle"]
  /\ \E n \in synced..Len(file) :
       \/ /\ file' = SubSeq(file, 1, n) /\ synced' = n
          /\ UNCHANGED torn
       \/ /\ n < Len(file) /\ file[n + 1].part = "line"
          /\ torn < MaxTorn /\ torn' = torn + 1
          /\ \E part \in {"head", "body"} :
               file' = Append(SubSeq(file, 1, n), [file[n + 1] EXCEPT !.part = part])
          /\ synced' = n + 1
  /\ UNCHANGED <<begun, entry, acked>>

JournalNext ==
  \/ \E p \in Proc : Write(p) \/ WriteShort(p) \/ WriteRest(p) \/ AppendFails(p)
                       \/ Sync(p) \/ Crash(p)
  \/ PowerLoss

JournalSpec == JournalInit /\ [][JournalNext]_jvars

-----------------------------------------------------------------------------
(* ReadJournal                                                             *)

\* The i-th piece begins a line.
Starts(i) == i = 1 \/ file[i - 1].part \in LineEnds

\* A line is read back when it is one entry's JSON and nothing else: a whole
\* line, both pieces of one, or at the end of the file one without its
\* newline.  Any other line is skipped.
ReadAt(i) ==
  /\ Starts(i)
  /\ \/ file[i].part = "line"
     \/ file[i].part = "body" /\ i = Len(file)
     \/ /\ file[i].part \in {"head", "body"} /\ i < Len(file)
        /\ file[i + 1].part = "tail" /\ file[i + 1].of = file[i].of

ReadJournal == {file[i].of : i \in {j \in 1..Len(file) : ReadAt(j)}}

-----------------------------------------------------------------------------
(* What the journal promises                                               *)

\* Why: the inductive invariant.  The pieces of an entry are one line, or a
\* head and later its tail, and no two processes append the same entry; where
\* an acknowledged entry ends is on the disk for good.
EntriesInv ==
  /\ \A i \in 1..Len(file) : file[i].of \in 1..begun
  /\ \A i, j \in 1..Len(file) :
       i < j /\ file[i].of = file[j].of =>
         file[i].part \notin LineEnds /\ file[j].part = "tail"
  /\ \A p \in Proc : pc[p] # "idle" =>
       /\ entry[p] \in 1..begun
       /\ \A q \in Proc : pc[q] # "idle" /\ entry[q] = entry[p] => q = p

Ended(e, n) == \E i \in 1..n : file[i].of = e /\ file[i].part \in LineEnds
EndsInv ==
  /\ \A p \in Proc : pc[p] = "rest" => ~Ended(entry[p], Len(file))
  /\ \A p \in Proc : pc[p] = "sync" => Ended(entry[p], Len(file))
  /\ \A e \in acked : Ended(e, synced)

UncutInv ==
  torn = 0 => /\ \A i \in 1..Len(file) : file[i].part = "line"
              /\ \A p \in Proc : pc[p] # "rest"

JournalInv == JournalTypeOK /\ EntriesInv /\ EndsInv /\ UncutInv

\* What RigStore builds on: as long as no write was cut short, every entry
\* whose Append returned is read back, whatever crashed since.
UncutReadable == torn = 0 => acked \subseteq ReadJournal

\* An acknowledged entry that could be read back can be read back ever after,
\* through other processes' torn writes, crashes and power losses.
AckedStaysReadable ==
  [][\A e \in acked : e \in ReadJournal => e \in ReadJournal']_jvars

\* "Losing the last intent is bad; refusing to read the ninety before it would
\* be worse": a piece without its line's end costs the entry it belongs to and
\* at most one other, however many follow.
TornCostsTwo == Cardinality(acked \ ReadJournal) <= 2 * torn

\* ReadJournal's comment has a truncated line dropped and no other: by it an
\* entry that was written, fsynced and acknowledged is read back.
AckedReadable == acked \subseteq ReadJournal

=============================================================================
