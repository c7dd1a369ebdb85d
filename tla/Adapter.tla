------------------------------ MODULE Adapter ------------------------------
(***************************************************************************)
(* A provider as its adapter shows it (internal/provider/vastai and runpod): *)
(* how a call's response becomes an answer or a classed error, how a label   *)
(* becomes a rig's identifier, how an account is listed page by page, and    *)
(* what resolving a failed create, a teardown and an orphan sweep make of    *)
(* the answers while machines land late, go, and calls fail on either side   *)
(* of being carried out.                                                     *)
(***************************************************************************)
EXTENDS Integers, FiniteSets, Sequences

CONSTANTS
  Kind,        \* "vastai" or "runpod"
  Rigs,        \* each rented at most once
  Lost,        \* a rig whose record is gone
  Machines,    \* a bound: the machines there can be, numbered as the provider lists them
  Details,     \* what a label says beyond the rig's identifier
  PageMax,     \* machines on a page
  LateAfter    \* responses to a create that may still be carried out

\* The reader that is no rig's.
Sweep == "sweep"

ASSUME AdapterAssumption ==
  /\ Kind \in {"vastai", "runpod"} /\ Lost \notin Rigs /\ Sweep \notin Rigs
  /\ Machines \in Nat \ {0} /\ PageMax \in Nat \ {0}
  /\ Details \in Seq(STRING) /\ "ok" \notin LateAfter

VARIABLES
  machine,     \* of each number: whose it is, its label, and whether it is there
  rig,         \* of each rig: how far its record is, its instance, the class of its failure
  listing,     \* of each reader: the pages it has, or none
  sweep,       \* the orphan sweep
  misled       \* observed: the machines that an answer has denied
avars == <<machine, rig, listing, sweep, misled>>

None == [kind |-> "none"]

-----------------------------------------------------------------------------
(* Labels                                                                  *)

\* A label begins with the rig's identifier; of the details as many are kept as
\* the provider's limit leaves room for.
EncodeLabel(r, kept) == <<r>> \o SubSeq(Details, 1, kept)

\* Mutant of DecodeLabel: what follows the prefix is taken whole.
DecodeLabelWhole(text) == text

\* Details that cannot be read, or opened, leave the identifier.
DecodeLabel(text) == <<Head(text)>>

\* What a machine's label is read as, in the form that a rig's identifier has
\* alone: RunPod's has whatever follows the prefix.
RigID(i) ==
  IF ~machine[i].ours THEN <<>>
  ELSE IF Kind = "runpod" THEN machine[i].label ELSE DecodeLabel(machine[i].label)

-----------------------------------------------------------------------------
(* Responses                                                               *)

\* Mutant of Class: a mutation that was cut off is classed like a read.
ClassAsRead(mutation, response) ==
  IF response \in {"transport", "cut", "limited", "gateway", "garbled"} THEN "transient" ELSE "model"

\* The class of an error: a mutation whose connection was lost may have been
\* carried out.
Class(mutation, response) ==
  IF \/ mutation /\ response = "transport"
     \/ mutation /\ response = "cut" /\ Kind = "vastai"
     \/ response = "unsuccessful"
  THEN "unknown"
  ELSE IF response \in {"transport", "cut", "limited", "gateway", "garbled"} THEN "transient"
  ELSE "model"

\* RunPod's wording of having no card to place, in whatever refused, is the
\* host's failure.
CreateClass(response) ==
  IF Kind = "runpod" /\ response \in {"full", "gateway"} THEN "host" ELSE Class(TRUE, response)

Carried == {"ok", "garbled", "cut", "gateway", "transport", "unsuccessful"}
Refused == {"refused", "full", "unauthorized", "limited", "unsuccessful", "gateway", "transport"}
Failing == {"limited", "gateway", "transport", "cut", "garbled"}

\* The responses that are to be taken for a create that may yet be carried out.
Open == {"transport", "unsuccessful"} \cup (IF Kind = "vastai" THEN {"cut"} ELSE {})

There == {i \in DOMAIN machine : machine[i].state = "there"}
Unused == [state |-> "unused", rig |-> Lost, ours |-> FALSE, label |-> <<>>]

-----------------------------------------------------------------------------
(* Creating                                                                *)

\* The call leaves, for the machine it will get.  Without a key RunPod's adapter
\* sends nothing, and nothing was created.
Create(r) ==
  /\ rig[r].state = "none"
  /\ \E i \in DOMAIN machine, kept \in 0..Len(Details),
        sent \in IF Kind = "runpod" THEN BOOLEAN ELSE {TRUE} :
       /\ machine[i] = Unused
       /\ machine' = IF ~sent THEN machine ELSE [machine EXCEPT ![i] =
            [state |-> "asked", rig |-> r, ours |-> TRUE, label |-> EncodeLabel(r, kept)]]
       /\ rig' = IF sent THEN [rig EXCEPT ![r] = [state |-> "creating", instance |-> i, class |-> "none"]]
                 ELSE [rig EXCEPT ![r].state = "closed"]
  /\ UNCHANGED <<listing, sweep, misled>>

\* The provider carries it out, while it is waited for or after it was given up.
Lands(i) ==
  /\ machine[i].state \in {"asked", "coming"}
  /\ machine' = [machine EXCEPT ![i].state = "there"]
  /\ UNCHANGED <<rig, listing, sweep, misled>>

\* The response: an instance, or a classed failure.  A create that was not carried
\* out never will be, unless the response is one that leaves that open.
Created(r, response) ==
  LET i == rig[r].instance
      landed == machine[i].state # "asked"
  IN /\ rig[r].state = "creating"
     /\ response \in IF landed THEN Carried ELSE Refused \cup LateAfter
     /\ rig' = IF response = "ok" THEN [rig EXCEPT ![r].state = "rented"]
               ELSE [rig EXCEPT ![r] = [state |-> "failed", instance |-> 0, class |-> CreateClass(response)]]
     /\ machine' \in
          IF landed THEN {machine}
          ELSE {[machine EXCEPT ![i].state = s] :
                  s \in {"gone"} \cup (IF response \in LateAfter THEN {"coming"} ELSE {})}
     /\ misled' = IF machine'[i].state = "coming" /\ response \notin Open THEN misled \cup {i} ELSE misled
     /\ UNCHANGED <<listing, sweep>>

-----------------------------------------------------------------------------
(* Listing                                                                 *)

\* Vast.ai lists a page at a time, RunPod everything.
Page(after) ==
  LET rest == {i \in There : i > after}
  IN IF Kind = "runpod" THEN rest ELSE {i \in rest : Cardinality({j \in rest : j <= i}) <= PageMax}

ListBegins(a) ==
  /\ listing[a] = None
  /\ listing' = [listing EXCEPT ![a] = [kind |-> "open", got |-> {}, lost |-> {}, after |-> 0, since |-> There]]

\* A page is added, without the entries that do not normalise; the token of the
\* last leads nowhere, and an empty page is the last, whatever its token.
ListPage(a) ==
  /\ listing[a].kind = "open"
  /\ \E page \in {Page(listing[a].after), {}} : \E normal \in SUBSET page :
       LET read == listing[a]
           left == {i \in There : i > read.after}
           last == CHOOSE i \in page : \A j \in page : j <= i
       IN listing' = [listing EXCEPT ![a] =
            IF page = {} \/ {i \in There : i > last} = {}
            THEN [read EXCEPT !.kind = "full", !.got = @ \cup normal, !.lost = @ \cup (left \ normal)]
            ELSE [read EXCEPT !.got = @ \cup normal, !.lost = @ \cup (page \ normal), !.after = last]]

ListFails(a) ==
  /\ listing[a].kind = "open"
  /\ listing' = [listing EXCEPT ![a].kind = "failed"]

List(a) ==
  /\ ListPage(a) \/ ListFails(a)
  /\ UNCHANGED <<machine, rig, sweep, misled>>

-----------------------------------------------------------------------------
(* What a failed create is taken to have done (resolveFailedCreate)        *)

Resolve(r) ==
  /\ rig[r].state = "failed" /\ ListBegins(r)
  /\ UNCHANGED <<machine, rig, sweep, misled>>

\* Found, it is torn down; not found, the rig is closed unless the create may be
\* under way; not answered, it is left.
Resolved(r) ==
  /\ rig[r].state = "failed" /\ listing[r].kind \in {"full", "failed"}
  /\ LET found == {i \in listing[r].got : RigID(i) = <<r>>}
     IN rig' \in
          IF listing[r].kind = "failed" THEN {[rig EXCEPT ![r].state = "left"]}
          ELSE IF found # {}
          THEN {[rig EXCEPT ![r].state = "ending", ![r].instance = i] : i \in found}
          ELSE {[rig EXCEPT ![r].state = IF rig[r].class = "unknown" THEN "left" ELSE "closed"]}
  /\ misled' = IF rig'[r].state = "closed"
               THEN misled \cup {i \in listing[r].lost : machine[i].ours /\ machine[i].rig = r} ELSE misled
  /\ listing' = [listing EXCEPT ![r] = None]
  /\ UNCHANGED <<machine, sweep>>

-----------------------------------------------------------------------------
(* Destroying                                                              *)

Down(r) ==
  /\ rig[r].state = "rented"
  /\ rig' = [rig EXCEPT ![r].state = "ending"]
  /\ UNCHANGED <<machine, listing, sweep, misled>>

\* The call is carried out or not, whatever its response; a machine that is gone
\* already is as good.
Gone(i) == IF machine[i].state = "there" THEN [machine EXCEPT ![i].state = "gone"] ELSE machine

Destroy(r) ==
  /\ rig[r].state = "ending"
  /\ machine' \in {machine, Gone(rig[r].instance)}
  /\ rig' = [rig EXCEPT ![r].state = "confirming"]
  /\ UNCHANGED <<listing, sweep, misled>>

\* What a query of one instance can be answered with: any may be a success that
\* holds no instance.
Answers(i) == Failing \cup {"empty", IF machine[i].state = "there" THEN "ok" ELSE "absent"}

\* Absence is what the provider says of the instance, in so many words or by
\* saying nothing of it, and no failure to ask.
Absent(response) == response \in {"absent", "empty"}

\* Asked until it is absent, or too long.
Confirm(r, response) ==
  LET i == rig[r].instance
  IN /\ rig[r].state = "confirming" /\ response \in Answers(i)
     /\ rig' \in {[rig EXCEPT ![r].state = s] :
                    s \in IF Absent(response) THEN {"ended"} ELSE {"confirming", "unconfirmed"}}
     /\ misled' = IF response = "empty" /\ i \in There THEN misled \cup {i} ELSE misled
     /\ UNCHANGED <<machine, listing, sweep>>

-----------------------------------------------------------------------------
(* The orphan sweep                                                        *)

SweepBegins ==
  /\ sweep.state = "idle" /\ ListBegins(Sweep)
  /\ sweep' = [sweep EXCEPT !.state = "listing"]
  /\ UNCHANGED <<machine, rig, misled>>

\* The rig's record expects an instance: being torn down, it does until that is
\* confirmed.
Rented(r) == rig[r].state \in {"rented", "ending", "confirming", "unconfirmed"}

\* Everything that carries a label and that the records do not account for: rigs
\* not on record, and rigs whose state expects no instance.
Orphans(got, tracked) ==
  {i \in got : RigID(i) # <<>> /\ \A r \in tracked : RigID(i) # <<r>>}

\* The records are read after the listing; one that cannot be read leaves the sweep
\* with none.
SweepReads ==
  /\ sweep.state = "listing" /\ listing[Sweep].kind \in {"full", "failed"}
  /\ listing' = [listing EXCEPT ![Sweep] = None]
  /\ \/ /\ listing[Sweep].kind = "failed"
        /\ sweep' = [sweep EXCEPT !.state = "over"]
     \/ /\ listing[Sweep].kind = "full"
        /\ \E readable \in BOOLEAN :
             LET tracked == {r \in Rigs : readable /\ Rented(r)}
                 orphans == Orphans(listing[Sweep].got, tracked)
             IN sweep' =
                  [state |-> "destroying", orphans |-> orphans, blind |-> ~readable,
                   lost |-> listing[Sweep].lost,
                   wronged |-> {i \in orphans : \E r \in Rigs : Rented(r) /\ rig[r].instance = i},
                   missed |-> {i \in (listing[Sweep].since \cap There) \ orphans :
                                 machine[i].ours /\ \A r \in Rigs : machine[i].rig = r => ~Rented(r)}]
  /\ UNCHANGED <<machine, rig, misled>>

\* One orphan after another; the ones that cannot be destroyed are left.
SweepDestroys(i) ==
  /\ sweep.state = "destroying" /\ i \in sweep.orphans
  /\ machine' \in {machine, Gone(i)}
  /\ sweep' = [sweep EXCEPT !.orphans = @ \ {i}]
  /\ UNCHANGED <<rig, listing, misled>>

-----------------------------------------------------------------------------
\* A machine goes without being asked to.
Vanishes(i) ==
  /\ machine[i].state = "there"
  /\ machine' = [machine EXCEPT ![i].state = "gone"]
  /\ UNCHANGED <<rig, listing, sweep, misled>>

\* The account holds, or not, a machine of the operator's own and one of a rig
\* whose record is gone.
AdapterInit ==
  /\ machine \in {[Unpopulated EXCEPT ![1] = own, ![2] = lost] :
       Unpopulated \in {[i \in 1..Machines |-> Unused]},
       own \in {Unused, [Unused EXCEPT !.state = "there"]},
       lost \in {Unused, [state |-> "there", rig |-> Lost, ours |-> TRUE,
                          label |-> EncodeLabel(Lost, Len(Details))]}}
  /\ rig = [r \in Rigs |-> [state |-> "none", instance |-> 0, class |-> "none"]]
  /\ listing = [a \in Rigs \cup {Sweep} |-> None]
  /\ sweep = [state |-> "idle", orphans |-> {}, blind |-> FALSE, lost |-> {}, wronged |-> {}, missed |-> {}]
  /\ misled = {}

AdapterNext ==
  \/ \E r \in Rigs : Create(r) \/ Resolve(r) \/ Resolved(r) \/ Down(r) \/ Destroy(r)
  \/ \E r \in Rigs, response \in Carried \cup Refused : Created(r, response)
  \/ \E r \in Rigs, response \in Failing \cup {"ok", "absent", "empty"} : Confirm(r, response)
  \/ \E a \in Rigs \cup {Sweep} : List(a)
  \/ SweepBegins \/ SweepReads
  \/ \E i \in 1..Machines : Lands(i) \/ Vanishes(i) \/ SweepDestroys(i)

AdapterSpec == AdapterInit /\ [][AdapterNext]_avars

-----------------------------------------------------------------------------
(* Properties                                                              *)

\* A rig that is recorded as ended, because its instance was confirmed absent or
\* because its create was taken to have created nothing, has no machine, and none
\* is to come: whatever calls failed, and wherever on the account's pages it was.
\* Except where an answer denied the machine: one that held no instance while it
\* was there, a listing that passed it over, or a refusal of a create that was
\* carried out after all.
EndedHasNoMachine ==
  \A i \in 1..Machines, r \in Rigs :
    machine[i].state \in {"there", "coming"} /\ machine[i].ours /\ machine[i].rig = r =>
      rig[r].state \notin {"closed", "ended"} \/ i \in misled

\* A sweep that could read the records names no instance of a rig that is on
\* record as rented.
TrackedIsNoOrphan == sweep.wronged # {} => sweep.blind

\* A sweep that could list the account tells orphans from the rest: it names no
\* instance of a rig on record as rented unless it could read no records, and
\* every labelled machine that was there throughout and that no such rig accounts
\* for, but those its listing passed over.
SweepTellsOrphans == TrackedIsNoOrphan /\ sweep.missed \subseteq sweep.lost

\* Absence, "the only proof of destruction" in the comments, proves it: not with an
\* answer that holds no instance (violated).
AbsenceIsProof ==
  \A r \in Rigs : rig[r].state = "ended" => machine[rig[r].instance].state = "gone"

\* A listing has "every instance": not the entries that do not normalise, nor what
\* an empty page hides (violated).
ListingIsComplete == \A a \in DOMAIN listing : listing[a] # None => listing[a].lost = {}
=============================================================================
