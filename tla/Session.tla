------------------------------- MODULE Session -------------------------------
(***************************************************************************)
(* What an MCP server holds between tool calls: the session, the goroutines *)
(* that bring rigs up and supervise them, and larri_up and larri_down,     *)
(* which the server handles one at a time.  A bring-up that is stopped     *)
(* runs on until it notices, and reports to whatever session is there then. *)
(***************************************************************************)
EXTENDS Naturals, FiniteSets

CONSTANTS
  Gens,      \* the bring-ups, one goroutine each
  Other,     \* a rig of another process
  Nobody,
  Strangers  \* other processes rent too

ASSUME SessionAssumption ==
  /\ Nobody \notin Gens \cup {Other} /\ Other \notin Gens /\ Strangers \in BOOLEAN

VARIABLES
  up,         \* where a goroutine is
  cancelled,  \* the bring-ups whose context is cancelled
  hold,       \* who will release a rig's hold: its goroutine's "live", the
              \* "goroutine" ending it, the "tool" tearing it down, or "no" one
  billing,    \* the rigs the store has as billable
  running, live, cancel,  \* the session's fields; its rigID is never set
  tool,       \* a larri_down under way
  late, asked, kept \* observers: a bring-up began beside an older goroutine;
                    \* the rigs a larri_down named; those a teardown could not end

session == <<running, live, cancel>>
vars == <<up, cancelled, hold, billing, session, tool, late, asked, kept>>

Idle == [pc |-> "idle", target |-> Nobody, cancel |-> Nobody, live |-> Nobody, release |-> Nobody]

InFlight(g) == up[g] \notin {"none", "done"}
Goes(g, pc) == up' = [up EXCEPT ![g] = pc]

TypeOK ==
  /\ up \in [Gens -> {"none", "renting", "serving", "cleaning", "failed", "returned",
                      "supervised", "reclaiming", "ended", "done"}]
  /\ cancelled \subseteq Gens
  /\ hold \in [Gens -> {"no", "live", "goroutine", "tool"}]
  /\ billing \subseteq Gens \cup {Other} /\ asked \subseteq Gens \cup {Other} /\ kept \subseteq Gens
  /\ running \in BOOLEAN /\ live \in Gens \cup {Nobody} /\ cancel \in Gens \cup {Nobody}
  /\ tool \in [pc : {"idle", "end", "cancel", "destroy"}, target : Gens \cup {Other, Nobody},
               cancel : Gens \cup {Nobody}, live : Gens \cup {Nobody},
               release : Gens \cup {Nobody}]
  /\ late \in BOOLEAN

Init ==
  /\ up = [g \in Gens |-> "none"] /\ cancelled = {} /\ hold = [g \in Gens |-> "no"]
  /\ billing = {} /\ running = FALSE /\ live = Nobody /\ cancel = Nobody
  /\ tool = Idle /\ late = FALSE /\ asked = {} /\ kept = {}

-----------------------------------------------------------------------------
(* The tools                                                               *)

\* larri_up: nothing billable on record, Begin claims the session, and the
\* bring-up goes its own way.
Up(g) ==
  /\ tool.pc = "idle" /\ up[g] = "none" /\ billing = {} /\ ~running
  /\ Goes(g, "renting")
  /\ running' = TRUE /\ live' = Nobody /\ cancel' = g
  /\ late' = (late \/ \E h \in Gens : InFlight(h))
  /\ UNCHANGED <<cancelled, hold, billing, tool, asked, kept>>

\* Mutant of Stop: larri_down does not look for what bills.
StopUnlooked ==
  /\ tool.pc = "idle" /\ running
  /\ cancelled' = cancelled \cup ({cancel} \ {Nobody})
  /\ hold' = [g \in Gens |-> IF g = live /\ hold[g] = "live" THEN "no" ELSE hold[g]]
  /\ running' = FALSE /\ live' = Nobody /\ cancel' = Nobody
  /\ UNCHANGED <<up, billing, tool, late, asked, kept>>

\* Session.Stop, for a larri_down that finds nothing billable.
Stop ==
  /\ tool.pc = "idle" /\ billing = {} /\ running
  /\ cancelled' = cancelled \cup ({cancel} \ {Nobody})
  /\ hold' = [g \in Gens |-> IF g = live /\ hold[g] = "live" THEN "no" ELSE hold[g]]
  /\ running' = FALSE /\ live' = Nobody /\ cancel' = Nobody
  /\ UNCHANGED <<up, billing, tool, late, asked, kept>>

\* Mutant of DownStarts: the bring-up is cancelled first.
DownStartsCancelling(r) ==
  /\ tool.pc = "idle" /\ r \in billing
  /\ tool' = [Idle EXCEPT !.pc = "end", !.target = r, !.cancel = cancel, !.live = live]
  /\ cancelled' = cancelled \cup ({cancel} \ {Nobody})
  /\ running' = FALSE /\ live' = Nobody /\ cancel' = Nobody
  /\ asked' = asked \cup {r}
  /\ UNCHANGED <<up, hold, billing, late, kept>>

\* larri_down finds a billable rig; StopForTeardown empties the session.
DownStarts(r) ==
  /\ tool.pc = "idle" /\ r \in billing
  /\ tool' = [Idle EXCEPT !.pc = "end", !.target = r, !.cancel = cancel, !.live = live]
  /\ running' = FALSE /\ live' = Nobody /\ cancel' = Nobody
  /\ asked' = asked \cup {r}
  /\ UNCHANGED <<up, cancelled, hold, billing, late, kept>>

\* ... EndServing takes the hold, if the rig was serving ...
DownEndsServing ==
  /\ tool.pc = "end"
  /\ tool' = [tool EXCEPT !.pc = "cancel",
       !.release = IF tool.live # Nobody /\ hold[tool.live] = "live" THEN tool.live ELSE Nobody]
  /\ hold' = IF tool'.release = Nobody THEN hold ELSE [hold EXCEPT ![tool'.release] = "tool"]
  /\ UNCHANGED <<up, cancelled, billing, session, late, asked, kept>>

\* ... and only then is the bring-up cancelled.
DownCancels ==
  /\ tool.pc = "cancel"
  /\ tool' = [tool EXCEPT !.pc = "destroy"]
  /\ cancelled' = cancelled \cup ({tool.cancel} \ {Nobody})
  /\ UNCHANGED <<up, hold, billing, session, late, asked, kept>>

Released == IF tool.release = Nobody THEN hold ELSE [hold EXCEPT ![tool.release] = "no"]

\* Down confirms that the rig is gone; Finish, and the deferred release.
DownConfirms ==
  /\ tool.pc = "destroy"
  /\ billing' = billing \ {tool.target}
  /\ running' = FALSE /\ live' = Nobody
  /\ hold' = Released /\ tool' = Idle
  /\ UNCHANGED <<up, cancelled, cancel, late, asked, kept>>

\* It cannot: the rig stays on record.
DownFails ==
  /\ tool.pc = "destroy"
  /\ hold' = Released /\ tool' = Idle /\ kept' = kept \cup ({tool.target} \ {Other})
  /\ UNCHANGED <<up, cancelled, billing, session, late, asked>>

-----------------------------------------------------------------------------
(* A bring-up                                                              *)

\* A create succeeds, also one that was under way when the context was
\* cancelled; the rig is held from before it.
Rents(g) ==
  /\ up[g] = "renting"
  /\ Goes(g, "serving") /\ billing' = billing \cup {g} /\ hold' = [hold EXCEPT ![g] = "live"]
  /\ UNCHANGED <<cancelled, session, tool, late, asked, kept>>

RentFails(g) ==
  /\ up[g] = "renting"
  /\ Goes(g, "failed")
  /\ UNCHANGED <<cancelled, hold, billing, session, tool, late, asked, kept>>

\* UpAndServe returns a serving rig; it looks at its context to the last.
Serves(g) ==
  /\ up[g] = "serving" /\ g \notin cancelled
  /\ Goes(g, "returned")
  /\ UNCHANGED <<cancelled, hold, billing, session, tool, late, asked, kept>>

ServeFails(g) ==
  /\ up[g] = "serving"
  /\ Goes(g, "cleaning")
  /\ UNCHANGED <<cancelled, hold, billing, session, tool, late, asked, kept>>

\* Torn down under its hold; then the next machine, or the error.
Cleans(g) ==
  /\ up[g] = "cleaning"
  /\ hold' = [hold EXCEPT ![g] = "no"]
  /\ \/ g \notin cancelled /\ Goes(g, "renting") /\ billing' = billing \ {g} /\ UNCHANGED kept
     \/ Goes(g, "failed") /\ billing' = billing \ {g} /\ UNCHANGED kept
     \/ Goes(g, "failed") /\ UNCHANGED billing /\ kept' = kept \cup {g}
  /\ UNCHANGED <<cancelled, session, tool, late, asked>>

\* Session.Fail.
Fail(g) ==
  /\ up[g] = "failed"
  /\ Goes(g, "done") /\ running' = FALSE /\ live' = Nobody
  /\ UNCHANGED <<cancelled, hold, billing, cancel, tool, late, asked, kept>>

\* Session.Ready.
Ready(g) ==
  /\ up[g] = "returned"
  /\ Goes(g, "supervised") /\ live' = g
  /\ UNCHANGED <<cancelled, hold, billing, running, cancel, tool, late, asked, kept>>

\* Supervise returns, with a Termination or because its context is cancelled,
\* and EndServing takes the hold if nobody has.
SuperviseEnds(g) ==
  /\ up[g] = "supervised"
  /\ \/ Goes(g, "reclaiming")
     \/ g \in cancelled /\ Goes(g, "ended")
  /\ hold' = IF hold[g] = "live" THEN [hold EXCEPT ![g] = "goroutine"] ELSE hold
  /\ UNCHANGED <<cancelled, billing, session, tool, late, asked, kept>>

Reclaims(g) ==
  /\ up[g] = "reclaiming"
  /\ Goes(g, "ended")
  /\ \/ billing' = billing \ {g} /\ UNCHANGED kept
     \/ UNCHANGED billing /\ kept' = kept \cup {g}
  /\ UNCHANGED <<cancelled, hold, session, tool, late, asked>>

\* Mutant of Finish: the goroutine returns without giving the session up.
FinishSilent(g) ==
  /\ up[g] = "ended"
  /\ Goes(g, "done")
  /\ hold' = IF hold[g] = "goroutine" THEN [hold EXCEPT ![g] = "no"] ELSE hold
  /\ UNCHANGED <<cancelled, billing, session, tool, late, asked, kept>>

\* The release, and Session.Finish.
Finish(g) ==
  /\ up[g] = "ended"
  /\ Goes(g, "done") /\ running' = FALSE /\ live' = Nobody
  /\ hold' = IF hold[g] = "goroutine" THEN [hold EXCEPT ![g] = "no"] ELSE hold
  /\ UNCHANGED <<cancelled, billing, cancel, tool, late, asked, kept>>

\* Mutant of BringUp: a cancelled bring-up stays in the wait it is in.
BringUpDeaf(g) ==
  \/ Rents(g) \/ RentFails(g) \/ Serves(g) \/ (g \notin cancelled /\ ServeFails(g)) \/ Cleans(g) \/ Fail(g)
  \/ Ready(g) \/ (g \notin cancelled /\ SuperviseEnds(g)) \/ Reclaims(g) \/ Finish(g)

BringUp(g) ==
  \/ Rents(g) \/ RentFails(g) \/ Serves(g) \/ ServeFails(g) \/ Cleans(g) \/ Fail(g)
  \/ Ready(g) \/ SuperviseEnds(g) \/ Reclaims(g) \/ Finish(g)

OtherUp ==
  /\ Strangers /\ Other \notin asked
  /\ billing' = billing \cup {Other}
  /\ UNCHANGED <<up, cancelled, hold, session, tool, late, asked, kept>>

Down == DownEndsServing \/ DownCancels \/ DownConfirms \/ DownFails

Next ==
  \/ \E g \in Gens : Up(g) \/ BringUp(g)
  \/ \E r \in Gens \cup {Other} : DownStarts(r)
  \/ Stop \/ Down \/ OtherUp

Spec == Init /\ [][Next]_vars

\* A goroutine runs on until it returns, and every wait in it ends, but a rig
\* may be supervised for as long as nobody stops it.
Proceeds(g) == BringUp(g) /\ (up[g] = "supervised" => g \in cancelled)

FairSpec == Spec /\ WF_vars(Down) /\ \A g \in Gens : WF_vars(Proceeds(g))

-----------------------------------------------------------------------------
(* Properties                                                              *)

Uncancelled == {g \in Gens : InFlight(g) /\ g \notin cancelled}

\* "Refusing is the point: two concurrent bring-ups mean two billing instances"
\* (session.go).
OneBringUp == Cardinality(Uncancelled) <= 1

\* It holds, and the session says truly whether a bring-up is in flight, as
\* long as no bring-up began while an older goroutine was still on its way out.
SessionKnows ==
  ~late => /\ OneBringUp
           /\ Uncancelled # {} => running \/ tool.pc # "idle"
           /\ running => \E g \in Gens : InFlight(g)

\* "The hold is taken before the bring-up is cancelled" (StopForTeardown): from
\* the moment larri_down takes a serving rig, with the cancel that stops it, out
\* of the session until it is done, the rig is held.
TeardownHeld ==
  tool.live \in billing \ kept /\ tool.cancel = tool.live => hold[tool.live] # "no"

\* Whoever has a hold is still there to release it.
HoldHasOwner ==
  \A g \in Gens :
    /\ hold[g] = "tool" => tool.release = g
    /\ hold[g] = "goroutine" => up[g] \in {"reclaiming", "ended"}
    /\ hold[g] = "live" => up[g] \in {"serving", "cleaning", "returned", "supervised"}

\* A rig its goroutine has left is not billing, unless a larri_down was for it
\* or a teardown of it failed: nobody supervises it any more.  A larri_down for
\* another process's rig stops this session's all the same.
LeftOnlyIfAsked ==
  ~late /\ Other \notin asked => \A g \in Gens : up[g] = "done" /\ g \in billing => g \in asked \cup kept

\* Stopping a bring-up ends it.
StoppedEnds == \A g \in Gens : g \in cancelled ~> up[g] = "done"

=============================================================================
