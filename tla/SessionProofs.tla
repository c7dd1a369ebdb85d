---------------------------- MODULE SessionProofs ----------------------------
(***************************************************************************)
(* For any number of bring-ups, whatever order they are stopped, replaced  *)
(* and reported in: no hold on a rig outlives whoever would release it, a  *)
(* rig that is taken down is held throughout, and what a goroutine leaves  *)
(* billing somebody asked for.                                             *)
(***************************************************************************)
EXTENDS Session, TLAPS

\* The tool takes a hold only after it has emptied the session.
HoldInv ==
  /\ TypeOK /\ HoldHasOwner
  /\ tool.pc \in {"idle", "end"} => tool.release = Nobody
  /\ tool.pc # "idle" => tool.target # Nobody

LEMMA Apart == Nobody \notin Gens /\ Nobody # Other
BY SessionAssumption

LEMMA InitInv == Init => HoldInv
<1> SUFFICES ASSUME Init PROVE HoldInv OBVIOUS
<1>1. TypeOK BY DEF Init, TypeOK, Idle
<1>2. HoldHasOwner BY DEF Init, HoldHasOwner
<1>3. tool = Idle BY DEF Init
<1> QED BY <1>1, <1>2, <1>3 DEF HoldInv, Idle

\* The steps of larri_down, whatever becomes of its target.
LEMMA DownStep ==
  ASSUME HoldInv, Down \/ (\E r \in Gens \cup {Other} : DownStarts(r))
  PROVE  HoldInv'
<1>0. TypeOK /\ HoldHasOwner /\ (tool.pc \in {"idle", "end"} => tool.release = Nobody)
     /\ (tool.pc # "idle" => tool.target # Nobody)
  BY DEF HoldInv
<1>1. ASSUME NEW r \in Gens \cup {Other}, DownStarts(r) PROVE HoldInv'
  <2> DEFINE t == [Idle EXCEPT !.pc = "end", !.target = r, !.cancel = cancel, !.live = live]
  <2>1. tool' = t /\ r # Nobody BY <1>1, Apart DEF DownStarts
  <2>2. t.pc = "end" /\ t.release = Nobody /\ t.target = r BY DEF Idle
  <2>3. t \in [pc : {"idle", "end", "cancel", "destroy"}, target : Gens \cup {Other, Nobody},
                cancel : Gens \cup {Nobody}, live : Gens \cup {Nobody}, release : Gens \cup {Nobody}]
    BY <1>0 DEF Idle, TypeOK
  <2>0. tool.release = Nobody BY <1>0, <1>1 DEF DownStarts
  <2>4. \A g \in Gens : hold[g] # "tool" BY <1>0, <2>0, Apart DEF HoldHasOwner
  <2> HIDE DEF t
  <2>5. TypeOK' BY <1>0, <1>1, <2>1, <2>3 DEF DownStarts, TypeOK
  <2>6. HoldHasOwner' BY <1>0, <1>1, <2>4 DEF DownStarts, HoldHasOwner
  <2> QED BY <2>1, <2>2, <2>5, <2>6 DEF HoldInv
<1>2. CASE DownEndsServing
  <2> DEFINE x == IF tool.live # Nobody /\ hold[tool.live] = "live" THEN tool.live ELSE Nobody
  <2>1. tool' = [tool EXCEPT !.pc = "cancel", !.release = x]
    BY <1>2 DEF DownEndsServing
  <2>0. tool'.release = x /\ tool'.pc = "cancel" /\ tool'.target = tool.target
    BY <1>0, <2>1 DEF TypeOK
  <2>2. hold' = (IF x = Nobody THEN hold ELSE [hold EXCEPT ![x] = "tool"]) BY <1>2, <2>0 DEF DownEndsServing
  <2>3. x \in Gens \cup {Nobody} /\ (x # Nobody => hold[x] = "live") BY <1>0 DEF TypeOK
  <2>4. tool.release = Nobody /\ tool.target # Nobody BY <1>0, <1>2 DEF DownEndsServing
  <2>5. UNCHANGED <<up, cancelled, billing, running, live, cancel, late, asked, kept>>
    BY <1>2 DEF DownEndsServing, session
  <2> HIDE DEF x
  <2>6. TypeOK' BY <1>0, <2>1, <2>2, <2>3, <2>5 DEF TypeOK
  <2>7. HoldHasOwner'
    BY <1>0, <2>0, <2>2, <2>3, <2>4, <2>5, Apart DEF HoldHasOwner, TypeOK
  <2> QED BY <2>0, <2>4, <2>6, <2>7 DEF HoldInv
<1>3. CASE DownCancels
  <2>1. TypeOK' BY <1>0, <1>3 DEF DownCancels, TypeOK, session
  <2> QED BY <1>0, <1>3, <2>1 DEF DownCancels, TypeOK, HoldHasOwner, HoldInv, session
<1>4. CASE DownConfirms \/ DownFails
  <2>1. hold' = Released /\ tool' = Idle /\ UNCHANGED <<up, cancelled, cancel, late, asked>>
    BY <1>4 DEF DownConfirms, DownFails, session
  <2>2. billing' \subseteq billing /\ kept' \subseteq kept \cup ({tool.target} \ {Other})
    BY <1>4 DEF DownConfirms, DownFails
  <2>3. running' \in BOOLEAN /\ live' \in Gens \cup {Nobody} BY <1>0, <1>4 DEF DownConfirms, DownFails, session, TypeOK
  <2>4. tool.target \in Gens \cup {Other} BY <1>0, <1>4 DEF DownConfirms, DownFails, TypeOK
  <2>5. Released \in [Gens -> {"no", "live", "goroutine", "tool"}] /\
        \A g \in Gens : Released[g] # "tool" /\ (Released[g] # "no" => Released[g] = hold[g])
    BY <1>0, Apart DEF Released, TypeOK, HoldHasOwner
  <2>6. TypeOK' BY <1>0, <2>1, <2>2, <2>3, <2>4, <2>5 DEF TypeOK, Idle
  <2>7. HoldHasOwner' BY <1>0, <2>1, <2>5 DEF HoldHasOwner
  <2> QED BY <2>1, <2>6, <2>7 DEF HoldInv, Idle
<1> QED BY <1>1, <1>2, <1>3, <1>4 DEF Down

\* The steps of one bring-up.
LEMMA BringUpStep == ASSUME HoldInv, NEW g \in Gens, BringUp(g) PROVE HoldInv'
<1> USE Apart DEF HoldInv, TypeOK, HoldHasOwner, session, Goes
<1>1. CASE Rents(g)       BY <1>1 DEF Rents
<1>2. CASE RentFails(g)   BY <1>2 DEF RentFails
<1>3. CASE Serves(g)      BY <1>3 DEF Serves
<1>4. CASE ServeFails(g)  BY <1>4 DEF ServeFails
<1>5. CASE Cleans(g)      BY <1>5 DEF Cleans
<1>6. CASE Fail(g)        BY <1>6 DEF Fail
<1>7. CASE Ready(g)       BY <1>7 DEF Ready
<1>8. CASE SuperviseEnds(g)
  BY <1>8 DEF SuperviseEnds
<1>9. CASE Reclaims(g)    BY <1>9 DEF Reclaims
<1>10. CASE Finish(g)     BY <1>10 DEF Finish
<1> QED BY <1>1, <1>2, <1>3, <1>4, <1>5, <1>6, <1>7, <1>8, <1>9, <1>10 DEF BringUp

LEMMA NextInv == ASSUME HoldInv, [Next]_vars PROVE HoldInv'
<1>1. CASE \E g \in Gens : BringUp(g)
  BY <1>1, BringUpStep
<1>2. CASE Down \/ (\E r \in Gens \cup {Other} : DownStarts(r))
  BY <1>2, DownStep
<1>3. ASSUME NEW g \in Gens, Up(g) PROVE HoldInv'
  BY <1>3 DEF Up, Goes, HoldInv, TypeOK, HoldHasOwner
<1>4. CASE Stop
  BY <1>4 DEF Stop, HoldInv, TypeOK, HoldHasOwner
<1>5. CASE OtherUp
  BY <1>5 DEF OtherUp, HoldInv, TypeOK, HoldHasOwner, session
<1>6. CASE UNCHANGED vars
  BY <1>6 DEF vars, HoldInv, TypeOK, HoldHasOwner, session
<1> QED BY <1>1, <1>2, <1>3, <1>4, <1>5, <1>6 DEF Next

THEOREM InvHolds == Spec => []HoldInv
BY InitInv, NextInv, PTL DEF Spec

-----------------------------------------------------------------------------
(* What a larri_down takes out of the session                              *)

\* A bring-up's cancel is spent once, and the session gives it up with the tool.
CancelInv ==
  /\ tool.pc = "idle" => tool.cancel = Nobody /\ tool.live = Nobody
  /\ tool.pc # "idle" => cancel = Nobody
  /\ \A g \in Gens :
       /\ up[g] = "none" => g \notin cancelled \cup {cancel, tool.cancel}
       /\ cancel = g \/ (tool.pc \in {"end", "cancel"} /\ tool.cancel = g) => g \notin cancelled

\* A rig in the session has its hold, and so does each before it gets there.
HeldInv ==
  \A g \in Gens :
    /\ up[g] \in {"serving", "cleaning", "returned"} => hold[g] = "live"
    /\ g \in {live, tool.live, tool.release} => up[g] \in {"supervised", "reclaiming", "ended", "done"}
    /\ tool.release = g => hold[g] = "tool"
    /\ live = g =>
         tool.live # g /\ up[g] # "done" /\ hold[g] = IF up[g] = "supervised" THEN "live" ELSE "goroutine"

\* A goroutine whose cancel was never spent ends only by reclaiming its rig.  So
\* the rig a larri_down took is held by the tool, or still by the goroutine that
\* has it.
TakenInv ==
  \A g \in Gens :
    /\ up[g] = "ended" /\ g \notin cancelled => g \notin billing \ kept
    /\ tool.live = g /\ tool.cancel = g /\ g \in billing \ kept =>
         \/ tool.pc # "end" /\ hold[g] = "tool"
         \/ tool.pc = "end" /\ up[g] = "supervised" /\ hold[g] = "live"
         \/ up[g] = "reclaiming" /\ hold[g] = "goroutine"

TeardownInv == HoldInv /\ CancelInv /\ HeldInv /\ TakenInv

\* While no bring-up began beside an older goroutine and no larri_down named
\* another process's rig, the cancel in the session is that of the only rig that
\* can be billing.
LeftInv ==
  /\ \A g \in Gens :
       /\ g \in billing => up[g] \notin {"none", "renting"}
       /\ up[g] = "failed" /\ g \in billing => g \in kept
  /\ ~late /\ Other \notin asked =>
       /\ cancel # Nobody => \A h \in Gens \ {cancel} : up[h] \in {"none", "done"} /\ h \notin billing
       /\ tool.cancel # Nobody => tool.cancel \in asked
       /\ \A g \in Gens :
            g \in billing /\ (up[g] \in {"ended", "done"} \/ (g \in cancelled /\ up[g] \in {"returned", "supervised"}))
              => g \in asked \cup kept

LEMMA InitTeardown == Init => TeardownInv /\ LeftInv
<1> SUFFICES ASSUME Init PROVE TeardownInv /\ LeftInv OBVIOUS
<1>1. HoldInv BY InitInv
<1>2. tool = Idle /\ cancel = Nobody /\ live = Nobody /\ billing = {} /\ cancelled = {}
      /\ \A g \in Gens : up[g] = "none"
  BY DEF Init
<1>3. CancelInv BY <1>2, Apart DEF CancelInv, Idle
<1>4. HeldInv BY <1>2, Apart DEF HeldInv, Idle
<1>5. TakenInv BY <1>2, Apart DEF TakenInv, Idle
<1>6. LeftInv BY <1>2 DEF LeftInv, Idle
<1> QED BY <1>1, <1>3, <1>4, <1>5, <1>6 DEF TeardownInv

\* What each step of larri_down does with what it took.
LEMMA TookFromSession ==
  ASSUME HoldInv, NEW r \in Gens \cup {Other}, DownStarts(r)
  PROVE  /\ tool.pc = "idle" /\ r \in billing /\ r # Nobody
         /\ tool'.pc = "end" /\ tool'.target = r /\ tool'.cancel = cancel /\ tool'.live = live /\ tool'.release = Nobody
         /\ live' = Nobody /\ cancel' = Nobody /\ asked' = asked \cup {r}
         /\ UNCHANGED <<up, cancelled, hold, billing, late, kept>>
BY Apart DEF DownStarts, Idle

LEMMA TookHold ==
  ASSUME HoldInv, DownEndsServing
  PROVE  /\ tool.pc = "end" /\ tool'.pc = "cancel"
         /\ tool'.live = tool.live /\ tool'.cancel = tool.cancel
         /\ \A g \in Gens : hold'[g] = IF g = tool.live /\ hold[g] = "live" THEN "tool" ELSE hold[g]
         /\ \A g \in Gens : g = tool'.release <=> g = tool.live /\ hold[g] = "live"
         /\ UNCHANGED <<up, cancelled, billing, live, cancel, late, asked, kept>>
<1> DEFINE x == IF tool.live # Nobody /\ hold[tool.live] = "live" THEN tool.live ELSE Nobody
<1>1. tool' = [tool EXCEPT !.pc = "cancel", !.release = x] BY DEF DownEndsServing
<1>2. tool \in [pc : {"idle", "end", "cancel", "destroy"}, target : Gens \cup {Other, Nobody},
               cancel : Gens \cup {Nobody}, live : Gens \cup {Nobody}, release : Gens \cup {Nobody}]
      /\ hold \in [Gens -> {"no", "live", "goroutine", "tool"}]
  BY DEF HoldInv, TypeOK
<1>3. tool'.release = x /\ tool'.pc = "cancel" /\ tool'.live = tool.live /\ tool'.cancel = tool.cancel
  BY <1>1, <1>2
<1>7. \A g \in Gens : g = x <=> g = tool.live /\ hold[g] = "live" BY Apart
<1>4. hold' = (IF x = Nobody THEN hold ELSE [hold EXCEPT ![x] = "tool"])
  BY <1>3 DEF DownEndsServing
<1>5. \A g \in Gens : hold'[g] = IF g = tool.live /\ hold[g] = "live" THEN "tool" ELSE hold[g]
  BY <1>2, <1>4, Apart
<1>6. tool.pc = "end" /\ UNCHANGED <<up, cancelled, billing, live, cancel, late, asked, kept>>
  BY DEF DownEndsServing, session
<1> QED BY <1>3, <1>5, <1>6, <1>7

LEMMA TookCancel ==
  ASSUME HoldInv, DownCancels
  PROVE  /\ tool.pc = "cancel" /\ tool'.pc = "destroy"
         /\ tool'.live = tool.live /\ tool'.cancel = tool.cancel
         /\ tool'.release = tool.release
         /\ cancelled' = cancelled \cup ({tool.cancel} \ {Nobody})
         /\ UNCHANGED <<up, hold, billing, live, cancel, late, asked, kept>>
BY DEF DownCancels, HoldInv, TypeOK, session

LEMMA GaveBack ==
  ASSUME HoldInv, DownConfirms \/ DownFails
  PROVE  /\ tool.pc = "destroy" /\ tool' = Idle
         /\ \A g \in Gens : hold'[g] = IF g = tool.release THEN "no" ELSE hold[g]
         /\ billing' \subseteq billing /\ kept \subseteq kept'
         /\ billing' \cap (kept' \ kept) \subseteq {tool.target}
         /\ live' \in {live, Nobody}
         /\ UNCHANGED <<up, cancelled, cancel, late, asked>>
<1>1. hold \in [Gens -> {"no", "live", "goroutine", "tool"}] /\ tool.release \in Gens \cup {Nobody}
  BY DEF HoldInv, TypeOK
<1>2. \A g \in Gens : Released[g] = IF g = tool.release THEN "no" ELSE hold[g]
  BY <1>1, Apart DEF Released
<1> QED BY <1>2 DEF DownConfirms, DownFails, session

LEMMA DownTeardown ==
  ASSUME TeardownInv, Down \/ (\E r \in Gens \cup {Other} : DownStarts(r))
  PROVE  TeardownInv'
<1>0. HoldInv /\ HoldInv' BY DownStep DEF TeardownInv
<1> USE Apart
<1>1. ASSUME NEW r \in Gens \cup {Other}, DownStarts(r) PROVE TeardownInv'
  <2>1. CancelInv' BY <1>0, <1>1, TookFromSession DEF TeardownInv, CancelInv
  <2>2. HeldInv' BY <1>0, <1>1, TookFromSession DEF TeardownInv, HeldInv
  <2>3. TakenInv' BY <1>0, <1>1, TookFromSession DEF TeardownInv, CancelInv, HeldInv, TakenInv
  <2> QED BY <1>0, <2>1, <2>2, <2>3 DEF TeardownInv
<1>2. CASE DownEndsServing
  <2>1. CancelInv' BY <1>0, <1>2, TookHold DEF TeardownInv, CancelInv
  <2>2. HeldInv' BY <1>0, <1>2, TookHold DEF TeardownInv, HeldInv
  <2>3. TakenInv' BY <1>0, <1>2, TookHold DEF TeardownInv, TakenInv
  <2> QED BY <1>0, <2>1, <2>2, <2>3 DEF TeardownInv
<1>3. CASE DownCancels
  <2>1. CancelInv' BY <1>0, <1>3, TookCancel DEF TeardownInv, CancelInv
  <2>2. HeldInv' BY <1>0, <1>3, TookCancel DEF TeardownInv, HeldInv
  <2>3. TakenInv' BY <1>0, <1>3, TookCancel DEF TeardownInv, TakenInv
  <2> QED BY <1>0, <2>1, <2>2, <2>3 DEF TeardownInv
<1>4. CASE DownConfirms \/ DownFails
  <2>0. \A g \in Gens : g = tool.release => hold[g] = "tool"
    BY DEF TeardownInv, HeldInv
  <2>1. CancelInv' BY <1>0, <1>4, GaveBack DEF TeardownInv, CancelInv, Idle
  <2>2. HeldInv' BY <1>0, <1>4, GaveBack DEF TeardownInv, HeldInv, Idle
  <2>3. TakenInv' BY <1>0, <1>4, GaveBack DEF TeardownInv, TakenInv, Idle
  <2> QED BY <1>0, <2>1, <2>2, <2>3 DEF TeardownInv
<1> QED BY <1>1, <1>2, <1>3, <1>4 DEF Down

LEMMA BringUpTeardown == ASSUME TeardownInv, NEW g \in Gens, BringUp(g) PROVE TeardownInv'
<1>0. HoldInv /\ HoldInv' /\ CancelInv /\ HeldInv /\ TakenInv BY BringUpStep DEF TeardownInv
<1>00. up \in [Gens -> {"none", "renting", "serving", "cleaning", "failed", "returned",
                        "supervised", "reclaiming", "ended", "done"}]
       /\ hold \in [Gens -> {"no", "live", "goroutine", "tool"}]
       /\ live \in Gens \cup {Nobody} /\ HoldHasOwner
  BY <1>0 DEF HoldInv, TypeOK
<1> USE Apart DEF session, Goes, CancelInv, HeldInv, TakenInv, HoldHasOwner
<1> SUFFICES CancelInv' /\ HeldInv' /\ TakenInv' BY <1>0 DEF TeardownInv
<1>1. CASE Rents(g)         BY <1>0, <1>00, <1>1 DEF Rents
<1>2. CASE RentFails(g)     BY <1>0, <1>00, <1>2 DEF RentFails
<1>3. CASE Serves(g)        BY <1>0, <1>00, <1>3 DEF Serves
<1>4. CASE ServeFails(g)    BY <1>0, <1>00, <1>4 DEF ServeFails
<1>5. CASE Cleans(g)        BY <1>0, <1>00, <1>5 DEF Cleans
<1>6. CASE Fail(g)          BY <1>0, <1>00, <1>6 DEF Fail
<1>7. CASE Ready(g)         BY <1>0, <1>00, <1>7 DEF Ready
<1>8. CASE SuperviseEnds(g) BY <1>0, <1>00, <1>8 DEF SuperviseEnds
<1>9. CASE Reclaims(g)      BY <1>0, <1>00, <1>9 DEF Reclaims
<1>10. CASE Finish(g)       BY <1>0, <1>00, <1>10 DEF Finish
<1> QED BY <1>1, <1>2, <1>3, <1>4, <1>5, <1>6, <1>7, <1>8, <1>9, <1>10 DEF BringUp

LEMMA NextTeardown == ASSUME TeardownInv, [Next]_vars PROVE TeardownInv'
<1>0. HoldInv' /\ CancelInv /\ HeldInv /\ TakenInv BY NextInv DEF TeardownInv
<1>00. up \in [Gens -> {"none", "renting", "serving", "cleaning", "failed", "returned",
                        "supervised", "reclaiming", "ended", "done"}]
       /\ hold \in [Gens -> {"no", "live", "goroutine", "tool"}]
       /\ HoldHasOwner /\ (tool.pc = "idle" => tool.release = Nobody)
  BY DEF TeardownInv, HoldInv, TypeOK
<1>1. CASE \E g \in Gens : BringUp(g)
  BY <1>1, BringUpTeardown
<1>2. CASE Down \/ (\E r \in Gens \cup {Other} : DownStarts(r))
  BY <1>2, DownTeardown
<1>3. ASSUME NEW g \in Gens, Up(g) PROVE TeardownInv'
  <2>1. /\ tool.pc = "idle" /\ up[g] = "none" /\ live' = Nobody /\ cancel' = g
        /\ \A h \in Gens : up'[h] = IF h = g THEN "renting" ELSE up[h]
        /\ UNCHANGED <<cancelled, hold, billing, tool, asked, kept>>
    BY <1>00, <1>3 DEF Up, Goes
  <2>2. CancelInv' BY <1>0, <2>1, Apart DEF CancelInv
  <2>3. HeldInv' BY <1>0, <1>00, <2>1, Apart DEF HeldInv, CancelInv
  <2>4. TakenInv' BY <1>0, <2>1, Apart DEF TakenInv, CancelInv
  <2> QED BY <1>0, <2>2, <2>3, <2>4 DEF TeardownInv
<1>4. CASE Stop
  <2>1. /\ tool.pc = "idle" /\ billing = {} /\ live' = Nobody /\ cancel' = Nobody
        /\ cancelled' = cancelled \cup ({cancel} \ {Nobody})
        /\ \A g \in Gens : hold'[g] = IF g = live /\ hold[g] = "live" THEN "no" ELSE hold[g]
        /\ UNCHANGED <<up, billing, tool, asked, kept>>
    BY <1>4 DEF Stop
  <2>2. CancelInv' BY <1>0, <2>1, Apart DEF CancelInv
  <2>3. HeldInv' BY <1>0, <1>00, <2>1, Apart DEF HeldInv, CancelInv
  <2>4. TakenInv' BY <1>0, <2>1 DEF TakenInv
  <2> QED BY <1>0, <2>2, <2>3, <2>4 DEF TeardownInv
<1>5. CASE OtherUp
  <2>1. /\ \A g \in Gens : g \in billing' <=> g \in billing
        /\ UNCHANGED <<up, cancelled, hold, live, cancel, tool, asked, kept>>
    BY <1>5, SessionAssumption DEF OtherUp, session
  <2>2. CancelInv' BY <1>0, <2>1 DEF CancelInv
  <2>3. HeldInv' BY <1>0, <2>1 DEF HeldInv
  <2>4. TakenInv' BY <1>0, <2>1 DEF TakenInv
  <2> QED BY <1>0, <2>2, <2>3, <2>4 DEF TeardownInv
<1>6. CASE UNCHANGED vars
  BY <1>0, <1>6 DEF vars, session, CancelInv, HeldInv, TakenInv, TeardownInv
<1> QED BY <1>1, <1>2, <1>3, <1>4, <1>5, <1>6 DEF Next

LEMMA DownLeft ==
  ASSUME TeardownInv, LeftInv, Down \/ (\E r \in Gens \cup {Other} : DownStarts(r))
  PROVE  LeftInv'
<1>0. HoldInv /\ CancelInv BY DEF TeardownInv
<1> USE Apart
<1>1. ASSUME NEW r \in Gens \cup {Other}, DownStarts(r) PROVE LeftInv'
  <2>1. Other \notin asked' => r # Other /\ Other \notin asked BY <1>0, <1>1, TookFromSession
  <2> QED BY <1>0, <1>1, <2>1, TookFromSession DEF LeftInv
<1>2. CASE DownEndsServing BY <1>0, <1>2, TookHold DEF LeftInv
<1>3. CASE DownCancels
  <2>1. ~late /\ Other \notin asked /\ tool.cancel # Nobody => tool.cancel \in asked BY DEF LeftInv
  <2> QED BY <1>0, <1>3, <2>1, TookCancel DEF LeftInv
<1>4. CASE DownConfirms \/ DownFails
  BY <1>0, <1>4, GaveBack DEF LeftInv, Idle
<1> QED BY <1>1, <1>2, <1>3, <1>4 DEF Down

LEMMA BringUpLeft ==
  ASSUME TeardownInv, LeftInv, NEW g \in Gens, BringUp(g)
  PROVE  LeftInv'
<1>0. up \in [Gens -> {"none", "renting", "serving", "cleaning", "failed", "returned",
                       "supervised", "reclaiming", "ended", "done"}]
      /\ CancelInv
  BY DEF TeardownInv, HoldInv, TypeOK
<1> USE Apart DEF session, Goes, LeftInv
<1>1. CASE Rents(g)         BY <1>0, <1>1 DEF Rents
<1>2. CASE RentFails(g)     BY <1>0, <1>2 DEF RentFails
<1>3. CASE Serves(g)        BY <1>0, <1>3 DEF Serves
<1>4. CASE ServeFails(g)    BY <1>0, <1>4 DEF ServeFails
<1>5. CASE Cleans(g)        BY <1>0, <1>5 DEF Cleans
<1>6. CASE Fail(g)          BY <1>0, <1>6 DEF Fail
<1>7. CASE Ready(g)         BY <1>0, <1>7 DEF Ready
<1>8. CASE SuperviseEnds(g) BY <1>0, <1>8 DEF SuperviseEnds
<1>9. CASE Reclaims(g)      BY <1>0, <1>9 DEF Reclaims
<1>10. CASE Finish(g)       BY <1>0, <1>10 DEF Finish
<1> QED BY <1>1, <1>2, <1>3, <1>4, <1>5, <1>6, <1>7, <1>8, <1>9, <1>10 DEF BringUp

LEMMA NextLeft == ASSUME TeardownInv, LeftInv, [Next]_vars PROVE LeftInv'
<1>0. HoldInv /\ CancelInv BY DEF TeardownInv
<1>1. CASE \E g \in Gens : BringUp(g)
  BY <1>1, BringUpLeft
<1>2. CASE Down \/ (\E r \in Gens \cup {Other} : DownStarts(r))
  BY <1>2, DownLeft
<1>3. ASSUME NEW g \in Gens, Up(g) PROVE LeftInv'
  <2>1. /\ tool.pc = "idle" /\ up[g] = "none" /\ cancel' = g /\ billing = {}
        /\ \A h \in Gens : up'[h] = IF h = g THEN "renting" ELSE up[h]
        /\ ~late' => ~late /\ \A h \in Gens : up[h] \in {"none", "done"}
        /\ UNCHANGED <<cancelled, hold, billing, tool, asked, kept>>
    BY <1>0, <1>3 DEF Up, Goes, InFlight, HoldInv, TypeOK
  <2> QED BY <1>0, <2>1 DEF LeftInv
<1>4. CASE Stop
  BY <1>0, <1>4 DEF Stop, LeftInv, CancelInv
<1>5. CASE OtherUp
  <2>1. /\ \A g \in Gens : g \in billing' <=> g \in billing
        /\ UNCHANGED <<up, cancelled, cancel, tool, late, asked, kept>>
    BY <1>5, SessionAssumption DEF OtherUp, session
  <2>2. cancel \in Gens \cup {Nobody} BY <1>0 DEF HoldInv, TypeOK
  <2> QED BY <2>1, <2>2 DEF LeftInv
<1>6. CASE UNCHANGED vars
  BY <1>6 DEF vars, session, LeftInv
<1> QED BY <1>1, <1>2, <1>3, <1>4, <1>5, <1>6 DEF Next

\* What a larri_down took out of the session, and what bills of the session's
\* rigs, for any number of bring-ups (StopForTeardown, Stop, Finish).
THEOREM TeardownInvariant == Spec => [](TeardownInv /\ LeftInv)
<1>1. Init => TeardownInv /\ LeftInv BY InitTeardown
<1>2. TeardownInv /\ LeftInv /\ [Next]_vars => (TeardownInv /\ LeftInv)' BY NextTeardown, NextLeft
<1> QED BY <1>1, <1>2, PTL DEF Spec

-----------------------------------------------------------------------------
(* The results                                                             *)

\* The model's types, for any number of bring-ups.
THEOREM SessionType == Spec => []TypeOK
<1>1. HoldInv => TypeOK BY DEF HoldInv
<1> QED BY <1>1, InvHolds, PTL

\* Whoever has a hold is still there to release it.
THEOREM HoldsReleased == Spec => []HoldHasOwner
<1>1. HoldInv => HoldHasOwner BY DEF HoldInv
<1> QED BY <1>1, InvHolds, PTL

\* From the moment a larri_down takes a serving rig, with its cancel, out of the
\* session until it is done, the rig is held: by its goroutine until the tool has
\* the hold, and no cancel is spent before that (StopForTeardown).
THEOREM HeldThroughTeardown == Spec => []TeardownHeld
<1>1. ASSUME TeardownInv PROVE TeardownHeld
  <2>1. TypeOK BY <1>1 DEF TeardownInv, HoldInv
  <2>2. tool.live \in Gens \cup {Nobody} /\ kept \subseteq Gens BY <2>1 DEF TypeOK
  <2>3. Nobody \notin billing BY <2>1, Apart DEF TypeOK
  <2> QED BY <1>1, <2>2, <2>3 DEF TeardownInv, TakenInv, TeardownHeld
<1> QED BY <1>1, TeardownInvariant, PTL

\* A goroutine leaves no rig of its own billing, unless a larri_down named the rig
\* or a teardown of it failed, while no bring-up began beside an older one's
\* goroutine and no larri_down was for another process's rig.
THEOREM LeavesOnlyIfAsked == Spec => []LeftOnlyIfAsked
<1>1. LeftInv => LeftOnlyIfAsked BY DEF LeftInv, LeftOnlyIfAsked
<1> QED BY <1>1, TeardownInvariant, PTL

=============================================================================
