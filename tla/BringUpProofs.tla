---------------------------- MODULE BringUpProofs ----------------------------
(***************************************************************************)
(* For every market, number of attempts and length of every wait: what a    *)
(* bring-up leaves billing, what it rents after a failure, what it bars,     *)
(* and how long a host that it gave up for silence had been silent.          *)
(***************************************************************************)
EXTENDS BringUp, TLAPS, SequenceTheorems

Serving == {"ssh", "pin", "checks", "ready"}
Over == {"failed", "served", "crashed", "hung"}
Phases == {"begin", "select", "create", "returned"} \cup Serving \cup Over

\* An offer is selected from the survey to the end of its attempt.
Selected == {"create", "failed", "served"} \cup Serving

AttemptTypeOK ==
  /\ phase \in Phases
  /\ attempt \in 0..MaxHostAttempts /\ (attempt = 0 <=> phase = "begin")
  /\ offer \in Offers \cup {NoOffer} /\ (phase \in Selected => offer \in Offers)
  /\ instance \in BOOLEAN
  /\ tried \in Seq(Offers) /\ (phase = "begin" => tried = <<>>)
  /\ failedModels \in [Models \X Operations -> Nat]

ClockTypeOK ==
  news \in Nat /\ line \in Nat /\ quiet \in Nat /\ reach \in Nat \cup {Unset}

-----------------------------------------------------------------------------
(* The host's part of an attempt                                           *)

\* The clocks a wait gives up by run no faster than the time since the host did
\* anything new: whatever restarts that time restarts them.
SilenceInv ==
  /\ ClockTypeOK
  /\ phase \in {"ssh", "ready"} => quiet <= news
  /\ phase = "ssh" => reach <= news
  /\ phase = "pin" => quiet <= line
  /\ SilenceBeforeGivingUp

SilenceOf(why) ==
  /\ why = "unreachable" => news > Unreachable
  /\ why = "stalled" => news > BootStall
  /\ why = "cold" => news > ColdLimit
  /\ why = "warm" => news > WarmLimit
  /\ why = "refused" => line >= AuthStall

\* A step of a wait either polls again, or begins the next wait, or ends the
\* attempt: as served, of an outage or a handshake, or of a fault.
Passing == phase' \in {"pin", "checks", "ready"} /\ fault' = fault /\ news' = 0 /\ line' = 0
           /\ quiet' = 0 /\ reach' = Unset
Ending ==
  /\ phase' \in Over /\ (phase' # "failed" => fault' = "none")
  /\ news' = news /\ line' = line /\ quiet' = 0 /\ reach' = Unset
Failing == phase' = "failed" => SilenceOf(fault')

LEMMA Limits ==
  {Deadline, BootStall, BootCap, Unreachable, Grace, AuthStall, AuthCap,
   ColdLimit, WarmLimit, ReadyCap, DeadPolls} \subseteq Nat \ {0}
BY BootAssumption

LEMMA InterruptedEnds ==
  ASSUME NEW cap, NEW why, Interrupted(cap, why), SilenceOf(why)
  PROVE  Ending /\ Failing
BY DEF Interrupted, GivesUp, Ends, FreshWait, Ending, Over, Failing, SilenceOf

LEMMA GivesUpEnds ==
  ASSUME NEW why, GivesUp(why), SilenceOf(why)
  PROVE  Ending /\ Failing
BY DEF GivesUp, Ends, FreshWait, Ending, Over, Failing, SilenceOf

LEMMA StartsPassing ==
  ASSUME NEW p \in {"pin", "checks", "ready"}, StartsWait(p)
  PROVE  Passing
BY DEF StartsWait, FreshWait, Passing

\* A poll that ends nothing keeps the clocks in order.
Polling ==
  /\ phase' = phase /\ fault' = fault /\ ClockTypeOK'
  /\ phase \in {"ssh", "ready"} => quiet' <= news'
  /\ phase = "ssh" => reach' <= news'
  /\ phase = "pin" => quiet' <= line'

ServeStep == Polling \/ Passing \/ (Ending /\ Failing)

LEMMA QueryFailsStep ==
  ASSUME SilenceInv, QueryFails
  PROVE  phase = "ssh" /\ ServeStep
<1>1. CASE spoke /\ Ends("crashed", "none")
  BY <1>1 DEF QueryFails, Ends, FreshWait, ServeStep, Ending, Over, Failing
<1>2. CASE ~spoke /\ Interrupted(BootCap, "never_usable")
  BY <1>2, InterruptedEnds DEF QueryFails, ServeStep, SilenceOf
<1>3. CASE ~spoke /\ PollsAgain(BootCap) /\ quiet' = quiet + 1 /\ reach' = Aged(reach) /\ news' = news + 1 /\ line' = line
  BY <1>3 DEF QueryFails, PollsAgain, Aged, Unset, SilenceInv, ClockTypeOK, Polling, ServeStep
<1> QED BY <1>1, <1>2, <1>3 DEF QueryFails

LEMMA ReportsStep ==
  ASSUME SilenceInv, NEW s \in Statuses, NEW changed \in BOOLEAN, NEW speaks \in BOOLEAN,
         NEW known \in BOOLEAN, NEW answers \in BOOLEAN,
         Reports(s, changed, speaks, known, answers)
  PROVE  phase = "ssh" /\ ServeStep
<1>0. phase = "ssh" /\ quiet \in Nat /\ news \in Nat /\ line \in Nat /\ quiet <= news
      /\ reach \in Nat \cup {Unset} /\ reach <= news /\ (reach # Unset => known)
  BY DEF Reports, SilenceInv, ClockTypeOK
<1>1. CASE GivesUp("offline") \/ GivesUp("abandoned")
  BY <1>0, <1>1, GivesUpEnds DEF ServeStep, SilenceOf
<1>2. CASE StartsWait("pin")
  BY <1>0, <1>2, StartsPassing DEF ServeStep
<1>3. CASE Since(reach) > Unreachable /\ GivesUp("unreachable")
  <2>1. news > Unreachable BY <1>0, <1>3, Limits DEF Since, Unset
  <2> QED BY <1>0, <1>3, <2>1, GivesUpEnds DEF ServeStep, SilenceOf
<1>4. CASE Past(changed, quiet) > StallLimit(s) /\ GivesUp("stalled")
  <2>1. StallLimit(s) \in Nat /\ StallLimit(s) >= BootStall BY Limits DEF StallLimit
  <2>2. news > BootStall BY <1>0, <1>4, <2>1, Limits DEF Past
  <2> QED BY <1>0, <1>4, <2>2, GivesUpEnds DEF ServeStep, SilenceOf
<1>5. CASE Interrupted(BootCap, "never_usable")
  BY <1>0, <1>5, InterruptedEnds DEF ServeStep, SilenceOf
<1>6. CASE PollsAgain(BootCap) /\ Restarts(changed, known) /\ news' = Past(changed, news) + 1 /\ line' = line
  BY <1>0, <1>6 DEF PollsAgain, Restarts, Past, Since, Unset, ClockTypeOK, Polling, ServeStep
<1> QED BY <1>0, <1>1, <1>2, <1>3, <1>4, <1>5, <1>6 DEF Reports

LEMMA WaitForSSHStep ==
  ASSUME SilenceInv, WaitForSSH
  PROVE  phase = "ssh" /\ ServeStep
<1>1. CASE Vanishes
  BY <1>1, GivesUpEnds DEF Vanishes, ServeStep, SilenceOf
<1> QED BY <1>1, QueryFailsStep, ReportsStep DEF WaitForSSH

LEMMA PinAndDialStep ==
  ASSUME SilenceInv, PinAndDial
  PROVE  phase = "pin" /\ ServeStep
<1>1. CASE HandshakeHangs
  BY <1>1 DEF HandshakeHangs, Ends, FreshWait, ServeStep, Ending, Over, Failing
<1>2. CASE Connects
  BY <1>2, StartsPassing DEF Connects, ServeStep
<1>3. CASE DialFails \/ AttachFails
  BY <1>3, GivesUpEnds DEF DialFails, AttachFails, ServeStep, SilenceOf
<1>4. ASSUME NEW attaches \in BOOLEAN, NEW changed \in BOOLEAN, NEW shown \in BOOLEAN,
             Retries(attaches, changed, shown)
      PROVE  phase = "pin" /\ ServeStep
  <2> DEFINE silent == Past(shown, quiet + 1)
  <2>1. /\ phase = "pin" /\ silent \in Nat /\ Past(changed, news + 1) \in Nat
        /\ Past(shown, line + 1) \in Nat /\ silent <= Past(shown, line + 1)
        /\ silent > AuthStall => line >= AuthStall
    BY <1>4, Limits DEF Retries, SilenceInv, ClockTypeOK, Past
  <2>2. CASE silent > AuthStall /\ Interrupted(0, "refused")
    BY <2>1, <2>2, InterruptedEnds DEF ServeStep, SilenceOf
  <2>3. CASE Interrupted(AuthCap, "unsettled")
    BY <2>1, <2>3, InterruptedEnds DEF ServeStep, SilenceOf
  <2>4. CASE /\ PollsAgain(AuthCap) /\ quiet' = silent /\ reach' = reach
             /\ news' = Past(changed, news + 1) /\ line' = Past(shown, line + 1)
    BY <2>1, <2>4 DEF PollsAgain, SilenceInv, ClockTypeOK, Polling, ServeStep
  <2> QED BY <1>4, <2>1, <2>2, <2>3, <2>4 DEF Retries
<1> QED BY <1>1, <1>2, <1>3, <1>4 DEF PinAndDial

LEMMA ChecksStep ==
  ASSUME SilenceInv, Checks
  PROVE  phase = "checks" /\ ServeStep
<1>1. ASSUME NEW why \in {"unfit", "unlaunchable", "journal", "deadline", "interrupted"}, GivesUp(why)
      PROVE  Ending /\ Failing
  BY <1>1, GivesUpEnds DEF SilenceOf
<1> QED BY <1>1, StartsPassing DEF Checks, ServeStep

LEMMA PollsStep ==
  ASSUME SilenceInv, NEW heard \in BOOLEAN, NEW grew \in BOOLEAN, NEW counts \in BOOLEAN,
         NEW works \in BOOLEAN, NEW alive \in BOOLEAN, Polls(heard, grew, counts, works, alive)
  PROVE  phase = "ready" /\ ServeStep
<1> DEFINE news1 == grew \/ (works /\ counted)
           idle == Past(news1, quiet)
<1>0. phase = "ready" /\ quiet \in Nat /\ news \in Nat /\ line \in Nat /\ quiet <= news
      /\ reach \in Nat \cup {Unset} /\ idle \in Nat /\ idle <= Past(news1, news) /\ Past(news1, news) \in Nat
      /\ \A limit \in Nat : idle > limit => news > limit
  BY DEF Polls, SilenceInv, ClockTypeOK, Past
<1>1. CASE GivesUp("lost") \/ GivesUp("exited")
  BY <1>0, <1>1, GivesUpEnds DEF ServeStep, SilenceOf
<1>2. CASE idle > ColdLimit /\ GivesUp("cold")
  <2>1. news > ColdLimit BY <1>0, <1>2, Limits
  <2> QED BY <1>0, <1>2, <2>1, GivesUpEnds DEF ServeStep, SilenceOf
<1>3. CASE idle > WarmLimit /\ GivesUp("warm")
  <2>1. news > WarmLimit BY <1>0, <1>3, Limits
  <2> QED BY <1>0, <1>3, <2>1, GivesUpEnds DEF ServeStep, SilenceOf
<1>4. CASE Interrupted(ReadyCap, "not_ready")
  BY <1>0, <1>4, InterruptedEnds DEF ServeStep, SilenceOf
<1>5. CASE /\ PollsAgain(ReadyCap) /\ quiet' = idle + 1 /\ news' = Past(news1, news) + 1
           /\ line' = line /\ reach' = reach
  <2> HIDE DEF idle, news1
  <2> QED BY <1>0, <1>5 DEF PollsAgain, ClockTypeOK, Polling, ServeStep
<1> QED BY <1>0, <1>1, <1>2, <1>3, <1>4, <1>5 DEF Polls

LEMMA WaitReadyStep ==
  ASSUME SilenceInv, WaitReady
  PROVE  phase = "ready" /\ ServeStep
<1>1. CASE Completes
  BY <1>1 DEF Completes, Ends, FreshWait, ServeStep, Ending, Over, Failing
<1> QED BY <1>1, PollsStep DEF WaitReady

\* What a step of the attempt's own loops and checks can do (Serve).
LEMMA ServeSteps ==
  ASSUME SilenceInv, Serve
  PROVE  phase \in Serving /\ ServeStep
BY WaitForSSHStep, PinAndDialStep, ChecksStep, WaitReadyStep DEF Serve, Serving

-----------------------------------------------------------------------------
(* The attempts                                                            *)

\* Nothing bills before an attempt's create, and what then does is the attempt's.
BillingInv ==
  /\ OneMachineBilling
  /\ phase \in {"begin", "select", "create"} => billing = {}
  /\ phase = "served" => fault = "none"

Barred(o) == IF MachineOf[o] # NoMachine THEN MachineOf[o] \in excludedMachines ELSE o \in excludedOffers

\* What failed is barred, and nothing else but the offers carried over.
BarredInv ==
  /\ attempt = 0 => excludedOffers = carried
  /\ attempt > 0 =>
       /\ \A o \in excludedOffers \ carried : \E i \in DOMAIN tried : tried[i] = o
       /\ \A i \in DOMAIN tried : Barred(tried[i])
       /\ \A m \in excludedMachines : \E i \in DOMAIN tried : MachineOf[tried[i]] = m

\* The offer of an attempt is of another machine than every offer before it.
FreshInv ==
  /\ \A i, j \in DOMAIN tried : Source(tried[i]) = Source(tried[j]) => i = j
  /\ phase \in Selected => \A i \in DOMAIN tried : Source(tried[i]) # Source(offer)

\* A strike against a model is a host of that model that failed.
StrikesInv ==
  \A k \in Models \X Operations :
    /\ failedModels[k] >= 1 => \E i \in DOMAIN tried : ModelOf[tried[i]] = k[1]
    /\ failedModels[k] >= 2 =>
         \E i, j \in DOMAIN tried : i # j /\ ModelOf[tried[i]] = k[1] /\ ModelOf[tried[j]] = k[1]

PoolInv == BarredInv /\ FreshInv /\ StrikesInv

BringUpInv == AttemptTypeOK /\ SilenceInv /\ BillingInv /\ PoolInv

LEMMA Bounds == MaxHostAttempts \in Nat \ {0} /\ NoOffer \notin Offers
BY BringUpAssumption

LEMMA InitInv == Init => BringUpInv
<1> SUFFICES ASSUME Init PROVE BringUpInv OBVIOUS
<1>1. AttemptTypeOK
  <2>1. failedModels \in [Models \X Operations -> Nat] BY DEF Init, NoStrikes
  <2>2. phase = "begin" /\ phase \in Phases /\ phase \notin Selected
    BY DEF Init, Phases, Selected, Serving, Over
  <2>3. tried = <<>> BY DEF Init
  <2>4. tried \in Seq(Offers) BY <2>3
  <2>5. attempt = 0 /\ offer = NoOffer /\ instance = FALSE BY DEF Init
  <2>6. attempt \in 0..MaxHostAttempts BY <2>5, Bounds
  <2> QED BY <2>1, <2>2, <2>3, <2>4, <2>5, <2>6 DEF AttemptTypeOK
<1>2. SilenceInv BY DEF Init, SilenceInv, ClockTypeOK, SilenceBeforeGivingUp
<1>3. BillingInv BY DEF Init, BillingInv, OneMachineBilling
<1>4. BarredInv /\ FreshInv BY DEF Init, BarredInv, FreshInv, Selected, Serving
<1>5. StrikesInv BY DEF Init, NoStrikes, StrikesInv
<1> QED BY <1>1, <1>2, <1>3, <1>4, <1>5 DEF BringUpInv, PoolInv

LEMMA BeginStep == ASSUME BringUpInv, Begin PROVE BringUpInv'
<1>0. /\ phase = "begin" /\ phase' \in {"select", "returned"} /\ attempt' = 1
      /\ excludedMachines' = {} /\ failedModels' = NoStrikes /\ tried = <<>> /\ billing = {}
      /\ excludedOffers = carried
      /\ UNCHANGED <<waits, fault, offer, instance, excludedOffers, tried, carried, billing>>
  BY DEF Begin, BringUpInv, AttemptTypeOK, BillingInv, PoolInv, BarredInv
<1>1. AttemptTypeOK'
  BY <1>0, Bounds DEF BringUpInv, AttemptTypeOK, Phases, Selected, Serving, NoStrikes
<1>2. SilenceInv'
  BY <1>0 DEF BringUpInv, SilenceInv, ClockTypeOK, SilenceBeforeGivingUp, waits
<1>3. BillingInv' BY <1>0 DEF BillingInv, OneMachineBilling
<1>4. BarredInv' /\ FreshInv' BY <1>0 DEF BarredInv, FreshInv, Selected, Serving
<1>5. StrikesInv' BY <1>0 DEF NoStrikes, StrikesInv
<1> QED BY <1>1, <1>2, <1>3, <1>4, <1>5 DEF BringUpInv, PoolInv

\* Most steps leave what failed as it is: the offer stays, or is not looked at
\* again.
LEMMA PoolStays ==
  ASSUME PoolInv, UNCHANGED pool, attempt > 0, attempt' > 0,
         phase' \in Selected => phase \in Selected /\ offer' = offer
  PROVE  PoolInv'
<1>1. BarredInv' BY DEF PoolInv, BarredInv, Barred, pool
<1>2. FreshInv' BY DEF PoolInv, FreshInv, pool
<1>3. StrikesInv' BY DEF PoolInv, StrikesInv, pool
<1> QED BY <1>1, <1>2, <1>3 DEF PoolInv

LEMMA Untried ==
  ASSUME PoolInv, attempt > 0, NEW market \in SUBSET Offers,
         NEW o \in withoutRetired(withoutTried(market)), tried \in Seq(Offers)
  PROVE  o \in Offers /\ \A i \in DOMAIN tried : Source(tried[i]) # Source(o)
<1>1. o \in withoutTried(market) BY DEF withoutRetired
<1>2. o \in Offers /\ MachineOf[o] \notin excludedMachines /\ o \notin excludedOffers
  BY <1>1 DEF withoutTried
<1>3. ASSUME NEW i \in DOMAIN tried, Source(tried[i]) = Source(o) PROVE FALSE
  <2>1. Barred(tried[i]) BY DEF PoolInv, BarredInv
  <2>2. CASE MachineOf[tried[i]] = NoMachine
    <3>1. MachineOf[o] = NoMachine /\ tried[i] = o BY <1>3, <2>2 DEF Source
    <3> QED BY <1>2, <2>1, <2>2, <3>1 DEF Barred
  <2>3. CASE MachineOf[tried[i]] # NoMachine
    <3>1. MachineOf[o] = MachineOf[tried[i]] BY <1>3, <2>3 DEF Source
    <3> QED BY <1>2, <2>1, <2>3, <3>1 DEF Barred
  <2> QED BY <2>2, <2>3
<1> QED BY <1>2, <1>3

LEMMA SurveyStep == ASSUME BringUpInv, Survey PROVE BringUpInv'
<1>0. /\ phase = "select" /\ fault' = "none" /\ instance' = FALSE
      /\ \/ phase' = "returned" /\ offer' = NoOffer
         \/ /\ phase' = "create"
            /\ \E market \in SUBSET Offers : offer' \in withoutRetired(withoutTried(market))
      /\ UNCHANGED <<waits, attempt, pool, billing>>
      /\ billing = {} /\ attempt > 0 /\ attempt \in Nat /\ tried \in Seq(Offers)
  BY Bounds DEF Survey, BringUpInv, AttemptTypeOK, BillingInv
<1>1. phase' = "create" => offer' \in Offers /\ \A i \in DOMAIN tried : Source(tried[i]) # Source(offer')
  BY <1>0, Untried DEF BringUpInv
<1>2. AttemptTypeOK'
  BY <1>0, <1>1, Bounds DEF BringUpInv, AttemptTypeOK, Phases, Selected, Serving, pool
<1>3. SilenceInv'
  BY <1>0 DEF BringUpInv, SilenceInv, ClockTypeOK, SilenceBeforeGivingUp, waits
<1>4. BillingInv' BY <1>0 DEF BillingInv, OneMachineBilling
<1>5. PoolInv'
  <2>1. BarredInv' BY <1>0 DEF BringUpInv, PoolInv, BarredInv, Barred, pool
  <2>2. FreshInv'
    BY <1>0, <1>1 DEF BringUpInv, PoolInv, FreshInv, pool, Selected, Serving
  <2>3. StrikesInv' BY <1>0 DEF BringUpInv, PoolInv, StrikesInv, pool
  <2> QED BY <2>1, <2>2, <2>3 DEF PoolInv
<1> QED BY <1>2, <1>3, <1>4, <1>5 DEF BringUpInv

LEMMA GivenUp ==
  ASSUME NEW why, GivesUp(why)
  PROVE  phase' = "failed" /\ fault' = why /\ news' = news /\ line' = line /\ quiet' = 0 /\ reach' = Unset
BY DEF GivesUp, Ends, FreshWait

LEMMA Started ==
  ASSUME NEW p, StartsWait(p)
  PROVE  phase' = p /\ fault' = fault /\ news' = 0 /\ line' = 0 /\ quiet' = 0 /\ reach' = Unset
BY DEF StartsWait, FreshWait

LEMMA CreatedStep == ASSUME BringUpInv, Created PROVE BringUpInv'
<1>0. /\ phase = "create" /\ instance' = TRUE /\ billing = {} /\ billing' = {attempt}
      /\ UNCHANGED <<attempt, offer, pool>> /\ attempt > 0 /\ attempt \in Nat
  BY Bounds DEF Created, BringUpInv, BillingInv, AttemptTypeOK
<1>1. /\ phase' = "ssh" \/ (phase' = "failed" /\ SilenceOf(fault'))
      /\ ClockTypeOK' /\ (phase' = "ssh" => news' = 0 /\ line' = 0 /\ quiet' = 0 /\ reach' = Unset)
  BY GivenUp, Started DEF Created, SilenceOf, BringUpInv, SilenceInv, ClockTypeOK
<1>2. AttemptTypeOK'
  BY <1>0, <1>1 DEF BringUpInv, AttemptTypeOK, Phases, Selected, Serving, Over, pool
<1>3. SilenceInv' 
  <2>1. phase' = "failed" => news' = news /\ line' = line BY GivenUp, Started DEF Created
  <2> QED BY <1>1, <2>1 DEF SilenceInv, ClockTypeOK, SilenceBeforeGivingUp, SilenceOf, Unset
<1>4. BillingInv' BY <1>0, <1>1 DEF BillingInv, OneMachineBilling
<1>5. PoolInv'
  BY <1>0, <1>1, PoolStays DEF BringUpInv, Selected, Serving
<1> QED BY <1>2, <1>3, <1>4, <1>5 DEF BringUpInv

LEMMA CreateFailsStep ==
  ASSUME BringUpInv, NEW why \in {"create", "unknown_create", "other_create", "not_sent"},
         NEW landed \in BOOLEAN, NEW asked \in BOOLEAN, NEW listed \in BOOLEAN,
         CreateFails(why, landed, asked, listed)
  PROVE  BringUpInv'
<1>0. /\ phase = "create" /\ phase' = "failed" /\ news' = news /\ line' = line
      /\ quiet' = 0 /\ reach' = Unset /\ instance' = listed /\ billing = {}
      /\ UNCHANGED <<attempt, offer, pool>> /\ attempt > 0 /\ attempt \in Nat
  <2>1. phase = "create" /\ billing = {} /\ attempt > 0 /\ attempt \in Nat
    BY Bounds DEF CreateFails, BringUpInv, BillingInv, AttemptTypeOK
  <2>2. \E w : GivesUp(w) BY DEF CreateFails
  <2>3. instance' = listed /\ UNCHANGED <<attempt, offer, pool>> BY DEF CreateFails
  <2> QED BY <2>1, <2>2, <2>3, GivenUp
<1>1. billing' # {} => billing' = {attempt} /\ listed
  BY <1>0 DEF CreateFails
<1>2. fault' \in {"create", "unknown_create", "other_create", "deadline"}
  BY GivenUp DEF CreateFails
<1>3. AttemptTypeOK'
  BY <1>0 DEF BringUpInv, AttemptTypeOK, Phases, Selected, Serving, Over, pool
<1>4. SilenceInv'
  BY <1>0, <1>2 DEF BringUpInv, SilenceInv, ClockTypeOK, SilenceBeforeGivingUp
<1>5. BillingInv' BY <1>0, <1>1 DEF BillingInv, OneMachineBilling
<1>6. PoolInv' BY <1>0, PoolStays DEF BringUpInv, Selected
<1> QED BY <1>3, <1>4, <1>5, <1>6 DEF BringUpInv

LEMMA ServesStep == ASSUME BringUpInv, Serves PROVE BringUpInv'
<1>0. /\ phase \in Serving /\ ServeStep
      /\ UNCHANGED <<attempt, offer, instance, pool, billing>>
      /\ attempt > 0 /\ attempt \in Nat
  BY ServeSteps, Bounds DEF Serves, BringUpInv, AttemptTypeOK, Serving
<1>1. /\ phase' \in Serving \cup Over
      /\ phase' = "served" => fault' = "none"
  BY <1>0 DEF ServeStep, Polling, Passing, Ending, Serving
<1>2. AttemptTypeOK'
  BY <1>0, <1>1 DEF BringUpInv, AttemptTypeOK, Phases, Selected, Serving, Over, pool
<1>3. SilenceInv'
  <2>1. CASE Polling
    BY <1>0, <2>1 DEF Polling, SilenceInv, SilenceBeforeGivingUp, Serving
  <2>2. CASE Passing
    BY <2>2 DEF Passing, SilenceInv, ClockTypeOK, SilenceBeforeGivingUp, Unset
  <2>3. CASE Ending /\ Failing
    BY <2>3 DEF Ending, Over, Failing, SilenceOf, BringUpInv, SilenceInv, ClockTypeOK, SilenceBeforeGivingUp
  <2> QED BY <1>0, <2>1, <2>2, <2>3 DEF ServeStep
<1>4. BillingInv'
  BY <1>0, <1>1 DEF BringUpInv, BillingInv, OneMachineBilling, Serving, Over
<1>5. PoolInv'
  BY <1>0, PoolStays DEF BringUpInv, Selected
<1> QED BY <1>2, <1>3, <1>4, <1>5 DEF BringUpInv

\* One more offer that failed: the log of what failed is one longer.
LEMMA OneMoreTried ==
  ASSUME NEW s \in Seq(Offers), NEW o \in Offers, NEW t, t = Append(s, o)
  PROVE  /\ t \in Seq(Offers) /\ Len(s) \in Nat
         /\ DOMAIN s = 1..Len(s) /\ DOMAIN t = DOMAIN s \cup {Len(s) + 1}
         /\ Len(s) + 1 \notin DOMAIN s
         /\ t[Len(s) + 1] = o /\ \A i \in DOMAIN s : t[i] = s[i]
<1>1. Len(s) \in Nat /\ DOMAIN s = 1..Len(s) OBVIOUS
<1>2. t \in Seq(Offers) /\ Len(t) = Len(s) + 1 /\ DOMAIN t = 1..Len(t) BY AppendProperties
<1>3. DOMAIN t = DOMAIN s \cup {Len(s) + 1} /\ Len(s) + 1 \notin DOMAIN s BY <1>1, <1>2
<1>4. t[Len(s) + 1] = o /\ \A i \in 1..Len(s) : t[i] = s[i] BY AppendProperties
<1> QED BY <1>1, <1>2, <1>3, <1>4

LEMMA OneMoreStrike ==
  ASSUME NEW S, NEW f \in [S -> Nat], NEW k
  PROVE  [f EXCEPT ![k] = @ + 1] \in [S -> Nat]
<1> DEFINE g == [f EXCEPT ![k] = @ + 1]
<1>1. g = [x \in S |-> IF x = k THEN f[x] + 1 ELSE f[x]] OBVIOUS
<1>2. \A x \in S : f[x] \in Nat OBVIOUS
<1> HIDE DEF g
<1>3. g \in [S -> Nat] BY <1>1, <1>2
<1> QED BY <1>3 DEF g

\* A failure of the host: what failed is barred and counted.
LEMMA ExcludedPool ==
  ASSUME AttemptTypeOK, PoolInv, phase = "failed", attempt > 0, attempt' > 0,
         phase' \notin Selected, excludeFailed
  PROVE  PoolInv'
<1> DEFINE n == Len(tried) + 1
           key == <<ModelOf[offer], Faults[fault]>>
<1>0. offer \in Offers /\ tried \in Seq(Offers) /\ phase \in Selected
      /\ failedModels \in [Models \X Operations -> Nat]
  BY DEF AttemptTypeOK, Selected
<1>1. /\ DOMAIN tried' = DOMAIN tried \cup {n} /\ n \notin DOMAIN tried
      /\ tried'[n] = offer /\ \A i \in DOMAIN tried : tried'[i] = tried[i]
  <2>1. tried' = Append(tried, offer) BY DEF excludeFailed
  <2> QED BY <1>0, <2>1, OneMoreTried
<1> HIDE DEF n
<1>2. BarredInv'
  <2>1. CASE MachineOf[offer] # NoMachine
    <3>1. excludedMachines' = excludedMachines \cup {MachineOf[offer]} /\ excludedOffers' = excludedOffers
         /\ carried' = carried
      BY <2>1 DEF excludeFailed
    <3> QED BY <1>1, <2>1, <3>1 DEF PoolInv, BarredInv, Barred
  <2>2. CASE MachineOf[offer] = NoMachine
    <3>1. excludedOffers' = excludedOffers \cup {offer} /\ excludedMachines' = excludedMachines
         /\ carried' = carried
      BY <2>2 DEF excludeFailed
    <3> QED BY <1>1, <2>2, <3>1 DEF PoolInv, BarredInv, Barred
  <2> QED BY <2>1, <2>2
<1>3. FreshInv'
  <2>1. \A i \in DOMAIN tried : Source(tried[i]) # Source(offer) BY <1>0 DEF PoolInv, FreshInv
  <2>2. \A i, j \in DOMAIN tried : Source(tried[i]) = Source(tried[j]) => i = j
    BY DEF PoolInv, FreshInv
  <2>3. \A i, j \in DOMAIN tried' : Source(tried'[i]) = Source(tried'[j]) => i = j
    BY <1>1, <2>1, <2>2
  <2> QED BY <2>3 DEF FreshInv, Source
<1>4. StrikesInv'
  <2> SUFFICES ASSUME NEW k \in Models \X Operations
               PROVE  /\ failedModels'[k] >= 1 => \E i \in DOMAIN tried' : ModelOf[tried'[i]] = k[1]
                      /\ failedModels'[k] >= 2 =>
                           \E i, j \in DOMAIN tried' :
                             i # j /\ ModelOf[tried'[i]] = k[1] /\ ModelOf[tried'[j]] = k[1]
    BY DEF StrikesInv
  <2>1. failedModels[k] \in Nat BY <1>0
  <2>2. /\ failedModels[k] >= 1 => \E i \in DOMAIN tried : ModelOf[tried[i]] = k[1]
        /\ failedModels[k] >= 2 =>
             \E i, j \in DOMAIN tried : i # j /\ ModelOf[tried[i]] = k[1] /\ ModelOf[tried[j]] = k[1]
    BY DEF PoolInv, StrikesInv
  <2>3. failedModels'[k] = IF k = key THEN failedModels[k] + 1 ELSE failedModels[k]
    BY <1>0 DEF excludeFailed
  <2>4. k = key => k[1] = ModelOf[offer] OBVIOUS
  <2> HIDE DEF key
  <2>5. CASE k = key
    <3>1. ModelOf[tried'[n]] = k[1] /\ n \in DOMAIN tried' BY <1>1, <2>4, <2>5
    <3>2. failedModels'[k] >= 2 => failedModels[k] >= 1 BY <2>1, <2>3, <2>5
    <3>3. failedModels[k] >= 1 =>
            \E i, j \in DOMAIN tried' : i # j /\ ModelOf[tried'[i]] = k[1] /\ ModelOf[tried'[j]] = k[1]
      BY <1>1, <2>2, <3>1
    <3> QED BY <3>1, <3>2, <3>3
  <2>6. CASE k # key
    BY <1>1, <2>2, <2>3, <2>6
  <2> QED BY <2>5, <2>6
<1> QED BY <1>2, <1>3, <1>4 DEF PoolInv

LEMMA FailsStep == ASSUME BringUpInv, Fails PROVE BringUpInv'
<1>0. /\ phase = "failed" /\ attempt \in 1..MaxHostAttempts /\ offer \in Offers
      /\ \A a \in billing : a = attempt /\ instance
      /\ billing' = (IF instance THEN billing \ {attempt} ELSE billing)
      /\ UNCHANGED <<offer, instance>>
      /\ tried \in Seq(Offers) /\ failedModels \in [Models \X Operations -> Nat]
  BY DEF Fails, teardownAfterFailure, BringUpInv, AttemptTypeOK, Selected, BillingInv, OneMachineBilling
<1>1. billing' = {} BY <1>0
<1>2. /\ phase' \in {"select", "returned"} /\ attempt' \in 1..MaxHostAttempts
      /\ news' = 0 /\ line' = 0 /\ quiet' = 0 /\ reach' = Unset
  <2>1. CASE attempt < MaxHostAttempts /\ StartsWait("select") /\ attempt' = attempt + 1
    <3>1. attempt' \in 1..MaxHostAttempts BY <1>0, <2>1, Bounds
    <3> QED BY <2>1, <3>1, Started
  <2>2. CASE StartsWait("returned") /\ UNCHANGED attempt BY <1>0, <2>2, Started
  <2> QED BY <2>1, <2>2 DEF Fails
<1>3. excludeFailed \/ UNCHANGED pool BY DEF Fails
<1>4. tried' \in Seq(Offers) /\ failedModels' \in [Models \X Operations -> Nat]
  <2>1. CASE excludeFailed
    <3>1. tried' \in Seq(Offers) BY <1>0, <2>1, OneMoreTried DEF excludeFailed
    <3>2. failedModels' = [failedModels EXCEPT ![<<ModelOf[offer], Faults[fault]>>] = @ + 1]
      BY <2>1 DEF excludeFailed
    <3>3. failedModels' \in [Models \X Operations -> Nat] BY <1>0, <3>2, OneMoreStrike
    <3> QED BY <3>1, <3>3
  <2>2. CASE UNCHANGED pool BY <1>0, <2>2 DEF pool
  <2> QED BY <1>3, <2>1, <2>2
<1>5. AttemptTypeOK'
  BY <1>0, <1>2, <1>4, Bounds DEF BringUpInv, AttemptTypeOK, Phases, Selected, Serving
<1>6. SilenceInv' BY <1>2 DEF SilenceInv, ClockTypeOK, SilenceBeforeGivingUp
<1>7. BillingInv' BY <1>1, <1>2 DEF BillingInv, OneMachineBilling
<1>8. PoolInv'
  <2>1. attempt > 0 /\ attempt' > 0 /\ phase' \notin Selected BY <1>0, <1>2, Bounds DEF Selected, Serving
  <2>2. CASE excludeFailed BY <1>0, <2>1, <2>2, ExcludedPool DEF BringUpInv
  <2>3. CASE UNCHANGED pool BY <2>1, <2>3, PoolStays DEF BringUpInv
  <2> QED BY <1>3, <2>2, <2>3
<1> QED BY <1>5, <1>6, <1>7, <1>8 DEF BringUpInv

LEMMA ReturnsStep == ASSUME BringUpInv, Returns PROVE BringUpInv'
<1>0. /\ phase = "served" /\ phase' = "returned" /\ fault = "none" /\ fault' = "none"
      /\ news' = 0 /\ line' = 0 /\ quiet' = 0 /\ reach' = Unset
      /\ UNCHANGED <<attempt, offer, instance, pool, billing>> /\ attempt > 0 /\ attempt \in Nat
  BY Started, Bounds DEF Returns, BringUpInv, BillingInv, AttemptTypeOK
<1>1. AttemptTypeOK'
  BY <1>0 DEF BringUpInv, AttemptTypeOK, Phases, Selected, Serving, pool
<1>2. SilenceInv' BY <1>0 DEF SilenceInv, ClockTypeOK, SilenceBeforeGivingUp
<1>3. BillingInv' BY <1>0 DEF BringUpInv, BillingInv, OneMachineBilling
<1>4. PoolInv' BY <1>0, PoolStays DEF BringUpInv, Selected, Serving
<1> QED BY <1>1, <1>2, <1>3, <1>4 DEF BringUpInv

LEMMA NextInv == ASSUME BringUpInv, [Next]_vars PROVE BringUpInv'
<1>1. CASE UNCHANGED vars
  BY <1>1 DEF vars, boot, waits, pool, BringUpInv, AttemptTypeOK, SilenceInv, ClockTypeOK,
     SilenceBeforeGivingUp, BillingInv, OneMachineBilling, PoolInv, BarredInv, Barred, FreshInv,
     Source, StrikesInv
<1> QED
  BY <1>1, BeginStep, SurveyStep, CreatedStep, CreateFailsStep, ServesStep, FailsStep, ReturnsStep
  DEF Next, Create

\* The bring-up's invariant: what is billing is the attempt's own, what failed
\* is barred and nothing else is, the offer in hand is not among it, and the
\* clocks a wait gives up by run no faster than the host's silence (UpAndServe
\* and Serve).
THEOREM BringUpInvariant == Spec => []BringUpInv
<1>1. Init => BringUpInv BY InitInv
<1>2. BringUpInv /\ [Next]_vars => BringUpInv' BY NextInv
<1> QED BY <1>1, <1>2, PTL DEF Spec

\* Each attempt of UpAndServe pays for its own machine and no other, whatever a
\* create that failed had made and however often the bring-up falls back.
THEOREM PaysForOneMachine == Spec => []OneMachineBilling
<1>1. BringUpInv => OneMachineBilling BY DEF BringUpInv, BillingInv
<1> QED BY <1>1, BringUpInvariant, PTL

\* A fallback never rents a machine, or a listing that names none, that failed
\* before in the same bring-up (withoutTried and excludeFailed).
THEOREM RentsNoMachineTwice == Spec => []NoMachineTwice
<1>1. BringUpInv => NoMachineTwice
  BY DEF BringUpInv, PoolInv, FreshInv, NoMachineTwice, Selected, Serving
<1> QED BY <1>1, BringUpInvariant, PTL

\* Nothing is barred without cause: a machine failed in this bring-up, two hosts
\* of a retired model did, and an offer did in this or an earlier one of the
\* orchestrator (excludeFailed, failedModels, modelStrikes and UpAndServe's reset).
THEOREM BarsForCause == Spec => []BarredForCause
<1>1. ASSUME BringUpInv PROVE BarredForCause
  <2>1. ASSUME NEW m \in retiredModels
        PROVE  \E i, j \in DOMAIN tried : i # j /\ ModelOf[tried[i]] = m /\ ModelOf[tried[j]] = m
    <3>1. PICK op \in Operations : failedModels[<<m, op>>] >= 2 /\ m \in Models
      BY <2>1 DEF retiredModels, modelStrikes
    <3>2. <<m, op>> \in Models \X Operations /\ <<m, op>>[1] = m BY <3>1
    <3> QED BY <1>1, <3>1, <3>2 DEF BringUpInv, PoolInv, StrikesInv
  <2>2. attempt > 0 =>
          /\ \A o \in excludedOffers \ carried : \E i \in DOMAIN tried : tried[i] = o
          /\ \A m \in excludedMachines : \E i \in DOMAIN tried : MachineOf[tried[i]] = m
    BY <1>1 DEF BringUpInv, PoolInv, BarredInv
  <2> QED BY <2>1, <2>2 DEF BarredForCause
<1> QED BY <1>1, BringUpInvariant, PTL

\* A host is given up for silence only when what the wait looks at had been the
\* same for the whole limit, for every length of the waits and every order of
\* what the provider and the host report (waitForSSH, pinAndDial's displayed
\* line, waitReady).
THEOREM GivesUpOnSilence == Spec => []SilenceBeforeGivingUp
<1>1. BringUpInv => SilenceBeforeGivingUp BY DEF BringUpInv, SilenceInv
<1> QED BY <1>1, BringUpInvariant, PTL

=============================================================================
