-------------------------------- MODULE Boot --------------------------------
(***************************************************************************)
(* One rented host on its way to READY: the three waits of Serve (sshd, the *)
(* rig key, a completion) and the checks and the launch between them.  A    *)
(* wait polls, keeps clocks of its own and gives up on silence, or at its   *)
(* cap, or at the deadline of the whole attempt.  A unit of time is one     *)
(* poll; the calls of a poll take none.  Clocks read the time since.        *)
(***************************************************************************)
EXTENDS Integers

CONSTANTS
  Deadline,                                \* of the attempt
  BootStall, BootCap, Unreachable, Grace,  \* waitForSSH
  AuthStall, AuthCap,                      \* pinAndDial
  ColdLimit, WarmLimit, ReadyCap,          \* waitReady
  DeadPolls                                \* polls without an answer that mean a lost connection

ASSUME BootAssumption ==
  {Deadline, BootStall, BootCap, Unreachable, Grace, AuthStall, AuthCap,
   ColdLimit, WarmLimit, ReadyCap, DeadPolls} \subseteq Nat \ {0}

VARIABLES
  phase,     \* where the attempt is
  spent,     \* since the attempt began
  age,       \* since the wait began
  quiet,     \* since the last sign of progress the wait saw
  reach,     \* waitForSSH: since the endpoint was published, or progress after that
  offline,   \* waitForSSH: since the host was first reported offline
  spoke,     \* the provider's status has a message; the runtime's log has a line
  status,    \* the provider's last report
  attached,  \* pinAndDial: the key was attached through the provider
  counted,   \* waitReady: the last counters were read
  dead,      \* waitReady: polls in a row without any answer
  fault,     \* what the attempt failed of
  news,      \* observer: since the host last did anything new that can be seen
  line       \* observer, of pinAndDial: since the line displayed of it last changed

waits == <<age, quiet, reach, offline, spoke, status, attached, counted, dead, news, line>>
boot == <<phase, spent, waits, fault>>

Unset == -1
Statuses == {"pending", "running", "offline", "abandoned"}
Aged(clock) == IF clock = Unset THEN Unset ELSE clock + 1
Since(clock) == IF clock = Unset THEN 0 ELSE clock
Past(p, q) == IF p THEN 0 ELSE q

\* The operation each fault is an error of, and whether its class blames the
\* host: a vanished instance is an unknown outcome, a model, a port or a journal
\* that would fail with any host blames none, and a caller's stop has no class.
Faults ==
  [vanished |-> "waitForSSH", offline |-> "waitForSSH", abandoned |-> "waitForSSH",
   unreachable |-> "waitForSSH", stalled |-> "waitForSSH", never_usable |-> "waitForSSH",
   attach |-> "pinAndDial", refused |-> "pinAndDial", unsettled |-> "pinAndDial",
   dial |-> "Dial", unfit |-> "checks", unlaunchable |-> "checks",
   lost |-> "waitReady", exited |-> "waitReady", cold |-> "waitReady", warm |-> "waitReady",
   not_ready |-> "waitReady", deadline |-> "attempt", interrupted |-> "none",
   create |-> "Create", unknown_create |-> "Create", other_create |-> "Create",
   journal |-> "none"]
NotTheHosts == {"vanished", "unlaunchable", "journal", "interrupted",
                "unknown_create", "other_create"}

\* The clocks and counts of a wait are its own: they start with it and go with it.
FreshWait(p) ==
  /\ phase' = p /\ age' = 0 /\ quiet' = 0 /\ reach' = Unset /\ offline' = Unset
  /\ spoke' = FALSE /\ status' = "none" /\ attached' = FALSE /\ dead' = 0
  /\ counted' \in (IF p = "ready" THEN BOOLEAN ELSE {FALSE})

StartsWait(p) == FreshWait(p) /\ news' = 0 /\ line' = 0 /\ UNCHANGED <<spent, fault>>

\* The attempt is over, one way or the other.
Ends(p, why) == FreshWait(p) /\ spent' = 0 /\ fault' = why /\ UNCHANGED <<news, line>>
GivesUp(why) == Ends("failed", why)

\* The pause between two polls may find the caller gone, the attempt's deadline
\* passed, or the wait's cap.
Interrupted(cap, why) ==
  \/ GivesUp("interrupted")
  \/ spent + 1 >= Deadline /\ GivesUp("deadline")
  \/ spent + 1 < Deadline /\ age + 1 >= cap /\ GivesUp(why)

\* Mutant of PollsAgain: the deadline and the cap are taken anew at every poll.
PollsAgainAfresh(cap) == UNCHANGED <<spent, age, phase, fault>>

PollsAgain(cap) ==
  /\ spent + 1 < Deadline /\ age + 1 < cap
  /\ spent' = spent + 1 /\ age' = age + 1 /\ UNCHANGED <<phase, fault>>

-----------------------------------------------------------------------------
(* waitForSSH                                                              *)

\* A status query that fails is to be asked again.  Once the provider has said
\* something, the stall's limit is looked up in the instance there is none of.
QueryFails ==
  /\ phase = "ssh"
  /\ \/ spoke /\ Ends("crashed", "none")
     \/ ~spoke /\ Interrupted(BootCap, "never_usable")
     \/ /\ ~spoke /\ PollsAgain(BootCap)
        /\ offline' = Unset /\ quiet' = quiet + 1 /\ reach' = Aged(reach) /\ news' = news + 1
        /\ UNCHANGED <<spoke, status, attached, counted, dead, line>>

Vanishes == phase = "ssh" /\ GivesUp("vanished")

\* How long a host the provider is still preparing, and any other, may be quiet.
StallLimit(s) == IF s = "pending" THEN 2 * BootStall ELSE BootStall

\* Mutant of Restarts: the endpoint's clock runs from its publication.
RestartsPublished(changed, known) ==
  /\ quiet' = Past(changed, quiet) + 1
  /\ reach' = IF known THEN Since(reach) + 1 ELSE Unset

\* Progress restarts the stall's clock and the endpoint's, once it is known.
Restarts(changed, known) ==
  /\ quiet' = Past(changed, quiet) + 1
  /\ reach' = IF known THEN Past(changed, Since(reach)) + 1 ELSE Unset

\* One answered poll: s is what the host is said to do, changed that the report
\* or the boot log has something new, as it has with a first message, speaks and
\* known that this or an earlier report has a message and an endpoint, answers
\* that sshd does there.
Reports(s, changed, speaks, known, answers) ==
  LET out == IF s = "offline" THEN Since(offline) ELSE Unset
  IN /\ phase = "ssh" /\ (s # status => changed) /\ (reach # Unset => known) /\ (spoke => speaks)
     /\ (answers => known) /\ (speaks /\ ~spoke => changed)
     /\ IF out > Grace THEN GivesUp("offline")
        ELSE IF s = "abandoned" THEN GivesUp("abandoned")
        ELSE IF answers THEN StartsWait("pin")
        ELSE IF known /\ Since(reach) > Unreachable /\ s # "pending" THEN GivesUp("unreachable")
        ELSE IF speaks /\ Past(changed, quiet) > StallLimit(s) THEN GivesUp("stalled")
        ELSE \/ Interrupted(BootCap, "never_usable")
             \/ /\ PollsAgain(BootCap) /\ Restarts(changed, known)
                /\ offline' = Aged(out) /\ spoke' = speaks /\ status' = s
                /\ news' = Past(changed, news) + 1
                /\ UNCHANGED <<attached, counted, dead, line>>

WaitForSSH ==
  \/ QueryFails
  \/ Vanishes
  \/ \E s \in Statuses, changed, speaks, known, answers \in BOOLEAN :
       Reports(s, changed, speaks, known, answers)

-----------------------------------------------------------------------------
(* pinAndDial                                                              *)

\* A handshake with a server that stops answering has no deadline of its own,
\* and none of the attempt's: the connection is dialled under it, no more.
HandshakeHangs == phase = "pin" /\ Ends("hung", "none")

Connects == phase = "pin" /\ StartsWait("checks")

DialFails == phase = "pin" /\ GivesUp("dial")

\* The provider could attach the key, and did not; or the caller had ended the rig.
AttachFails == phase = "pin" /\ ~attached /\ GivesUp("attach")

\* The scans failed or disagreed, the pin no longer held, or the key was
\* refused, and is attached once: after the pause the provider is asked for
\* news, and a query that fails brings none.  The line compared is the one
\* displayed, not the whole report.
Retries(attaches, changed, shown) ==
  LET silent == Past(shown, quiet + 1)
  IN /\ phase = "pin" /\ (shown => changed) /\ (attaches => ~attached)
     /\ IF silent > AuthStall THEN Interrupted(0, "refused")
        ELSE \/ Interrupted(AuthCap, "unsettled")
             \/ /\ PollsAgain(AuthCap) /\ quiet' = silent
                /\ news' = Past(changed, news + 1) /\ line' = Past(shown, line + 1)
                /\ attached' = (attached \/ attaches)
                /\ UNCHANGED <<reach, offline, spoke, status, counted, dead>>

PinAndDial ==
  \/ HandshakeHangs \/ Connects \/ DialFails \/ AttachFails
  \/ \E attaches, changed, shown \in BOOLEAN : Retries(attaches, changed, shown)

-----------------------------------------------------------------------------
(* The placed hardware, its way to the weights, the bootstrap, the launch   *)
(* and the tunnel: each passes, or is the end of the attempt, as is a        *)
(* deadline or a stop in the time they take.                                *)
Checks ==
  /\ phase = "checks"
  /\ \/ StartsWait("ready")
     \/ \E why \in {"unfit", "unlaunchable", "journal", "deadline", "interrupted"} : GivesUp(why)

-----------------------------------------------------------------------------
(* waitReady                                                               *)

Completes == phase = "ready" /\ Ends("served", "none")

\* One poll without a completion: grew that the log did, counts that the
\* counters were read, works that they moved since a reading before.
Polls(heard, grew, counts, works, alive) ==
  LET silence == IF heard \/ counts THEN 0 ELSE dead + 1
      moving == works /\ counted
      logged == spoke \/ grew
      idle == Past(grew \/ moving, quiet)
  IN /\ phase = "ready" /\ (grew => heard) /\ (works => counts)
     /\ IF silence >= DeadPolls THEN GivesUp("lost")
        ELSE IF logged /\ ~grew /\ ~alive THEN GivesUp("exited")
        ELSE IF ~logged /\ idle > ColdLimit THEN GivesUp("cold")
        ELSE IF logged /\ idle > WarmLimit THEN GivesUp("warm")
        ELSE \/ Interrupted(ReadyCap, "not_ready")
             \/ /\ PollsAgain(ReadyCap)
                /\ quiet' = idle + 1 /\ news' = Past(grew \/ moving, news) + 1
                /\ spoke' = logged /\ counted' = counts /\ dead' = silence
                /\ UNCHANGED <<reach, offline, status, attached, line>>

WaitReady ==
  \/ Completes
  \/ \E heard, grew, counts, works, alive \in BOOLEAN : Polls(heard, grew, counts, works, alive)

Serve == WaitForSSH \/ PinAndDial \/ Checks \/ WaitReady
=============================================================================
