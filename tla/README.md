# A TLA+ model of LARRI

LARRI rents one GPU instance from a marketplace (Vast, RunPod), brings an LLM
runtime up on it over SSH, serves it behind a fixed local port, watches it, and
destroys it - and says so only once the provider no longer has it. Everything it
does is paid for by the second, so its own account of what it rented has to
survive crashes, lost answers and its other processes. The modules here model
the parts of it where that is decided, from the choice of an offer to the
confirmed absence of the machine; TLC checks them on small instances and TLAPS
proves the safety properties that matter most for every instance.

## The system

| Component | State it keeps | Operations | What is hard |
|---|---|---|---|
| rig store (`state/store.go`) | a JSON snapshot per rig; in memory, each process's copy | `RecordIntent`, `Transition`, `Save`, `Load` | several processes with stale copies; a rename not durable yet; a call failing half way |
| journal (`state/journal.go`) | one append-only file for all rigs | `Append`, `ReadJournal` | several writers; a write cut short; power loss |
| lifecycle (`core/state.go`) | - | `Billable`, `ExpectsInstance` | two near questions with different answers |
| bring-up and teardown (`daemon/up.go`, `live.go`) | the rig in memory, the hold, the tunnel, the exclusions of a bring-up | `UpAndServe`, `Up`, `survey`, `Serve`, `Down`, `resolveFailedCreate` | a create whose answer is lost; a destroy that only claims; hosts that never come up; falling back without paying twice |
| adoption (`daemon/adopt.go`) | as above, rebuilt | `Adopt` | loads before it holds; the rig may have ended meanwhile |
| orphan sweep (`daemon/orphans.go`) | nothing | `Orphans`, `SweepOrphans` | reads the provider, then the store, then destroys |
| supervisor (`daemon/supervise.go`) | failure and warning counters | `Supervise` | another terminal ends the rig; budget, idle and health rules |
| holds (`state/holder.go`) | a flock and a holder record per rig | `Hold`, `HolderOf` | who is named while the holder changes |
| cost (`state/cost.go`) | - | `Cost`, `CostForRig` | replaying stops, endings, late entries and corrections |
| dead-man switch (`deadman/`) | a script and a heartbeat file on the host | `Arm`, `Beat`, `Disarm` | a host that must stop by itself, by its own clock |
| proxy (`wire/`) | upstream, idle clock | `ServeHTTP` | what counts as use; whose key |
| client keys (`clientkeys/`) | a file of hashes, a cache of it | `Create`, `Revoke`, `Match` | several writers; a reader without the lock |
| agent session (`tools/`) | the rig an MCP server serves | `Begin`, `Ready`, `Fail`, `Finish`, `Stop` | a bring-up that outlives the session that began it |
| command line (`cmd/larri`) | - | `up`, `down`, `resume`, `orphans`, `token`, detached children | separate processes over one store |
| providers (`provider/...`) | the instances | `Create`, `Destroy`, `Get`, `List` | what an answer, or none, says about a mutation |
| sizing and ranking (`sizing`, `rank`) | - | `Plan`, `Shards`, `Analyse`, `Select` | rounding that has to agree with the engine's |
| runtimes (`runtime/...`) | files and a server on the host | `Bootstrap`, `Launch`, `Ready` | files of several parts, changed while they are fetched |

The processes of one machine share the store's directory (snapshots, journal,
flocks, the key file) and nothing else. The provider is shared with the world.

A bring-up goes: survey (size the model, search, rank, select), mint a rig,
journal the intent, create, wait for SSH, pin the host's key, check the hardware,
fetch, launch, wait for a completion, attach the tunnel, serve, supervise. A host
that fails is torn down and the next offer tried. The end of a rig is a
destroy, an answer without it, and a record of both.

## The modules

| Module | Models | Proofs |
|---|---|---|
| `Lifecycle` | the states, `Billable`, `ExpectsInstance` | |
| `Journal` | the journal file, piece by piece | `FilesProofs` |
| `RigStore` | one rig's record, system call by system call | `RigStoreProofs` |
| `RigRecord` | what the store promises its readers (abstract) | refinement in `RigStoreProofs` |
| `RigLifecycle` | one rig, every command that touches it, the provider | `RigLifecycleProofs` |
| `Supervisor` | one serving rig's policies, probes and idle clock, in time | `SupervisorProofs` |
| `Watchdog` | the script on the host, the heartbeat, the process that arms and beats | `PartsProofs` |
| `Holder`, `Detach` | the hold and its record; a detached child with its launcher on top | `HolderProofs` |
| `Session` | the MCP server's session and the goroutines it starts | `SessionProofs` |
| `Boot`, `BringUp` | the waits of one attempt; the attempts of one bring-up | `BringUpProofs` |
| `Sizing`, `Ranking`, `Market` | what a model takes; which offer is best; the survey and the check of what was placed | `PartsProofs` |
| `Cost` | the replay of the journal, beside a meter | `PartsProofs` |
| `Adapter` | a provider as its adapter shows it: answers, classes, labels, pages | `PartsProofs` |
| `Weights` | from a model's name to an engine serving it | `PartsProofs` |
| `ClientKeys` | the key file, its writers, its reader, the proxy's requests | `FilesProofs` |

They form a tower. `Journal` shows that an acknowledged entry is read back
unless a write was cut short, and what a cut costs; `RigStore` then takes one
append as one step. `RigStore` implements `RigRecord`, where a store call is one
step; `RigLifecycle` then takes one store call as one step, with the guard as
its condition (`Refused`). What `RigLifecycle` leaves open is each the subject of
a module: when a supervisor ends its rig (`Supervisor`), how a phase of Serve
comes to fail (`Boot`), what follows a failure (`BringUp`), which offer is rented
(`Market`), what the provider's answers mean (`Adapter`), who holds the rig
(`Holder`), what the host does when nobody is left (`Watchdog`).

### Journal

The file is a sequence of pieces: a whole line, or the head (some of the JSON)
or body (all of it, no newline) of one and later its tail. A process is `idle`,
has the `rest` of a line to write, or has to `sync`. `Write`, `WriteShort`,
`WriteRest`, `Sync` and `AppendFails` are the system calls of `Append`, which
appends and fsyncs under a mutex that other processes do not share. `PowerLoss`
keeps a prefix no shorter than what was fsynced, the last piece perhaps cut.
`ReadAt` says which lines `ReadJournal` can decode. A line is split in at most
two, and every process appends through `O_APPEND`.

`JournalInv` is the inductive invariant. `UncutReadable` is what `RigStore`
needs. `AckedStaysReadable` says nothing that was readable is lost later, and
`TornCostsTwo` bounds what a torn piece costs: its own entry and one more.

### RigStore

`journal`, `view` (what `Load` returns now) and `disk` (what it would return
after a power loss) are the durable state, `lock` the rig's flock, `copy` each
process's `*core.Rig`. A `Transition` goes `lock`, `guard`, `append`, `write`,
`sync`; a `Save` skips the append; `RecordIntent` is `Journalled`, with neither
lock nor guard. Any system call fails (`CallFails`), the snapshot may be
unreadable (`GuardUnreadable`), a process dies anywhere, and `PowerLoss` takes
`view` back to `disk`. Callers are modelled as far as what they may call with:
`Mint` and `IntendCreate` are Up's, `DownEnter` and `IntendDrain` Down's; any
process may `Load`, `Save` or transition its copy. Rigs share no lock and no
snapshot, so one rig is enough.

`ended` is a history variable: some caller was told the rig is DESTROYED.
`AckedEndSurvives` and `JournalExplainsSnapshot` are the promises;
`ImplementsRecord` is the refinement of `RigRecord`, with `record <- view` and
`settled <- disk`.

### RigLifecycle

The owner (`larri up`) is one process, `Downers`, `Resumers` and `Sweepers` are
sets of others. `pc[p]` says what process `p` does next; the steps between two
calls to the store, the provider or the host are one action. `request` is the
create as the provider sees it and `inst` the instance that carries the rig's
label: a create may land late, be refused, or be reported failed in any way the
adapters classify it (`CreateErrs`); an instance may stop or vanish
(`InstanceFails`); a destroy may do nothing, stop or remove it (`DestroyCall`).

| Source | Actions |
|---|---|
| `Up` | `Select`, `Intend`, `SendCreate`, `CreateReturns`, `CreateErrs`, `RecordProvisioned` |
| `resolveFailedCreate` | `JournalFailed`, `Resolve...`, `CloseNeverCreated` |
| `Serve`, `attempt` | `ServePhase` (boot, pin, verify, launch), `PhaseFails` |
| `Supervise` and its callers | `EndedElsewhere`, `SuperviseEnds`, `ResumeInterrupted`, `Health` |
| `Down` | `DownLoad` ... `DownRecord` |
| `Adopt` | `AdoptLoad` ... `AdoptReady` |
| `SweepOrphans` | `SweepList`, `SweepRead`, `SweepReadFails` ... `SweepRecord` |
| a kill at any point | `Crash` |

Abstractions: one rig and one provider (a fallback attempt is another rig, and
ends this one's owner in `over`); the provider's answers are true (a late create
is a `request` still in flight; what an adapter can make of an answer is the
subject of `Adapter`); each phase of Serve is one step that
succeeds, with its store write, or fails; a live state left in a copy by a
failed write is not told apart from the one before.

`SweepReadFails` is the sweep whose `Store.List` failed, as it does when any
snapshot cannot be read: the error is dropped, no rig is known (`copy` is
`NoRig`), and the instance is destroyed whosever it is.
`SweepKillsOnlySelected` is about what a sweep did read, and excepts that one.

### Supervisor

`Supervise` as a timed machine. `pc` is where the loop is: asleep until the next
poll, in a probe, or asking the provider; `left` counts down to the poll or the
call's deadline, and `Tick` may not pass either, so time stands still while a
poll is served. A poll is one action, the outcome of the code's order of tests:
`EndedElsewhere`, `CeilingReached`, `IdleReclaimed`, or `Watches` (warn, and
probe when due). `ProbeOk`, `ProbeFails`, `AskGone`, `AskHolds` are the health
part; a probe or a query may return at any moment before its deadline. `open`
and `last` are the proxy's `Activity` (in flight, last operator request);
`Request`, `Response` and `ListModels` are `ServeHTTP`. `OtherDown`, `Vanishes`
and `Interrupt` come from outside. `Faults` says which of the store's reads, the
rig's writes and the journal's reads may fail.

`ListModels` is a request answered at once, and moves the idle clock like any
other: `used` and the properties count it as use, which is what the code does
and not what FR-SUP-08 says (`ListingIsNoUse`, in the last table).

`used` and `notice` are observers: how long there has been no request, and how
long ago the operator was warned without having used the rig since. A unit of
money is what the rig costs in a tick, so `spent` is what the journal's replay
comes to (`Cost` is about the replay). Counters stop at caps past which neither
the code nor a property distinguishes values. `MaxStream` bounds how long a
request streams after the last arrival.

Time is a discrete tick and the loop's own computation takes none. The idle
clock starts at READY because the readiness checks of the bring-up pass the same
proxy without the probe header. `Gap` is the longest time between two polls:
one interval, a probe's minute, and the provider's answer. The run lets that
answer take forty seconds. If it takes the client's full sixty, a gap is longer
than the warning's lead time and a rig can be reclaimed without one, so
`WarnedBeforeReclaim` is about `Gap <= Lead`.

### Watchdog

A tick is one pass of the script. The process arms in two commands (kill the old
watchdog, install the new), then beats; it dies, comes back through `Adopt` and
arms again; the link breaks at any time and any command may fail, so a host can
come to run two watchdogs. What the script takes for work is told from the work
itself: `PREV_LOG` and `PREV_NET` are set in a command substitution, so every
pass compares with what was primed at the start (`primed`, `grown`, `moved`).
The host's clock and the process's own run at one rate.

### Holder, Detach

`Holder` is the flock system call by system call: an exclusive try is refused
when a reader probes at that instant, and retried (`Attempts`); the record is
written after the lock and replaced by rename; the earlier holders' logs go
with it, the newest `MaxEarlier` kept; a crash frees the lock and leaves the
record; a power failure takes the record back to what was synced; a record that
cannot be read is replaced like a missing one. `HolderOf` is a
probe and then a read. `Detach` puts one of the processes under a launcher:
`larri up -d` or `resume -d` starts it, waits for its one report, and passes a
Ctrl-C on. With `--json` the launcher tells of a failure as soon as it has read
it, before it waits for the child to end; the model lets it be told then, and
`FailureIsSettled` says how the rig stands at that moment. Its steps are steps of `Holder` (`DetachRefines`).

### Session

Every `larri_up` is a generation (`Gens`) with a goroutine that rents, serves,
reports, supervises and reclaims; `larri_down` asks for a rig of the session or of
another process (`Other`), stops, takes over the hold, destroys and finishes.
Reports (`Ready`, `Fail`, `Finish`) go to whatever session is there when they
come. `late` is set when a bring-up began while an older goroutine was still on
its way out, `asked` collects what larri_down was asked for, `kept` the rigs
whose teardown failed.

### Boot, BringUp

`Boot` is one attempt after the create: `waitForSSH`, `pinAndDial` and
`waitReady`, each with the clocks the code keeps, reset by the signs of progress
the code looks at, its stall limit, its cap, and the attempt's deadline. A unit
of time is one poll. `BringUp` is `UpAndServe` around it: survey, create (and
what is asked when it fails), fall back while the class of the error blames the
host, exclude machines, listings and GPU models. Observers: `news` of the time
since anything that was reported of the host changed, `line` of the time since the
line did that `pinAndDial` compares, `billing` of the attempts whose machine bills
with nobody told, `tried` of the offers that failed, `carried` of those that the
orchestrator brings barred from an earlier bring-up.

### Sizing, Ranking, Market

Pure operators translated from `sizing` and `rank`, integers throughout: memory
is counted in a unit of which `GiB` make a gigabyte, utilisation is a fraction,
costs are compared as fractions. `Market` is the survey that uses them, the
refusal with its advice, and `verifyPlacedHardware` with the plan made again for
what was placed. `RentalServes` compares a selection with what is wanted of an
offer stated without the code's order of checks (`Wanted`). Advice is of changes
that hold on the best offer where one meets the other criteria, and of offers
that pass every check but perhaps that of the price (`AdviceWorks`). Where none
meets them the first of each kind of change is suggested, unjudged; that the changed request then rents one (`HintsSelect`) is more
than the code gives.

### Cost

`cost` is the replay, entry by entry (`Replayed`); the actions are the writers of the
journal, entries later than the rig's end included, and the machine's life. The
meter (`metered`, `assumed`) does not use the replay: hour by hour it adds what
an existing machine bills at the rates on record, or what the record had to
assume.

### Adapter

Machines are created, land late, go unasked and are listed a page at a time;
`Created`, `Confirm` and `List` may fail before or after the provider acted, with
the classes the two adapters give (`Kind`). A label is the fields that fit
(`EncodeLabel`); `RigID` is what each adapter reads out of it. Above that
are the parts of `resolveFailedCreate`, `Down` and `SweepOrphans` that conclude
something from the answers. `LateAfter` says which responses to a create may come
while it is still to be carried out.

Answers may deny a machine that is there, and the code believes them: a query that
succeeds with no instance in it, a listing that drops an entry which does not
normalise or that stops at an empty page, and a refusal, classed transient, of a
create that is carried out after all. `misled` collects the machines an answer has
denied to a rig, `lost` what a listing passed over. A sweep that cannot read a
record goes on with none (`blind`). `EndedHasNoMachine` and `SweepTellsOrphans`
except these and nothing else.

### Weights

From a reference to an engine, a file and its parts (`Settle`: an index of what
the repository lists), through a rented host (`checkFreeSpace`, `downloadCmd`,
`Launch`) to a server, which a later process finds again (`Reattach`); the
publisher replaces the repository at any time, hosts fail and are replaced.
Names are records of what the code's patterns tell apart: a tag, or the formats
that occur anywhere in a name without one. That a tag is true, and that what an
untagged file holds is among the formats its name contains, is the publisher's
part (the assumption `NamesTell`); which of them the code takes it for is the
code's. So a `model_bf16.gguf` is found by a search for `f16`
(`TakesNoNeighbour`). That a set is all there, of one publication, and as large
as it was sized is the program's.

The servers on a host are those larri starts (Ollama's daemon in `Bootstrap`, the
others in `Launch`), any that a failed stop left running, and those of somebody
else (`Foreign`), with a key or without, an Ollama on the network, on the loopback
or told nothing. `Ours` is what a later process takes for larri's own, which is
more than what is (`FindsItsOwn`).

### ClientKeys

`larri token` creates and revokes under a file lock by replacing the file; the
serving process reads it when its stamp differs from the last one read, and each
request goes `authenticate`, `Match`, `Forwards`. `promised` and `ended` are
observers: keys whose value was shown, and keys whose end was acknowledged.

## The runs

| Run | Instance | Shows |
|---|---|---|
| `rig_store` | 2 processes, 2 reasons, 3 journal entries | the store's promises and the refinement of `RigRecord` |
| `lifecycle` | owner, 2 downs, 1 resume, 1 sweep | spending is on record, confirmed endings are true, no rival serves, what a sweep may destroy; crashes included |
| `lifecycle_live` | owner, 2 resumes, 1 sweep, no gateway answer for a create still running | "nothing was created" is true without a `larri down` beside the create; bring-ups settle, ended rigs are released |
| `lifecycle_down` | owner, 1 down | violated: `larri down` beside a create in flight |
| `supervisor` | the code's intervals in ticks of 10 s, window 5 min, ceiling 34 ticks, 2 requests at once | idle and budget policies act in time, not early, after a warning |
| `supervisor_live` | shorter intervals; store, journal and writes failing | an ended or lost rig ends its supervisor |
| `session` | 2 bring-ups, rigs of another process | who holds a rig through larri_down, what may be left billing, what a stop stops |
| `bringup` | 4 offers of 2 machines and one unnamed, 3 attempts, every clock short | nothing bills untold, nothing failed is paid for again, no host is given up without a wait's full silence in what that wait looks at, the bring-up ends |
| `bringup_outage` | the same | violated: a provider's outage during a boot ends the process |
| `files` | `Journal`, `Detach` on `Holder`, `ClientKeys`, in behaviours of their own | acknowledged entries, holds and keys stand; refusals and answers about holders are true; a failure that a launcher tells is settled |
| `parts` | `Market`, `Cost`, `Adapter`, `Weights`, `Watchdog`, in behaviours of their own | rentals serve, the cost is the meter's, endings are true at the adapter's level unless an answer denied the machine, weights are what was asked as far as names tell, hosts stop when abandoned and not before |
| `adapter_runpod` | `Adapter` with RunPod's labels | violated: every live rig is an orphan |

`MCFiles` and `MCParts` put modules that share no state side by side: a variable
`part` chooses one at the start, and the others keep still.

### Bounds

- `RigStore`: the flock admits one process into a call, and what the other brings
  is a copy of any age, so two are enough for every race. Three entries let a
  create intent be followed by two endings, or an ending by a late intent.
- `Journal`: 2 processes, 4 entries, 2 torn writes: the halves of one line come
  with another process's line, and its halves, between them. (The proofs are for
  any number.)
- `RigLifecycle`: each kind of process once, the teardown twice, because two of
  them race with each other.
- `Supervisor`: `Timeout`, `Lead`, `ProbeMax` are the code's defaults divided by
  the tick; `Accrued = {0}` starts a rig below its ceiling.
- `Boot`, `BringUp`: limits of one to five polls, in the code's order: every
  clock can run out before every other, and a progress can come at the last poll.
  Three attempts are `MaxHostAttempts`; two offers of one machine with two GPU
  models let a machine be barred for one and met again as the other.
- `Holder`, `Detach`: the child, one rival, one reader; 3 tries, one earlier log
  kept of two. `MCFiles` has `Holder` by itself (`part = "holder"`), where what a
  power failure brings back of the record may be old, and `Detach` on it, where the
  directory is synced, or the power lost, right after a record is published.
- `ClientKeys`: one name for two keys (`Names = {"default"}`), so a revoked name
  is made again while a request carries the old key; 2 requests, `larri token`
  and the serving process as writers, 3 writes. Stamps differ from write to write.
- `Session`: with two generations a stopped one can outlive its successor's start.
- `Watchdog`: two slots, since one kill can fail; deadline 3, grace 2.
- `Cost`: 4 entries and 2 hours; the rates (`Quoted`, `Billed`, `Stored`) are
  unlike, so that a segment at the wrong rate shows. Of a journal from before
  billed rates were written only the operator is modelled (`Hourly`, `Rates`).
- `Adapter`: a rig, a machine nobody knows (`Lost`) and one more, on pages of one.
  Every response that can come before a create is carried out may
  (`LateAfter`), the gateway's included. A label has one detail behind the
  identifier (two in `adapter_runpod`), or none.
- `Market`: seventy requests against every subset of eight offers that differ in
  cards, memory, price, link, tier, stock and engine. Contexts, weights and
  memory are scaled to small numbers; truncations and factors are the code's.
- `Weights`: repositories of single files, of several parts, with a part of no
  published size, a missing part, two folders, projectors and drafts, and a name
  without a tag that contains a neighbouring format.

Bounds (`MaxEntries`, `MaxTorn`, `MaxWrites`, `MaxClock`, `MaxMade`) only disable
actions. Symmetry is used over interchangeable processes, reasons and watchdog
slots, in runs without liveness properties only.

Only `rig_store` checks deadlock: a journal at its bound, a rig whose commands
have all ended, a bring-up that returned and a survey that was answered are where
the others stop.

### Fairness

`RigLifecycle`'s `FairSpec` asks weak fairness of `Works(p)` for each process: the
steps a live process takes by itself, whose waits all carry deadlines (the boot
stall, the attempt's deadline, Down's ninety seconds, the hold's retries). What
an operator or a policy decides (`Chooses`), the provider and crashes are not
fair. A disjunction is weakly fair as a whole, so a process is never assumed to
take the successful alternative; `BringUpSettles` rests on `PhaseFails` being
there, and `Boot` shows why it is: `UpReturns`, under weak fairness of the one
process there is, holds because every wait has a cap. The one wait without is
an SSH handshake with a server that falls silent, which `UpReturns` excepts
(`hung`), as it does the crash of `bringup_outage`.

`Supervisor`'s `FairSpec` has the loop run (its waits all have deadlines), time
pass and responses end, and asks strong fairness of `AskGone` only: a provider
asked again and again whether an instance it no longer has exists answers in the
end. It does not ask that the store becomes readable.

`Session`'s has larri_down's calls return and every goroutine go on, except that
a rig may be supervised for as long as nobody stops it (`Proceeds`).

## What is proved

For any number of processes, reasons, entries, torn writes, watchdogs, callers,
bring-ups, attempts, offers, machines, pages, repositories, writers of keys and
requests, and any deadlines, rates and lengths of waits:

- `RigStoreProofs`: `StoreInv` is inductive (`StoreInvariant`). Holding the flock
  is being between the lock and the unlock (`LockInv`); the guard's answer stays
  true until the rename because the flock keeps other renames out (`GuardInv`);
  every copy is as well explained by the journal as the snapshot it came from
  (`CopyInv`). From it `AckedEndSurvives`, `JournalExplainsSnapshot`,
  `FirstReasonStands`, and the refinement of `RigRecord`: initial states map to
  initial states and every step to a `Put`, `Settle`, `Acknowledge`,
  `LosePower` or a stutter.
- `RigLifecycleProofs`: `LifecycleInv` is inductive. `HoldInv` (whoever is
  engaged with the rig holds it) gives `NoRivalServer`; `SpendInv` and `NewInv`
  give `SpendIsOnRecord`; `ProviderInv` (an instance exists exactly when the
  create landed, so a gone one stays gone) and `AbsentInv` give
  `ConfirmedEndIsReal`. On top of it, `SweepInv`: a rig that a sweep took for an
  orphan was SELECTED, ended, or given up by an owner whose create failed and who
  will not serve it, unless the sweep could read no record; hence
  `SweepKillsOnlySelected`. And `NothingInv`: the owner
  closes a create only when it is settled, and nobody else has the rig in hand
  without its instance; hence `NothingCreatedIsTrue`, under two hypotheses that
  the table below shows to be needed: no `larri down` beside the create
  (`Downers = {}`, the run `lifecycle_down`), and no gateway that answers for a
  create still running (`~LateGateway`).
- `BringUpProofs`: `BringUpInv`. The clocks a wait gives up by run no faster than
  the time since what it looks at changed, in `pinAndDial` the displayed line
  (`SilenceInv`), whichever sign of progress restarts which clock:
  `SilenceBeforeGivingUp`. Nothing bills before an
  attempt's create (`BillingInv`): `OneMachineBilling`. What failed is barred, and
  beside that only offers that an earlier bring-up barred (`BarredInv`), every attempt is of another machine than those
  before (`FreshInv`), and a strike against a model is a host of it that failed
  (`StrikesInv`): `NoMachineTwice`, `BarredForCause`.
- `SessionProofs`: `HoldHasOwner`, for any number of generations and any order of
  their reports. `TeardownInv`: a cancel is spent once (`CancelInv`), a rig in the
  session has its hold (`HeldInv`), and the rig a larri_down took is held by the
  tool or still by the goroutine that has it (`TakenInv`): `TeardownHeld`. While
  nothing overlaps, the cancel in the session is that of the only rig that can be
  billing (`LeftInv`): `LeftOnlyIfAsked`.
- `SupervisorProofs`, for every policy, interval and deadline: `Within` bounds a
  clock by what it can still grow to before the next poll. `IdleInv` says so of
  the silence, and needs `SilenceInv` (the idle clock is never behind the silence
  it measures), which holds because only arrivals move it: `ReclaimedInTime`. `SpendInv` says so of the cost:
  `SpendBounded` where the journal can be read and the rig started below its
  ceiling. `HealthInv` gives `HealthOnRecord` where the snapshot can be read and
  written. `EndStays` holds whatever fails. `ArrivalInv` (the idle clock counts
  from an arrival, which no request outlasts by more than `MaxStream`) gives
  `SilentSinceArrival`. `WarnInv` (the window is not so near, unless warned of,
  that a poll could find it over before one finds it near) gives
  `WarnedBeforeReclaim` if `Gap <= Lead`, `Gap + Lead < Timeout` and
  `MaxStream + Lead < Timeout`: the first fails with the code's defaults only if
  an answer takes more than fifty seconds (see Supervisor above), the second with a
  window as short as the lead time (see the table below).
- `HolderProofs`: types, then names (the lock, the processes' view of it and the
  record agree), then a counting argument: a process that was refused met, in as
  many tries as there are callers, each of them at most once, or a holder; then
  `HistoryInv`, that the record and every record a power failure can bring back
  name the end of the history, or all of it. `DetachRefines` shows every step of
  `Detach` is a step of `Holder` or a stutter, so all of it holds of the
  composition (`RefusedOnlyWhenHeld`, `AnswerNamesHolder`, `HistoryKept`);
  `FailureIsSettled`, `ReadyIsHeld` and `SignalEndsRented` are the child's own.
- `FilesProofs`. Journal: `JournalInv` is inductive; `UncutReadable` and
  `AckedStaysReadable` follow. `CutsInv` counts: no more pieces lack their line's
  end than writes were torn, and a tail comes after a head, so every entry that
  cannot be read is one of those or follows one: `TornCostsTwo`. Client keys: at
  most one writer is between its reading of the file and the end of its call
  (`TurnInv`), so what it read is what the file holds (`ReadInv`), and a key made
  is new (`MadeInv`): `AckedKeysStand`. Of the reader, a copy kept under the
  file's own stamp is the file (`StampInv`), and a copy under the stamp a request
  saw says nothing of its key that was not so while the request was being
  answered (`StatInv`): `KeysDecide`.
- `PartsProofs`, part by part:
  - Watchdog: `WatchdogInv` bounds what every watchdog has counted by the age of
    the heartbeat it read. It gives `SparedWhileBeating`, `FreshStart`,
    `GraceForWork` and `AbandonedStops`.
  - Adapter: `AdapterInv`. A rig has at most one machine, and it carries the rig's
    label (`OwnMachine`); where the machine stands follows from where the rig does,
    unless an answer denied it (`InPlace`); a listing has what was there when it
    began and still is, as far as it got, or has passed it over (`Listings`), which
    for pages of any size is an argument about the least machine not yet listed.
    `SweepTellsOrphans` and `EndedHasNoMachine` where labels are read back
    (`ReadsBack`: not RunPod with details behind the identifier, the run
    `adapter_runpod`).
  - Market: `RentInv` and `LaunchInv` follow the code from the listing through
    filter, plan, order and choice, and the plan made again for what was placed:
    `RentalServes`, `LaunchHolds`. The choice is the first of a finite set in a
    total order. That no plan of more cards is missed rests on each further card
    bringing more memory than it takes. `AdviceInv` gives `AdviceWorks`. Memory
    is counted in a unit of which at least two make a gigabyte, and a card has
    two units or more.
  - Cost: `MeterInv`. The replay is where the record is, with the rates it named
    last (`PlaceInv`), and what it charges, with what has gone by since its last
    entry, is what the meter counted (`ChargeInv`): `SpendMatchesMeter`.
  - Weights: `RentalInv`. What was settled is what the listing resolves to until
    the publisher replaces it (`SettledInv`), a host's files are parts of it
    (`GotInv`), a server is started when all of them are there, and of larri's there
    is no other on a host than the one that was launched last (`ServerInv`):
    `ServesWhatWasAsked`.

Two results are about data of any size, and are reached without induction over
it: the replay's value one entry on (`Cost`), and a page's content (`Adapter`),
are shown for all lengths by taking the least one that would be an exception.

The assumptions are those of the modules, which the runs evaluate: roles are
disjoint, `Nobody` and `NoReason` are no process and no reason, no caller
transitions to IDLE, SEARCHING or SELECTED, limits are positive, beats come
oftener than the watchdog's deadline, a listing is finite, storage is billed in
whole units an hour, tags are true and an untagged file holds one of the formats
its name contains (`NamesTell`). What a
theorem assumes beyond that is a hypothesis of its statement, named above.

Proved and not checked by a run: `FirstReasonStands`, `HealthOnRecord`,
`EndStays`, `FreshStart`, `GraceForWork`, `HoldHasOwner`, `HolderIsNamed`,
`ReadyIsHeld`, `SignalEndsRented`, `UncutReadable`.

Only model-checked: the liveness properties (`UpReturns`, `BringUpSettles`,
`StoppedEnds`, `EndNoticed`, `EndedRigReleased`), which TLAPS does not reach.

## Where the code and its own account differ

`PROJECT.json` lists three findings with the lines they contradict: `larri down`
on a rig with no recorded instance trusts one empty listing
(`NothingCreatedIsTrue`), which `resolveFailedCreate` next to it refuses to do for
an unknown outcome; a status query that fails during a boot dereferences no
instance (`OutageSurvived`); RunPod's labels are never read back as the rig's
identifier (`TrackedIsNoOrphan`).

The modules show more when a run's constants or properties are changed:

| Change | Violated | What the code does |
|---|---|---|
| `MCRigStore.cfg`: check it | `EndedRigNotBillable` | `RecordIntent` passes no guard, so a late intent follows an ending in the journal (`up.go:1597`) |
| `MCRigLifecycle.cfg`: check it | `SweepSparesLiveBringUp` | the snapshot reads SELECTED while the create is under way, and a sweep takes its instance for an orphan (`orphans.go:85`); and with any snapshot unreadable `Store.List` fails, its error is dropped, and the sweep takes every labelled instance, a serving rig's too (`orphans.go:57-62`), both against the comment at 89-103 |
| `MCRigLifecycleLive.cfg`: `LateGateway = TRUE` | `NothingCreatedIsTrue` | a 5xx on a create is taken for settled (`resolveFailedCreate`, although its comment at `up.go:1093-1097` keeps a create with an unknown outcome open) |
| `MCAdapterRunPod.cfg`: check it | `AbsenceIsProof` | a 200 with no instance in it is taken for absence (`vastai.go:249-251`, `runpod.go:294-296`), "the only proof of destruction" (`vastai.go:245`) |
| `MCAdapterRunPod.cfg`: check it | `ListingIsComplete` | an entry that does not normalise is skipped, and an empty page ends the listing whatever its token (`vastai.go:304-314`, `runpod.go:316-323`), where `List` returns "ALL instances" (`provider.go:57`) |
| `MCParts.cfg`: check it | `FindsItsOwn` | a later process takes an Ollama that names no address (`ollama.go:225`, comment at 226-228), or a server with any key in its arguments (`vllm.go:471-475`), for one that larri started |
| `MCParts.cfg`: check it | `TakesNoNeighbour` | a format is looked for anywhere in a name without a tag, so `f16` takes a `model_bf16.gguf` (`gguf.go:262-267`), the conflation its comment means to exclude (249-252) |
| `MCParts.cfg`: check it | `SuggestionsJudged` | where no offer meets the other criteria the target is zero and the first change of each kind is suggested (`shortfall.go:97`, `:124`, `:147`), where the comment has them "measured against the largest VRAM the market actually offered" (92-96) |
| `MCBringUp.cfg`: check it | `BarredForThisBringUp` | an offer that named no machine and failed in an earlier bring-up stays barred, for `excludedOffers` is not reset (`up.go:901`, comment at 897-900) |
| `MCBringUp.cfg`: check it | `SilenceBeforeRefusal` | `pinAndDial` compares the cut line that is displayed (`live.go:1591`), so a report that changes behind the cut is silence, against the comments at `live.go:651-661` and 1526-1528 |
| `MCParts.cfg`: `MinClassSample = 8`; offers of one GPU model, one with two cards at 10, seven with one at 31, seven with four at 11; a ceiling of one card; check it | `HintsSelect` | an offer that a refusal says would fit were `--max-gpus` raised becomes a price outlier once it is, since the hosts with more cards have left the class whose median it is judged by (`moreCardsWouldFit`, `up.go:648`; `rank.go:297`) |
| `MCFiles.cfg`: check it | `AckedReadable` | a torn journal line takes the next acknowledged entry with it, where the reader's comment has only the truncated line dropped |
| `MCFiles.cfg`: check it | `SignalEndsRig` | `resume -d` interrupted before it is ready leaves the rig billing (`detach.go:271`; the comment at `main.go:959` says any detached holder ends its rig) |
| `MCParts.cfg`: check it | `IdleHostStops` | `PREV_LOG` and `PREV_NET` are set in a subshell (`script.go:73`, `:109`), so a host that once worked looks busy for good and only the grace ends it |
| `MCSession.cfg`: three generations, check it | `OneBringUp` | a late `Fail` or `Finish` of an older goroutine frees the session of a newer one (`session.go:83-94`) |
| `MCSupervisor.cfg`: check it | `SilentForWindow` | idleness is counted from a request's arrival, not its end |
| `MCSupervisor.cfg`: check it | `ListingIsNoUse` | any path counts as use, where FR-SUP-08 excludes model listings (`ServeHTTP`) |
| `MCSupervisor.cfg`: `Timeout = 12` | `WarnedBeforeReclaim` | with a window no longer than the lead time, "used again; re-arm" is never reached (`Supervise`) |
| `MCSupervisor.cfg`: `BudgetAction = "warn"` | `BudgetActionKept` | `budget.action` is not consulted, though `larri` offers to set it |
| `MCSupervisor.cfg`: `Faults = {"write"}` | `HealthOnRecord` | DEGRADED is written at the third failure only, and a failed write is not repeated |
| `MCSupervisor.cfg`: `Faults = {"journal"}` | `SpendBounded` | a journal that cannot be read makes the cost zero |

Found while translating, and taken into the modules as the code has it:

- Bring-up: a host that runs is judged by the clock of its
  first endpoint; a failed query clears the offline clock; an unknown-outcome
  create that the deadline cut becomes a host's failure; retiring a model checks
  only that something else is listed, not that it fits.
- Watchdog: a kill that fails leaves two watchdogs (`deadman.go:209-212`); a rig
  adopted when the re-arm failed is served without beats (`adopt.go:174`);
  `Disarm` has no caller.
- Session: larri_down before `Ready` finds no hold to take; for another process's
  rig it stops this session's too (`lifecycle.go:342`).
- Holds: `HolderOf` may name a former holder for an instant; a power failure loses
  the end of the log history, and a record that cannot be read all of it
  (`holder.go:94`); READY may be printed after an interrupt.
- Adapter: `isNotFound` looks for text in the message; Vast's fallback label after a create is the whole text.
- Weights: `fp16` has the one alias `f16`, so a file named `-fp16.gguf` is not
  found by it (`gguf.go:322-345`); advice prices the smallest publication while
  the pick is the shortest name; `main` is not pinned between listing and parts.
- Market: class medians mix offers of
  unlike card counts; with unknown facts only the total memory
  of the placed cards is checked.
- Client keys: a change that keeps size and modification time is not noticed; the
  directory is not fsynced after the rename.

## Not modelled

- `state/id.go`: a ULID of time and entropy, no state.
- `daemon/activity.go`, `logs.go`, `tui`, `term`, `notice`, `buildinfo`,
  `state/summary.go`: display.
- `config`, `secret`: sequential merging of file, environment and flags.
- `gguf` (header parsing), the Hugging Face client beyond what `Weights` and
  `Market` read from it, request building and JSON decoding in the adapters,
  `sshx` below the dial, sealing of labels: formats, libraries and cryptography.
- `daemon/absence.go`: its own checks before the operator's word is recorded. To
  the store it is a record over an ending like another, which `RigStore` allows
  any caller; to the cost it is the evidence that there was nothing (`absent`).
- Two `larri up` at once: rigs share no lock, `refuseIfAlreadyBilling`
  (`main.go:1030`) reads local state once, and the models follow one rig, or one
  bring-up, at a time.
- A power loss under the key file; a LARRI process that sleeps with its host
  (`Watchdog` has one clock rate); the teardown of a FAILED rig whose create is
  still to come, in `Adapter` (in `RigLifecycle` it is `lifecycle_down`).
- Liveness of the launcher of a detached child, and of the key file's writers.
- Test doubles and development tools: not part of the program.
