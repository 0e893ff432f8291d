# postwarden: a verification project

postwarden is a milter for Postfix. It classifies each message by where it came
from, refuses recipients and messages by policy (protected recipients, self
sender, sender authentication), bounds what it works on at once, and limits how
many recipients a sender may reach in a rolling hour and day. This directory
holds TLA+ models of it, the TLC configurations that check them, and proofs.
Paths below are relative to the repository.

## The system

| component | source | state | operations | hard because |
|---|---|---|---|---|
| sending-limit store | `src/postwarden/quota.py` | windows of counts per key, one local window, reservations of open messages, time of the last sweep | `begin`, `reserve`, `commit`, `release`, `export`, `restore`; expiry and the sweep inside them | many session threads; the clock is read before the lock; bounded capacity; reservations refer to windows by name |
| state file | `src/postwarden/limitstate.py` | `limits.json`, its temporary file, the saver's timer | `save`, `load`, `Saver.start/stop/_run` | crashes between steps, failing writes, a stop during a save, downtime |
| milter session | `src/postwarden/milter.py` | per connection: trust, recipients, deferred refusals, capture, reservation, open slot; global: slots, store | `envfrom`, `envrcpt`, `eom`, `abort`, `close`, `_reset_message` | every exit must give back slots and reservations; exceptions; pickup mail cannot be refused per recipient |
| policy | `src/postwarden/policy.py`, `replies.py` | none (pure) | recipient and message evaluation, `combine`, `effective`, `enforced` | five sections in three modes, bounds that withhold the message from a check |
| authentication | `src/postwarden/authentication.py`, `dkimworker.py`, `_authenticate` of `milter.py` | verification slots, worker slots, the deadline of each check, a child process | `authenticate`, `spf_check`, `dkim_verify`, `verify_in_worker` | one slot is waited for while another is held, both waits and every lookup share one deadline, answers after it, children that fail or stay silent |
| message capture | `src/postwarden/message.py` | spooled message, what limit it passed | `add_header`, `add_body`, `close` | bounds |
| activation records | `src/postwarden/deployment.py` | the active configuration, records with backups, Postfix settings | `configure_postfix`, `rollback`, `switch`, `mark_failed` | several files and services changed in order, failures and crashes in between, undo |
| installation | `src/postwarden/deployment.py` below `scripts/install.py` | the application tree, `config.toml`, the unit, the launcher, directories of deployments | `inspect`, `plan_install`, `install`, `rollback` | steps are chosen before the lock, fail half-way and are undone by a rollback that may fail in turn; Postfix is attached meanwhile |
| Postfix settings | `src/postwarden/postfix.py` | `main.cf` values | read, merge, write through `postconf` | owned by others too |
| commands | `src/postwarden/__main__.py` | the published configuration hash | `run`, `wait-ready`, `check-config`, ... | publication by two processes |
| configuration, addresses | `config.py`, `addresses.py` | none | parsing, normalising | string handling only |
| statistics, log tools, simulation, printing | `stats.py`, `logsource.py`, `lookup.py`, `logging.py`, `simulate.py`, `textbox.py` | none kept | read the journal, print | - |
| release building | `scripts/build-release.py` | none | archive, checksums | - |

How they interact: Postfix opens one milter connection per SMTP client or
pickup message, and libmilter runs each in a thread of its own. A session calls
the store (under the store's lock) for each recipient and at the end of the
message; the saver thread exports the store once a minute; the daemon loads the
file before it accepts connections. A session that must authenticate a message
takes a verification slot for it and, for a spooled body, a worker on top. The
installer replaces the application and its files, and the activation code those
of Postfix; both restart services from another process, under one lock.

What must hold, component by component:

- *store*: reservations of open messages are neither lost nor kept; counts are
  what was delivered in the buckets of the span; an enforced limit is never
  exceeded; a full store refuses without half a reservation, and idle keys make
  room;
- *state file*: what the daemon counts after any mix of saves, failures, stops,
  crashes and starts is exactly what it was told of; a file it wrote is refused
  for a known reason only; a clean stop loses nothing, a crash at most one save
  interval;
- *session and policy*: an enforced rule is never bypassed by a bound, by a rule
  that is only observed or by a missing slot; what is only observed refuses
  nothing; slots and reservations return on every way out; what is delivered
  is what is counted;
- *authentication*: no slot is lost; every check ends, by its deadline and one
  overrun; a check that lacked time, memory, a worker or an answer never decides
  otherwise than the full check would, except that it defers;
- *activation records*: the records are a stack of states, a rollback returns
  to the one under the top, through failures, killed runs and other runs; no
  order of steps leaves newly enforced rules open; a failed run restores what
  it found; what a record says is what runs; nothing overwritten is lost;
- *installation*: a deployment that is recorded is what is installed and runs,
  although it was planned before the lock; a rollback undoes it wherever it
  stopped; a rollback never takes what an attached Postfix needs.

## Modules

| module | models | extends |
|---|---|---|
| `SendingLimit` | what an enforced limit promises, without buckets or a store | - |
| `QuotaStore` | `quota.py`: the store, one action per method | - |
| `LimitState` | `limitstate.py` and the daemon's start and stop, around the store | `QuotaStore` |
| `Policy` | `policy.py`: rules and the composition of decisions, as operators | - |
| `MilterSession` | `milter.py`: concurrent sessions, one action per callback | `Policy` |
| `Verification` | `authentication.py`, `dkimworker.py`: concurrent checks with two pools and a clock | `Policy` |
| `UndoStack` | what the activation history promises | - |
| `Activation` | `deployment.py`: configure-postfix and rollback, one action per step under the lock | - |
| `Installation` | `deployment.py`: install and its rollback, one action per step under the lock | - |
| `QuotaStoreProofs` | theorems on `QuotaStore` | `QuotaStore` |
| `LimitStateProofs` | theorems on `LimitState` | `LimitState`, `QuotaStoreProofs` |
| `ExactCountsProofs` | theorems on the counts of `QuotaStore` and `LimitState`, and the refinement of `SendingLimit` | `LimitStateProofs` |
| `MilterSessionProofs` | theorems on the slots and the sending limit of `MilterSession` | `MilterSession` |
| `PolicyProofs` | theorems on the policy of `MilterSession` | `MilterSessionProofs` |
| `VerificationProofs` | theorems on `Verification` | `Verification` |
| `ActivationProofs` | theorems on `Activation`, and the refinement of `UndoStack` | `Activation` |
| `InstallationProofs` | theorems on `Installation` | `Installation` |
| `MCQuotaStore`, `MCLimitState`, `MCMilterSession`, `MCVerification`, `MCActivation`, `MCInstallation` | small instances | the module they name |

Definitions called *mutants* are a plausible mistake each, placed before the
definition they would replace; no specification uses them. Every property of a
run is broken by at least one of them, which PROJECT.json lists.

### QuotaStore

`keys` is `_keys` without its order of use, `local` is `_local`; a window is
`[count, reserved]` with a function from bucket starts to counts per span. The
deques of the code are such functions because a bucket's start identifies it.
`res` holds the `Reservation` objects, including those that are closed,
`committed` is history: when a message was delivered. `Begin`, `Reserve`,
`Commit` and `Release` are the methods of `QuotaStore`, each one step because
each holds the store's lock throughout; `Expire`, `StoreFor` and `Swept` are
the expiry and the sweep that run inside them. A call carries a `now` out of
`Times`: `_reserve` and `_eom` read the clock before they wait for the lock, so
calls reach the store with times up to `MaxLag` old and out of order. `Observe`
is the mode: an observed limit reserves what an enforced one refuses.

Left out: `counts`, `local_counts` and `key_count` (read only), the choice of a
key's text (`limit_key`), and the state that decides which refusal is logged
as the first.

### LimitState

The saver thread (`Export`, `Replace`, `SaveFails`), the end of the daemon
(`Stop`, `FinalExport`, `Exit`, `Crash`) and its start (`Start`) around the
calls of sessions (`Session`). A snapshot is the record that `export` writes;
`knows` in it is history, the committed messages it includes. A save is two
steps: the export under the lock, and the rename; a crash in between leaves the
old file, and `SaveFails` is an `OSError` on either side of the rename: the sync
of the directory after it may fail when the new file is already in place.
`Loads` is what `load` and `restore` ask of a file they can read: no bigger than
`MaxBytes`, saved no later than the clock and its skew, at most `Capacity` keys,
key texts that the loader takes, and no more buckets than a span can hold. A
size is counted in units, one for each key and one for each bucket a file lists
(`Bytes`); the length of a key's text is no part of it. `Start` loads such a
file or goes on without: a refused file, none, and one that cannot be read come
to the same. `Pass` lets time pass only when no save is due (`Urgent`): the
saver is scheduled when its wait ends and a save is short against a save
interval. `LossBounded` depends on that.

### Policy and MilterSession

`Policy` follows `policy.py` function by function. A rule that does not apply
returns no decision, here the empty set; lists of decisions are sets, because
of two decisions with one action the first only gives the reply its wording.
Reasons and texts are left out. What string handling decides (does the login
list this address, is an address protected) is a field of the input.

`MilterSession` runs these rules in the callbacks. `tx[s]` is the
`PolicyMilter` object of session `s`, `post[s]` is Postfix's side: the stage of
the message, the recipients accepted so far and what the message is, which the
properties use in place of what the code made of it. `envfrom` is two steps
(`MailReset`, `Mail`), as other sessions may take the slot it gives back;
`envrcpt` is one (`Rcpt`), its only shared state being the store; `eom` is
`EndOfMessage`, then the wait for a verification slot (`AcquireSlot`, or
`SlotTimeout`), then `Verified` or `VerifyRaises`, and `Finish` with the reset
of its `finally`. `Abort` and `Close` happen between callbacks only: libmilter
runs one callback of a connection at a time. `SpoolFails` is an `OSError` in
`body`. `quota` stands for the store with one window in which nothing expires:
`QuotaStore` has the rest. What happens between the slot and the answer is one
input there, and all of `Verification`.

### Verification

`check[s]` is the local state of `_authenticate` and `authenticate` in the thread
of session `s`, `verifier[s]` the loop of `dkim_verify`, in that thread or in the
child that `verify_in_worker` started; `verifySlots` and `workers` are the two
semaphores. Time is discrete and relative: `left` is the deadline less the
clock, `due` the longest the call may still take that the check is in, `age`
history. `Tick` passes time for all, but for no one beyond `due`; the code has
its lookups return within what is left of the deadline, and `Slack` is how
late they may be. The child computes its own deadline when it starts
(`ChildStarts`), later than its parent, which is why the parent's wait must
bound it (`ChildTimeout`).

`Begin` starts the deadline; `Admit` and `NotAdmitted` end the wait for a
verification slot; `SpfNoTime`, `SpfBegins` and `SpfAnswers` are `spf_check`;
`SignatureAnswers` is one round of the loop, `GoesOn` its head and `CutShort` why
it stopped; `WorkerFree`, `QueueTimeout`, `ChildFails`, `ChildDone` and
`ChildTimeout` are the worker; `ThreadMemory` is a `MemoryError` and `Raises` any
other exception. `Conclude` is the end of all of them: the finally blocks, and
the decision `Policy` takes on what was found. A mail says what is to be found,
so that a decision can be compared with the one the full check would take
(`Ideal`). The contents of answers, the DNS and the cryptography are left out.

### Activation

`files` is what is on disk, `postfix` and `daemon` what Postfix and the daemon
have loaded of it; `backups` are the directories under
`/var/backups/postwarden`, of which those with a manifest of an activation or a
detached state are records. Contents stand for their hashes. `main.cf` is the
administrator's edit of it with the failure action of the milter entry (`none`
while Postfix does not use postwarden), `master.cf` whether its services carry
the markers: all that `render_postfix` decides and a rollback compares.

A run plans without the lock and may give up (`Withdraw`). `Inspect` reads the
files and what the daemon runs; `PlanApply` stages copies of the Postfix files
as they are by then, and compares: what is staged may differ from what was
inspected. The copies and their comparison are one step, so that an edit between
these two is left out; so is `PlanRollback`, the comparison with the
predecessor. `Apply` and `Rollback` take the lock, repeat the checks the code
repeats, and put the steps that remain into `work.todo` in the order of
`switch`; each step is an action: `NewRoot`, `NewAttempt`, `SaveBefore`,
`Install` of one file, `ReloadPostfix`, `RestartDaemon`, `VerifyConfig`,
`CopyRecord`, `WriteManifest`. `work.undo` is the list `done` of the code.
`StepFails` is an exception in a step: before the switch it ends the run, in it
it turns `todo` into the undo of the parts begun and the mark (`MarkFailed`).
`RecoveryFails` is one in the undo, which ends there. `Crash` ends the run and
does nothing else: SIGKILL, and also Control-C, which `except Exception` does
not catch. `crashes` counts both as runs that end half-way. `EditConfig`,
`EditMain` (an edit with its own reload) and `RestartByHand` are administrators
and systemd.

A restart and the publication of the loaded hash (`wait-ready`) are one step.
Postfix is taken to read main.cf at a reload, as its master process does; its
short-lived processes read it when they start, which would blur the time of a
switch but not its order. All configurations are valid: `configure_postfix`
refuses others before it plans.

### Installation

`disk` is the application in two parts (`src` and the rest of `APP_FILES`, as a
copy may stop between them), whether its owners and modes are right, and the
three files that an install backs up: `config.toml`, the unit and the launcher.
A release stands for the contents of its files, `none` for a part that is
missing, `partial` for one whose removal, copy or unpacking stopped half-way
(`Stopped`). Partial trees are not told apart, but what an inspection makes of
one is: it finds a version in it, or none if the file that holds the version is
gone (`Versions`), and then an install over it keeps no archive. The installed
tree as a candidate (`Root`) needs a whole rest, as it holds the scripts that
run. `backups` are the directories of install deployments: what was there
before, whether the application is in the archive, and, once `RecordAfter` has
written it, what was there after.

`Inspect` and `PlanInstall` read the host without the lock and choose the steps
(`Needed`); `NothingToChange` and `Withdraw` end a run without a deployment;
`PlanRollback` is a rollback up to the lock. `Install` and `Rollback` take the
lock, repeat the comparison the code repeats (`AsPlanned`, `Permitted`) and put
their steps into `todo`, in the order of the code; each step is an action.
`StepFails` is a step that fails and a run that is killed alike: neither undoes
anything, the lock goes, and what was done stays. `MustFail` are the steps that
cannot succeed in the state they find. The daemon may be up or down after a
restart that was not ready in time.

Around it are `configure-postfix`, reduced to `PlanAttach` (it found a daemon),
`Attach` and `Detach`, which `Activation` has in full; edits (`Edit`); and a daemon
that ends or is started (`DaemonEnds`, `DaemonStarts`). `prepare` is packages,
the user and the directories at once; a validation that refuses is a step that
fails.

## Runs

| run | instance | shows |
|---|---|---|
| `QuotaEnforce` | 3 messages of up to 2 recipients, 2 texts with 3 limit keys, store of 1, 7 clock values, lag 1 | `TypeOK`, `ReservationsAccounted`, `WithinLimits`, and that the store implements `SendingLimit` (`KeepsPromise`) |
| `QuotaObserve` | the same with observed limits and a local cap for the day | `CountsExact` |
| `LimitRestart` | 3 messages, 2 keys of which the loader refuses one, store of 1, 4 clock values, lag 1, a save every unit, files of up to 6 units | `SaverTypeOK`, `MemoryExact`, `LimitsOutliveRestarts`, `RefusalExplained`, `LossBounded`, `CleanStopKeepsAll` |
| `LimitKeyText` | 1 message whose key text the loader refuses, no lag, no file too big | a violation of `SnapshotLoads`, see Findings |
| `MilterPolicy` | 1 session, 1 message of up to 2 recipients, 8 origins, 3 recipients, 36 contents, all 243 mixes of modes and the 32 of active modes under 5 other policies | `EnforcedRulesHold`, `OnlyEnforcedRefuses`, `OnlyEnforcedRefusesRecipient` |
| `MilterShared` | 2 sessions, 3 messages, limit 2; recipients that parse or not, `[protection]` observing or enforcing; 1 open slot, or 2 with 1 verification slot | `MilterTypeOK`, `SlotsConserved`, `PlacesAreRecipients`, `CountsDelivered`, `DeliveredWithinLimit`, and the first two of `MilterPolicy` |
| `Verification` | 2 sessions, 3 mails of up to 3 signatures, 2 of them spooled; 1 or 2 verification slots or none in force, 1 worker; deadline 2, overrun 1; `FairSpec` | `VTypeOK`, `PoolsConserved`, `EndsInTime`, `RightOrDefers`, `EveryCheckEnds` |
| `ActivationSwitch` | 1 run at a time, 2 configurations, 5 directories, 1 failure, 1 run that ends half-way, 2 edits of main.cf | `TypeOK`, `RestorableStart`, `NeverOpen`, `NothingLost`, `RecordedMeansRunning`, `FailedRunRestores`, and that the records implement `UndoStack` (`HistoryIsStack`) |
| `ActivationOverlap` | 2 runs, 3 configurations, 4 directories, 1 run that ends half-way, an edit of main.cf | `HistoryWellFounded`, `NothingLost`, `RecordsImmutable` |
| `ActivationStaleRollback` | 2 runs | a violation of `HistoryIsStack`, see Findings |
| `Installation` | 1 run at a time, 2 releases and the installed tree, 2 configurations, 2 deployments, 2 failures, 1 edit | `ITypeOK`, `CompletedInstall`, `RollbackRestores`, `DetachedFirst` |
| `InstallationRerun` | the same | a violation of `NothingToChangeMeansRunning`, see Findings |

Why the bounds are enough. A span of two buckets has every kind of bucket: the
one a call falls in, the one before, the one the span begins in (a span touches
up to three), and older ones; days of buckets twice as long tell the spans
apart. Clock values 0 to 6 let the first bucket of a day expire. A store of one
key is full with the first, so that sweeps, refusals and unmeasured recipients
all happen. A lag of one unit is a whole bucket of the hour: real lags are far
shorter than the one-minute bucket, so every order of bucket boundaries that lag
can cause is covered. Three messages are one that fills a window, one that
competes and one that comes later. Around the saver the spans are shorter (an
hour of one bucket, a day of two): the three messages of a sender that no limit
reaches fill one bucket more than the loader takes when a save is late, with
those of the other sender a file has more than `MaxBytes`, and with the text of
the first in it, it is refused for that. A clock of four values holds a save, a
crash or a stop, a start and what expires meanwhile. Two sessions suffice for
the slots, as sessions interact only through the counters. `MaxRecipients`,
`MaxClock`, `MaxLag`, `MaxGiven` and `MaxMail` are the only bounds the code does
not have. Deadlock is not checked: with the bounds every instance stops when its
messages and its clock run out.

Two sessions are enough for the two pools of a check as well: with one worker
and two verification slots one waits for what the other holds. A deadline of
two and lookups of one leave time for SPF, for a signature or for neither, and
three signatures pass the bound of two. `Slack` of one is an answer that comes
after the deadline. The longest wait is one of a session for both slots.

An activation takes one directory, the first one two, so that five hold a first
attachment and three activations, failed runs or rollbacks: enough for a
rollback of a rollback (two activations, back to the first, back to the state
before it), of the first attachment, and for an attachment after that. `MaxDirs`
keeps a run from the lock only when there is no room for the directories it
makes. Of the configurations of `ActivationSwitch` one accepts and one enforces,
so that a switch is looser or stricter; `ActivationOverlap` has a second one
that enforces, so that one may also leave Postfix alone. Edits of config.toml
are possible in every instance and unbounded. Two edits of main.cf are one and
its return to what was there before, between any two steps of a plan. Two runs
are enough to overlap, as one of them holds the lock. `MaxDirs`, `MaxEdits`,
`MaxFailures` and `MaxCrashes` are the bounds. Two install deployments are an
install and an upgrade, or an install that fails and its repetition; rollbacks
take no directory, so that any number of them follow in any order. Two failures
are a deployment that stops half-way and its rollback that does, too. `Forced`,
`ByHand`, `HandRestarts` and `Meddling` name what an instance allows. The
passing runs leave out what Findings and Observations are about: two runs for
`HistoryIsStack`; edits under the lock, `--force` and Postfix attached by hand
altogether; and for `RecordedMeansRunning` and `NeverOpen` a second run, a
switch after one that ended half-way, and a restart of the daemon behind the
installer's back. One installer run is under way at a time in `Installation`,
for its size; the steps of `Install` and `Rollback` are still chosen before
edits, attachments and restarts, and `DetachedFirst` is proved for any number of
runs.

Fairness. All properties but `EveryCheckEnds` are safety properties, for which
fairness plays no part. It assumes of the code that a call whose time is up
returns (weak fairness of `Returns`), and that time passes (`TimePasses`): a
deadline in seconds is reached however many checks others begin and end
meanwhile. Nothing is assumed on which session gets a slot, nor that messages
arrive.

## Proofs

For any finite set of messages and texts, any limits, spans, sizes, capacity
and lag (`ConstantsAssumption`), `QuotaStoreProofs` proves

- `TypeCorrect`: `Spec => []TypeOK`;
- `ReservationsNeverLeak`: `Spec => []ReservationsAccounted`;
- `LimitsNeverExceeded`: `Spec => []WithinLimits`.

The inductive invariant is `IInv == TypeOK /\ ReservationsAccounted /\
WithinLimits`. None of the three is inductive alone: that a release leaves a
reservation count that is not negative (`TypeOK`) needs that the window holds
at least what the message reserved (`ReservationsAccounted`), and that a commit
keeps a window within its limit (`WithinLimits`) needs the same, as it turns
reserved recipients into counted ones. The lemmas before it say what `Expire`,
`AddCount` and `Total` do: expiry never raises a total, adding `n` raises it by
`n`. That a sweep keeps `ReservationsAccounted` rests on `Idle`: only a window
without reservations goes.

For any save interval on top of those (`SaverAssumption`), and any order of
saves, failing saves, stops, crashes and starts, `LimitStateProofs` proves

- `SaverTypeCorrect`: `LSSpec => []SaverTypeOK`;
- `RestartsStayWithinLimits` and `RestartsLeakNothing`: `WithinLimits` and
  `ReservationsAccounted` hold of `LSSpec` as they do of `Spec`;
- `CrashLosesLittle`: `LSSpec => []LossBounded`;
- `CleanStopLosesNothing`: `LSSpec => CleanStopKeepsAll`;
- `RefusalsExplained`: `LSSpec => []RefusalExplained`, if every bucket size divides
  its span;
- `SavedFilesNearlyLoad`: if moreover no lag is longer than a bucket, no file has
  more keys than the store or more than one bucket beyond what the loader takes.

`SaverInv` adds to `IInv` that the file and the one being written hold windows
whose counts alone pass no enforced limit (`Files`), without which a start could
load more than a limit allows; that the last save of a stop writes all that is
known (`LastSave`); and, for the loss, that what a save leaves out was
delivered after it, and that the saver's wait ends within one interval
(`Unsaved`). Calls of sessions are steps of the store, so that the lemmas of
`QuotaStoreProofs` carry over.

The last two add `FileInv`: no window has a bucket that starts after the clock,
and a file lists only buckets (`FileFits`) whose span had not ended when its
save read the clock, and which had begun when the save had the store's lock, at
most `MaxLag` later. Buckets begin at multiples of their size, so that numbering
them bounds how many there are (`BucketsBetween`). The sizes are 60 of 3600 and
900 of 86400 seconds in the code. The first of the two theorems names what a
refusal may come from, for any lag, texts and sizes: a file that is too big, a
key text (the finding `LimitKeyText`), a bucket begun after the save read the
clock (the first of the Observations). The second says that a lag never costs
more than the one bucket the observation shows.

From the same assumptions `ExactCountsProofs` proves

- `CountsAlwaysExact`: `Spec => []CountsExact`;
- `StoreKeepsPromise`: with enforced limits, `Spec => KeepsPromise`;
- `MemoryStaysExact`: `LSSpec => []MemoryExact`;
- `RestartsKeepLimits`: `LSSpec => []LimitsOutliveRestarts`.

Totals do not say what expiry will take from them, so the invariant is per
bucket: `Exact(K)` says that in every bucket the spans still have, a key counts
the recipients the messages of `K` delivered there. Expiry and the sweep touch
no such bucket, a commit adds to one. Totals are put together again without an
induction over the buckets: `SumOfBuckets` makes one bijection out of one for each
bucket. For the promise, `GrantedFits` compares what the store counts at a time
that may be late with what the span holds now: late means that more is counted,
never less. Across restarts `SavedExact` says the same of the memory and of both
files, each for the deliveries it knows; a start drops the buckets of the
future, in which an exact file counts nothing (`StartExact`).

For any number of sessions, any configurations, slots, messages and limit
(`SessionAssumption`: the bounds are positive and SPF has one of four results),
`MilterSessionProofs` proves

- `SlotsNeverLeak`: `Spec => []SlotsConserved`;
- `NoSlotReturnedTwice`: both counters stay within their bounds, so that no
  `BoundedSemaphore.release` raises in a callback;
- `PlacesFollowRecipients`: `Spec => []PlacesAreRecipients`;
- `MilterTypeCorrect`: `Spec => []MilterTypeOK`.

The invariant `SlotInv` adds the shape of the records, and splits conservation
into the open slots (`OpenConserved`), the verification slots
(`VerifyConserved`) and the stages in which a slot may be held
(`HeldWhileOpen`): without the last, MAIL could overwrite a held slot.

`CountInv` relates the places of each session to the parsed recipients Postfix
accepted (`PlaceOk`): a pickup message may have fewer places, but then an
enforced refusal waits in `deferred`, and `EffectiveEnforces`, a lemma on
`combine` and `effective`, makes the decision on such a message enforced, so
that it is not delivered. Without that clause a message whose refused recipient
has no place could be delivered and counted short. `Counted` says that the
store reserves the places of all sessions and has counted all that was delivered
but the recipients no parser takes (`unparsed`); `PlacesSplit` takes the places
of one session out of that sum.

From the same assumptions `PolicyProofs` proves what the counts and the limit
say of what Postfix delivers, and both directions of the policy, for any mix of
modes:

- `DeliveriesCounted`: `Spec => []CountsDelivered`;
- `LimitBinds`: `Spec => []DeliveredWithinLimit`;
- `EnforcedRulesBind`: `Spec => EnforcedRulesHold`;
- `RefusalsDeserved`: `Spec => OnlyEnforcedRefuses`;
- `RecipientRefusalsDeserved`: `Spec => OnlyEnforcedRefusesRecipient`.

What a message is decided on at its end was found out one recipient at a time,
so each direction has an invariant that carries the reasons there. `RuleInv`:
a message in progress either has an enforced refusal waiting in `deferred`
(`Waiting`), or every recipient Postfix accepted breaks no enforced rule, is
among those its From will be compared with, and there are not too many
(`AllAdmissible`); one that was not captured has the deferral for that
(`Captured`). `CauseInv` is the converse: what waits has its reason in the
message as it is (`Cause`), and an accepted recipient is one Postfix has, so
that no From is held against a recipient that was refused. `LimitInv` adds to
`RuleInv` that with an enforced `[protection]` nothing `unparsed` is delivered,
so that the counts and the limit are of everything that is. The lemmas on the
rules themselves (`RecipientHolds` and `RecipientBreaks`, `MessageHolds` and
`MessageBreaks`, `AuthenticationHolds` and `AuthenticationFails`) come in pairs
too, and `EffectiveEnforces` joins them across sections.

For any number of sessions and slots of both pools, any deadlines, bounds and
overrun, and any mails (`CheckAssumption`), `VerificationProofs` proves

- `AnswersInTime`: `Spec => []EndsInTime`;
- `CutShortDefers`: `Spec => RightOrDefers`;
- `PoolsNeverLeak`: `Spec => []PoolsConserved`;
- `VerificationTyped`: `Spec => []VTypeOK`.

The inductive invariant `CheckInv` has three parts for each session. `TimeOk`
relates the three clocks: `age + left` is the deadline, and `age + due` is at
most the deadline and one overrun, in each stage for a reason of its own, which
is what bounds the sum of waits that each are bounded by what is left.
`ThreadOk` says that the loop in the thread counts the same time as its
session, without which a lookup could begin in time that has passed. `FoundOk`
says what the code has found of a mail: the result of SPF is the mail's or a
temporary error, the outcomes are those of the first signatures, or a temporary
error, or neutral where the loop then says that it is incomplete. From it,
`Degraded` derives the decision: a lemma on `Authentication` alone, that results
replaced by temporary errors, or left out and said to be, keep it or defer. For
the pools `PoolInv` adds conservation; `VerifySlot` and `WorkerSlot` say what one
session's change of stage does to the two sets of holders. For the types,
`TypeInv` adds to it what a session between two checks still has, so that the
next one begins with no time counted and no outcomes.

For any runs, configurations, edits, failures and killed runs
(`ActivationAssumption`), `ActivationProofs` proves

- `HistoryWellFoundedAlways`: `Spec => []HistoryWellFounded`, each record's
  predecessor is an older record, so that going back ends;
- `RecordsNeverChange`: `Spec => RecordsImmutable`;
- `HistoryRestorable`: `~Forced => (Spec => []RestorableStart)`, the first record
  is of the files before the attachment, or Postfix was attached by hand, and a
  record that says detached has copies that do not use postwarden;
- `ActivationTyped`: `Spec => []TypeOK`;
- `OverwrittenIsKept`: `Meddling = {} => (Spec => NothingLost)`.

For one run at a time (`Sole`: no two runs, no `--force`, no edits under the
lock), with any number of directories, failures, killed runs and edits at rest,

- `HistoryIsUndoStack`: `Spec => HistoryIsStack`, the refinement of `UndoStack`;

if moreover only runs attach Postfix (`~ByHand`), and anybody restarts the daemon
at any time,

- `RulesNeverOpen`: `Spec => []NeverOpen`;

and if instead only runs restart a daemon that runs (`~HandRestarts`), and
Postfix is attached by hand or not,

- `RecordIsOfHost`: `Spec => RecordedMeansRunning`;
- `FailureIsUndone`: `Spec => FailedRunRestores`.

The invariant `HistoryInv` adds that the run at work fills a directory that is
no record yet, after an older record (`FillsFresh`), that a planned rollback is
of a record with a predecessor (`PlansRecords`), and that of the records one
has the greatest sequence number (`HasNewest`), without which the active record
need not exist. The first two theorems come from one lemma, `HistoryStep`: three
lemmas say what adding a directory, writing into it and its manifest do, and
every other step writes nothing.

The third adds `StartInv`, about the steps the run at work has left (`InOrder`).
Until a first record exists nothing has touched main.cf or master.cf
(`StartsDetached`), since the first activation files its root record before any
step of a switch (`RootFirst`, `RootPhase`; a failure there has nothing to undo).
A rollback to a detached record either has main.cf still to install, from copies
that are detached, or leaves it alone because it already is (`GoesDetached`).
The latter was decided before the lock: what makes it right is `PlansFit`, that
such a plan was made for the main.cf of the record it rolls back, and the
comparison with that record under the lock. `--force` skips the comparison, so
`~Forced` is assumed, and TLC shows it is needed: with two runs, six directories
and one killed run, a forced rollback that another run overtook leaves a record
that says detached with copies that use postwarden.

`ActivationTyped` carries in `TypeInv` more than `TypeOK` says: what a run works
on while it holds the lock, that the steps it has left are steps, and that no
two records have the same sequence number. `OverwrittenIsKept` adds `KeptInv`,
on the order of a switch. Its steps have a rank, which depends only on the part
that goes first, Postfix or the daemon; what is left is in rising rank, and so
is what is left of an undo, whichever parts had begun (`UndoFits`). So nothing
is installed before the copy of it is made, each file is installed once
(`SourceKept`), and what the undo overwrites is what the switch installed: what
a record has, or for configure-postfix what the run had staged. The latter is the
exception `NothingLost` makes (`OwnStaging`), see Observations.

The four theorems on one run rest on `SoleInv`, which has two more parts.
`FilesInv` is about the files alone: a record of an activation is of files that
fit together, the files on disk are what the run found or what it installs, file
by file as its steps left say (`FilesSwitched`), and a plan still fits the
records. It holds whatever was killed. `HostInv` is about Postfix and the
daemon, while no run was killed. At rest Postfix has loaded the files, its
failure action is the active record's, and a daemon that a run left is of that
record (`RestSound`). In a switch, `HostSwitched` says what each of the two is
according to the steps left, and `UndoSound` that the parts to be undone are
those that changed, newest first. In an undo, `Undoing` says that both go back
to what was found, and in which order: that is what `NeverOpen` needs, since the
part that must come last in one direction must come first in the other. Two
exceptions run through all of it. Of a daemon that somebody restarted
(`Foreign`) nothing is said until a run restarts it: `NeverOpen` is about
daemons an installer run left, the two others cannot do without. And what the
records say of Postfix holds as soon as there is one, if Postfix was attached by
hand (`Rooted`): `NeverOpen` needs it from the start, the others do not.

`HistoryIsUndoStack` needs the chain of a record, a function defined by
recursion over the predecessors. That such a function exists and is the only
one cannot be concluded by induction here. `ChainInv` carries it from step to
step instead: the empty history has one, and a new directory, whose predecessor
is older, extends it (`ChainsChange`, `ChainsWritten`). `StackInv` says that the
run at work fills a directory after the active record, or after the predecessor
of the one it goes back to. `RecordStacks` then shows that writing a manifest is
a push or a pop, and every other step a stutter (`NoRecordStutters`).

TLC says why each assumption is there. With `Forced` or with edits under the
lock all four fail; with two runs `HistoryIsStack` (`ActivationStaleRollback`),
`RecordedMeansRunning` and `NeverOpen` fail; attached by hand, `NeverOpen`; with
other restarts, `RecordedMeansRunning` and `FailedRunRestores`.

For any number of runs under way together, any releases, units, configurations,
failures and edits (`InstallationAssumption`), `InstallationProofs` proves

- `DetachedBeforeRemoval`: `Spec => DetachedFirst`;
- `InstallationTyped`: `Spec => []ITypeOK`;

and for one run at a time (`Alone`),

- `RollbackBringsBack`: `Spec => RollbackRestores`;
- `InstallCompletes`: `Spec => CompletedInstall`.

`DetachedInv` carries from the plan to the step what the step relies on: the run
that holds the lock took it while Postfix was detached if it removes anything
(`Holds`), and Postfix is attached only while no run holds the lock; a plan to
restore the unit or the launcher has a copy of it (`PlanOk`), so that restoring
is no removal; and only a rollback removes. Directories are only added to, and
what was there before is not written again.

`TypeInv` says which steps a plan may have left and in which order. `AloneInv`
says that what one run inspected and planned is still so when it has the lock
(`Waiting`), since nobody else works; under the lock, everything that is not as
it should be in the end has a step left that makes it so (`Installing`,
`RollingBack`), and a directory has the archive of the application exactly if
there was one and it was to be replaced (`Kept`). `TidyInv` adds, while nothing
has failed, that what is installed is installed as a whole and that the daemon
runs it or is down: what an install that has nothing to restart relies on, and
what `InstallationRerun` breaks after a failure. With two runs
`RollbackRestores` does not hold, see Observations.

Only model-checked: liveness (`EveryCheckEnds`), which is out of the proof
system's reach as is `ENABLED`. Every other property of a passing run
is stated by a theorem, some of them under the assumptions named above.

## Findings

- *A key text resets every window* (`LimitKeyText`). `limit_key` takes the raw
  text of a local sender that cannot be parsed, empty or of any length, and
  `restore` refuses a file with such a key, where docs/Operations.md:174 says
  that restarts keep the windows.
- *A rollback may go back two records* (`ActivationStaleRollback`). That the
  record is the active one is checked before the lock (deployment.py:1123); under
  it only files are compared. When another run meanwhile records the same files
  (a metadata-only activation), the rollback pops that record too, where
  docs/Operations.md:287 says that only the active deployment can be rolled
  back. With one run at a time the history is a stack (`ActivationSwitch`).
- *A repeated install may leave the old release running* (`InstallationRerun`).
  Whether the daemon must be restarted is decided from what the run changes and
  whether a daemon is active (deployment.py:721-723), not from what it runs.
  After an install that stopped between the copy and the restart, the same
  install finds nothing to change, where docs/Installation.md:107 says of an
  upgrade that the release is copied in and the daemon restarted.

## Observations

Instances that break a property and are not among the runs, because the
condition is rarer or the documentation less definite. Each is a change of
constants or of a condition.

- `SnapshotLoads`, `LimitRestart` with `BadTexts = {}` and `MaxBytes = 20`, so that
  nothing else is refused: `save` reads the clock (limitstate.py:67) and then
  waits for the store's lock; a commit that enters a new bucket in between leaves
  one bucket more in the file than `_window_from` takes. `RefusalExplained` has
  this as one of the reasons it allows (`ListsLater`).
- `DeliveredWithinLimit` without its exception, or `CountsDelivered` without,
  `MilterShared`: a recipient that cannot be parsed is accepted when
  `[protection]` only observes, and takes no place on a limit, as `envrcpt`
  returns before `_reserve` (milter.py:207); ADR-0027 says that the limits count
  the recipients actually delivered (line 36) and that an observed section opens
  no path around an enforced one (line 43). The two properties say both of
  recipients that parse, and of all once `[protection]` enforces.
- `RecordedMeansRunning`, `ActivationSwitch` with two runs and no killed run:
  whether the daemon needs a restart is read before the lock
  (deployment.py:1052), and is stale after another run's failure and an edit
  back; and whether Postfix needs one is decided from what was staged, so that a
  run that staged what another run was about to undo records an activation of a
  Postfix that is detached (deployment.py:1079). With `MaxDirs = 4` and no
  killed run the same breaks `NeverOpen`: the failed run restarted an enforcing
  daemon that the next one, with another configuration on disk, does not restart
  before Postfix accepts on failure.
- `RecordedMeansRunning` without its condition `crashes = 0`,
  `ActivationSwitch`: a run killed between the files and the reload leaves nothing
  to change, so that the next one records them without a reload
  (deployment.py:1079).
- `NeverOpen`, `ActivationSwitch` with `ByHand = TRUE`: with Postfix attached by
  hand there is no record, the configuration a failed run restores is the one
  it was to activate (deployment.py:1093), and its undo leaves an enforcing
  daemon behind a Postfix that accepts on failure.
- `HistoryIsStack`, `ActivationSwitch` with `Forced = TRUE`: a rollback restores
  what differed when it was planned (deployment.py:1132), and keeps a file
  edited between plan and lock.
- `NothingLost`, `ActivationOverlap` with `Meddling = {"main"}` or `{"config"}`:
  the files are compared once under the lock (deployment.py:1072), an edit after
  that is overwritten.
- `NothingLost` without `OwnStaging`, `ActivationSwitch`: main.cf is edited after
  the inspection, staged as it is then (deployment.py:862), and the edit is taken
  back before the lock. The check under the lock compares with what was
  inspected (deployment.py:304) and finds nothing; the run installs the edit that
  was taken back, and a failure that is undone overwrites it, which no directory
  has. Without a failure the record describes Postfix with that edit.
- `RollbackRestores`, `Installation` with two runs, no edits: of two installs that
  start together the second inspects before the first has copied and then keeps
  no archive of what it replaces (deployment.py:748). Also, a forced rollback
  planned of the directory of an install that is under way removes what it found
  missing then, and leaves the launcher that came later.

Read from the code, without a run:

- A full store of long key texts is a file of any size (limitstate.py:68), which the
  loader refuses beyond `MAX_STATE_BYTES` (limitstate.py:42): nothing keeps what
  is saved below it. `RefusalExplained` allows for it (`Oversized`).
- `configure-postfix` asks for a running daemon before it has the lock
  (deployment.py:1039 and 1071): the rollback of the first install in between
  leaves Postfix attached to a daemon that is gone. `Installation` has this
  (`PlanAttach`), and `DetachedFirst` does not exclude it.
- An install that fails part-way restores nothing by itself, unlike an activation;
  the rollback of its directory does. With `--force` a rollback overwrites edits
  without a copy, and installs may be rolled back in any order.
- A second daemon that is started with `run --socket` writes the same state file
  (limitstate.py:79).

## Not modelled

- How main.cf and master.cf are rendered by postconf (`postfix.py`),
  `--remove-legacy`, and the modes and owners of single files.
- Reading and checking the configuration, parsing addresses, headers and logs,
  printing: string handling without state. The models take its results.
- What SPF and DKIM find: an input of `Verification`.
- Statistics, log tools and simulation, which keep no state, and the building of
  releases.
- A wall clock that steps back, and two daemons on one state file: the code
  makes no promise for either.

## Plan

Done: the store with its promise, the state file, the policy and the sessions,
the checks with their slots, the activation of configurations, the installation;
the theorems above. What is left, in this order:

1. `Installation` and `Activation` composed, with one lock and one daemon; the
   publication of the loaded hash by two processes (`wait-ready`, a second
   daemon).
2. `Tally`: what `stats.py` reports of the log lines of a session against what
   the store committed.
