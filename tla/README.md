# Verification of aioaquarea and the heat-pump optimizer

This directory holds a TLA+ model of the parts of the repository whose correctness
depends on the order in which things happen, or on rules that must agree with one
another: who may send a device command, what a crash leaves behind, which answer belongs
to which question, which evidence a verdict may rest on. Paths below are relative to the
repository; `core/`, `optimizer/`, `poller/`, `api/` and `ml/` stand for
`heatpump-optimizer/packages/...`, `scripts/` for `heatpump-optimizer/scripts`.

Contents: 1 the system; 2 the modules; 3 the runs and their bounds; 4 fairness;
5 proofs; 6 disagreements with the repository's words; 7 observations; 8 hazards beyond
the list; 9 not modelled; 10 what is left.

## 1. The system

The repository has two programs.

**aioaquarea** (`aioaquarea/`) is an asyncio client library for the Panasonic Aquarea
cloud. It keeps a session (`core.py`, `auth.py`, `_android_version.py`), sends requests
and recovers from refusals (`api_client.py`, `decorators.py`), keeps a device list
(`device_manager.py`), and builds and decodes the requests of each device (`entities.py`,
`data.py`).

**heatpump-optimizer** (`heatpump-optimizer/`) is a set of services around one
PostgreSQL database and one Redis: a *poller* that reads device, weather and price data
and trains models, an *optimizer* that computes diagnostic plans and carries out the only
device writes this build allows (linked restores), an *API* and a *web* interface, and
tools for backup and reset. The services share no memory; they meet in database rows,
advisory locks, Redis keys, files and the device.

| Component | State | Operations | What makes it hard |
|---|---|---|---|
| Linked-restore ownership (`optimizer/executor_core.py`, `core/safety_attempts.py`, `core/safety_reverts.py`) | plan-action rows with a claim token, drainage evidence, process fences, session advisory locks, SDK calls | acquire, claim, preflight, send, verify, drain, requeue, complete, release | two processes, crashes, lost sessions, commits without acknowledgement, calls that outlive their attempt |
| Restore verification (`optimizer/executor_core.py`, `core/device_data_quality.py`) | an attempt's checkpoints and clocks, stored and live statuses | precondition, reserve, read, settle, expire | statuses that are late, cached, or older than the command |
| Showers (`optimizer/shower_mode.py`, `core/safety_reverts.py`, `api/routers/optimizer.py`) | open events, the restores they owe | detect, recover, expire, reschedule, resolve, migrate | poller, watchdog, attempt and operator move the same two rows |
| Log queue (`core/log_sink.py`) | bounded queue, reservations of encoding threads, in-flight batch, flusher, writer, lease | log, flush, retry, shut down, bind, release | threads and an event loop, resisting cancellation, one time budget for the shutdown |
| Service start and teardown (`core/runtime_ownership.py`, `core/scheduling.py`) | jobs, threads, the client, the engine, the sink | serve, signal, cancel, clean up | repeated signals, threads that cannot be interrupted |
| Client session (`aioaquarea/core.py`, `auth.py`, `api_client.py`) | two copies of the token, client id, login generation, app version, locks | login, refresh, request, recovery, rotation | several tasks, every await, cancellation, answers to old requests |
| Device list, device objects (`aioaquarea/`) | cached list; last status of each object | get_devices; refresh, set_mode, set_special_status, ... | a failed first call; commands built from an old status |
| Service wrapper (`core/services/aquarea.py`, `core/resilience.py`) | authentication, cached device, breakers, read bucket, backoff | reserve, authenticate, read | shared by processes; waits between paying and reading |
| SmartThings tokens (`poller/smartthings_oauth.py`) | one token row | save, load, refresh, delete | a refresh token works once |
| Diagnostic planning (`optimizer/main.py`, `core/house_contract.py`, `core/settings_service.py`, `poller/main.py`) | request queue, contract revisions, dependency generations, plans | queue, claim, freeze, admit, store, finish, fail | settings that change while a plan is solved, crashes between commits |
| Planner rules, solver and replay (`optimizer/rules_engine.py`, `rule_mixins.py`, `milp.py`, `represented_strategy.py`) | the list of actions of a plan | five room rules, DHW rules, solver constraints, replay, certificate | rules that write to one list; two models of one hour |
| Model lifecycle (`ml/lifecycle.py`) | lifecycle row (gate, lease, fence, revision), requests, artifacts, checkpoints, files | cycle, claim, fit, publish, review, decide, promote, retire, prune, gate, reset | lease loss at any moment, looks that may be taken once |
| Artifact files (`ml/safe_persistence.py`) | files, directory entries, rows and issues that name them | write, flush, verify, commit, prune, give up | loss of power between any two of them |
| Evidence and verdicts (`ml/lifecycle.py`, `ml/forecast_quality.py`, `core/space_heating_gate.py`) | issues, outcomes, scans, saved plans, gate | issue, scan, score, look, ingest | what is known of the past changes after it was scored |
| Serving and status of models (`ml/thermal.py`, `ml/comfort_model.py`, `ml/model_status.py`) | a process's copy of a model, a shared generation of a snapshot | refresh, reset, predict, join, cancel | awaits between loading a model and using it |
| Settings, prices, seasonal campaign (`core/settings_service.py`, `core/price_scope.py`, `poller/feeds.py`, `ml/seasonal_learning.py`) | settings that must agree, the bound home | bulk write, poll, bind, transition | values read before the locks |
| Manual COP (`core/cop_monitoring.py`, `api/routers/feeds.py`) | ledger by revision | edit, delete, page, project | tabs, lost answers, hindsight |
| Alerts and heartbeats (`core/operational_alerts.py`, `core/external_heartbeat.py`, `core/service_health.py`) | heartbeats, delivery record | evaluate, send, store, ping | lost answers; two computations of one silence |
| Backup, drill, restore, reset (`scripts/`, `core/backup_health.py`, `core/data_reset.py`) | archives, one status row, database names, receipts | dump, publish, prune, drill, rename, retire, wipe, replay | scripts that are killed; renames and commits whose answer is lost |
| Fits, statistics, arithmetic, read-only API, web, migrations | rows, views, numbers | see section 9 | mostly data, not order |

How they interact: the optimizer's executor uses the service wrapper, which uses the
library's client (one session shared by all tasks of the process). Settings written by
the API revise the house contract and the maintenance gate in the same transaction, and
thereby make running plans and running training obsolete. Every service logs through the
log queue. A reset revokes models and refuses while restores are unresolved. A shower
makes the restore that the executor then owes.

## 2. Modules

One module per component, with its variables, `Init`, one action per step, `Next` and
`Spec`. `MC...` modules only name model values, bounds and the symmetry of an instance.
"Step" is the grain: what happens between two steps can be interleaved; a transaction, or
the code between two awaits, is one. `PROJECT.json` names for each definition the lines
it stands for. An operator whose comment begins with "Mutant" (or that stands before the
definition it resembles) is a plausible bug of that definition; it is used by no
specification, only to see that the property notices.

### RestoreLedger, RestoreOwnership, RestoreOwnershipProofs

`RestoreLedger` is the abstract promise: for each device, at most one restore is being
called, and a restore is settled once, while its device is quiet. `RestoreOwnership` is
the code: each action is one transaction or one external effect of an *attempt*
(`Acquire`, `TryLock`, `Bind`, `Claim`, `Preflight`, `Authorise`, `Send`, `CallReturns`,
`RecordDispatched`, `Verified`, `Drain`, `Requeue`, `Complete`, `Unlock`, `Unfence`), of
the shower watchdog (`ShowerReschedule`), or a fault (`Crash`, lost session, stuck call,
unacknowledged commit). A row's `result_json` is modelled by the one thing the code reads
in it, whose drainage it proves.

What the model taught about the code:

- the *rows* give exclusivity, not the session lock: a process whose session was lost can
  still be calling the device, and the next one is kept out by the unresolved token;
- a row that is `executing` or `dispatched` never carries drainage evidence, so the branch
  that would reclaim a stuck row is never taken: after a crash during a call the row, and
  its device, stay closed until an operator acts. This is the documented intent, and why
  `EveryRestoreSettles` is stated without faults;
- rescheduling by the shower watchdog (`shower_mode.py:157-164`) erases the evidence and
  keeps the token, which closes the device for good (run `restore_reschedule`).

### LogSink, LogSinkProofs

Rows go from `reserved` (a thread encodes them) through the queue to `written`, `dropped`
or `discarded`. `FlusherWakes`/`StartWriter`/`SettleInflight` are `_flush_once`,
`_flush_locked` and `_settle_inflight`; the `Controller...` actions are the stages of the
bounded shutdown; `Bind`, `Release`, `Configure` are the lease. Writers commit and end as
the database driver decides, and may resist cancellation. Left out: failure to create a
task, and the thread that prints diagnostics.

### ClientSession, ClientSessionProofs, DeviceDiscovery

A task's call goes through `Begin` (the decorator), `LockLogin`/`LockRefresh`, the stages
of an authentication, `Serve` (the cloud), `Receive` with at most two recoveries. Both
copies of the token are kept apart, because `auth.py` writes one and the client publishes
the other later. Tokens are drawn from a finite set in the order of issue. The demo
environment and page parsing are left out. `DeviceDiscovery` is the list in front of it.

### PlanAdmission, PlanAdmissionProofs

Requests queued by the API and the poller, the optimizer's two jobs, and the settings
service. `Freeze` reads the contract under the optimization lock, `Admit` checks it again
under the contract lock, `Store` commits. Solving is nondeterminism between a plan and no
plan. One counter stands for the two dependency generations the code compares together,
and a contract's hash is its revision. Only one optimizer process runs: its scheduler is
configured with one instance per job, and the optimization lock is in that process.

`qualified` says whether the settings in force with that process give the current revision
(`ensure_current_contract` compares their digests and raises `ContractSettingsMismatch`). A
save of a contract setting makes a revision and decides it anew; between saves it changes
only when the process is started with another default in its environment or other time zone
data (`Reinstall`), for a setting nobody has stored. While it is false, no plan is begun or
admitted, and a run without a plan cannot write why; and `Claim`, which is one transaction, does nothing
as long as a request is pending: the mismatch rolls back the whole of it, with the failing of
abandoned requests that came first (`optimizer/main.py:1073`). With nothing pending the
contract is not read, and that part commits.

### ModelLifecycle, ModelLifecycleProofs

One component of `LIFECYCLE_SCHEMAS` (the loop over components repeats it). A runner goes
through `Prepare`, `Acquire`, `BeginCycle`, `EnqueueScheduled`, the reviews, and then
`ClaimRequest`, `Fit`, `Sign`, `Publish`, `FinishRequest`, `Prune`, `Release`. `Live` is
`_lease_conditions`, checked by every transaction. Fences and revisions come from one
sequence and are compared only for equality, so the model keeps with each held number
whether it is still the row's; this makes the state finite without a bound on the number
of leases. The evidence of a review is the choice of its decision; where it comes from is
`ProspectiveEvidence`, what happens to the files is `ArtifactStore`. Artifact retry
backoff is a fault that ends the review, and the 24-hour grace of orphan files is left
out, which only lets this model prune more. Thermal families are not modelled.

### AccountServices, CustodyServices, EvidenceServices, MCServices

The services around the lane and the planner share no state in the code that their modules
do not hold themselves. They are put side by side, not interleaved: a behaviour is one of
them, and the variables of the others are `"absent"`. Each module keeps constants and bounds
of its own, named `<service>_<constant>`.

- `AccountServices` (variable `account`): what stands between the program and its owner:
  `SmartThingsTokens`, `LoginBreaker`, `DeviceAccess`, `ReadQuota`, `DeviceObject`, `Alerts`,
  `PriceBinding`, `SettingsStore`, `OperatorReset`. Proofs in `AccountProofs`.
- `CustodyServices` (`custody`): what others rely on when they go on: `BackupArchive`,
  `DatabaseCutover`, `ArtifactStore`, `ServiceShutdown`, and the planners whose plans are kept
  or refused, `TankPlan` and `ZonePlan`. Proofs in `CustodyProofs`.
- `EvidenceServices` (`verdict`): what a verdict or an answer rests on: `RestoreEvidence`,
  `ShowerEvents`, `HeatingGate`, `ProspectiveEvidence`, `ForecastScorecard`,
  `ReadinessSnapshot`, `ModelServing`, `ManualCop`. Proofs in `EvidenceProofs`.
- `MCServices` extends the three and gives every module its instance; `OneActs` says that
  exactly one of all acts.

The twelve properties of the run put together, by what they protect, the properties of the
modules; each conjunct is stated and explained in its module.

| Module | Models | Property | Instance |
|---|---|---|---|
| `SmartThingsTokens` | the one row of credentials: refresh under its advisory lock with a second reading, consent, disconnect, expiry, refusal; poller and API are processes | `PresentsUnspent`: no refresh token is presented that SmartThings has exchanged, except after a crash that lost its successor | 2 callers, 3 grants, 1 fault |
| `OperatorReset` | plan, retirement and wipe in two transactions, receipts on disk, replays with the same or an altered manifest, workers that start | `ReceiptsAreTrue`, `WipeOnlyProven`: a receipt says only what is committed, and history is wiped only after the same operation's retirement is proven | 2 runs, 1 operation, 1 fault |
| `LoginBreaker` | the breaker of each process, the one in Redis, and logins between asking and counting | `LoginsAreBounded`: failures in a row stay within the breakers, counting restarts, outages and logins under way | 2 processes, threshold 2, 2 restarts, 1 outage |
| `DeviceAccess` | a read from payment to answer: bucket or process limiter, device lock, cached status, login that takes the account from Settings, backoff | `ReadsArePaid`: a read goes to the account that paid for it | 2 tasks, 2 accounts |
| `ReadQuota` | the Redis script: level and time of last update, manual reserve, expiry of the key | `SpendingIsBounded`: every stretch of time spends at most a full bucket and what refills in it | capacity 4, cost 2, reserve 1, expiry 8, horizon 10 |
| `Alerts` | heartbeats, alerts of services, device, restores and gate, delivery with throttle, the outside ping | `WithheldWasReceived`, `PingOnlyInService` | horizon 3, throttle 2 |
| `BackupArchive` | attempts at several destinations, their shared row, publication, retention, drills, health | `RecordedIsKept`, `OneDump` | 2 destinations, 3 archives, 1 drill, horizon 2 |
| `DatabaseCutover` | the candidate, two renames with lost answers and rollbacks, kills, the lock, the writers | `OriginalIsKept`: the original is there under the live or a kept name, what has the live name is whole, and it is vacant only between the renames or once the operator is told | 2 runs |
| `RestoreEvidence` | clocks, checkpoints, quota and bounds behind the answer that closes a linked restore | `EvidenceIsCurrent`: it is what the pump was, after the source and the command settled and not long ago; reads are paid for | horizon 4, 3 checkpoints (2 live), stored statuses fresh for 2, live ones for 1, budget 2 |
| `ShowerEvents` | two checkers that lock device, event and action one after the other, the attempt, the operator, the migration and its way back | `OpenShowersAreOwed`, `RestoresCloseOnce` | 1 device, 1 shower, 1 fault |
| `HeatingGate` | hysteresis above a configured base, fingerprint of base and offsets, and the transaction that stores a status with the transition | `GateIsEarned`: the gate is what a reference definition makes of the accepted readings of one configuration | 2 writers, 2 readings, 3 temperatures |
| `ProspectiveEvidence` | issues, paged scans, looks and gates of a qualification while knowledge of the past grows | `QualificationIsEarned`: pairs that stand, complete coverage, one look | 2 slots, 1 look, pages of 2, 1 crash |
| `ForecastScorecard` | which saved forecasts count, comparison of baselines, the gate and its streak | `ControlIsEarned`: control is allowed only after a streak of passing evaluations of the mode in force; `EvidenceAgrees`: all plans of an issue agree on what is counted | 2 devices, 2 plans, 2 evaluations |
| `ModelServing` | a process's copy of comfort and thermal models across awaits, a planning cycle's captured contexts | `ForecastsAreCurrent`: an answer comes from one model, the committed one, of the sensors in force | 2 requests and a planner, 3 turns of the world |
| `ReadinessSnapshot` | the shared generation with its uninterruptible thread; how collection, fit (with its rejections and its metrics) and qualification become a next step | `AnswersAreTheirOwn` | 3 callers, 2 keys, 2 waiters, 2 generations; the response deadline passes |
| `PriceBinding` | binding, diagnostic, scopes and the write of prices, a transaction each | `PricesAreTheHomes`, `OnlyTheOwnerRebinds` | 2 polls, 2 homes, 1 choice |
| `SettingsStore` | bulk writers and the seasonal transition, with the order of their locks and the lock timeout | `SettingsCohere`, `StartsWithoutDebt` | 2 writers, 2 writes |
| `ManualCop` | edits by revision, what a request reads, pages, verdict and backtest of the projection | `EditsAreSeen`, `QueriedIsEnough`, `NoHindsight`, `PagesListAll` | 2 editors, 4 dates, days of 2 ticks, 2 time zones |
| `DeviceObject` | several objects of one pump, cached and live refreshes, the commands built from them | `CommandsAreTheOwners`: what was not asked for is sent back as last seen, modifiers do not drift | 3 objects, one of them listed bare, 3 turns |
| `TankPlan` | DHW rules, the solver's constraints, and the replay that certifies | `KeptPlansWork`, `SolverAndReplayAgree` | 4 hours of two parts |
| `ZonePlan` | the room rules one after the other, and the normalisation | `RulesCompose`, `BoostsCanWork` | 6 hours, 2 curves of each kind |
| `ArtifactStore` | write, flush, rename, verify; rows and issues that name files; pruning; outages and damage | `ReferencedFilesStay`, `OnlyDamageRetires` | 2 workers, 2 files, 2 attempts, 1 fault |
| `ServiceShutdown` | jobs and their threads, cancellation, teardown in order, failing starts | `DisposedWhenUnused` | 3 jobs, 2 signals |

Abstractions worth knowing: times are ticks, the ratio of periods and thresholds is kept
(a horizon is chosen so that each can pass); temperatures and errors are the few values
the code's comparisons tell apart; a digest is its content; a process that dies loses what
it held and nothing else; a statement or a rename may commit and lose its answer where the
code handles that. In `TankPlan` an hour of heating has two parts instead of sixty minutes
and rates do not follow the outdoor temperature. In `ZonePlan` how the house warms is
declared with the forecast. In `ArtifactStore` a name in a directory and the bytes it leads
to are durable separately, and a loss of power keeps what was flushed. A configuration of
`HeatingGate` stands for a base and both offsets; the model varies the base only. In
`ManualCop` the database's clock is up to `Skew` ahead of the application's and is assumed
never behind it: a row can seem to be of the future, and none of the past is missed. `Alerts`
takes the counting of failed evaluations from `ingest_device_status` and leaves to the
environment when one fails. `TankPlan` and `ZonePlan` carry the prices, temperatures and needs
of each hour because their rules, constraints and replay decide by them; what is only
explained or scored is left out.

## 3. Runs

| Run | Instance | States | Shows |
|---|---|---|---|
| `ownership` | 2 processes, 2 restores of 1 device, one possibly claimed before tokens existed; each fault kind | 150,390 | one call per device, true drainage evidence, settled restores are quiet, no take-over while acting, refinement of the ledger |
| `restore_progress` | 1 process, 2 restores, no faults | 4,578 | every restore settles |
| `restore_reschedule` | as above with the shower watchdog | | **violated**: rescheduling makes a restore unclaimable |
| `log_sink` | 3 rows, queue of 2, 2 attempts, one restart of the sink | 372,692 | rows accounted for once, within the limit, the batch at the head; one writer; quiescence; shutdown ends; no row stays |
| `client_session` | 2 callers, 2 tokens | 60,610 | shared authentication, at most one execution, complete logins, calls end |
| `client_publish` | same | | **violated**: a login publishes a token another task rotated in |
| `device_answers` | 4 calls | | **violated**: a failed first listing is answered with "no devices" |
| `plan_admission` | 2 requests, 2 revisions, 1 generation change, 2 plans, crashes, restarts with other settings | 376,835 | current plans are current, one plan per request, plans are stored for their inputs, requests end |
| `plan_price_horizon` | 1 revision | | **violated**: the price-horizon refresh never runs |
| `model_lifecycle` | 2 runners, 2 requests, 2 artifacts, 1 checkpoint, 1 fault | 2,255,142 | one candidate and incumbent, final resets, single looks, comparators kept, one running request |
| `model_progress` | 1 runner, 1 request, 2 artifacts, 1 fault | 204,963 | nothing runs or stays a candidate for ever |
| `services` | the instances of section 2, one at a time | 1,544,587 | the twelve properties of `MCServices` |

Why the bounds are enough: the interesting conflicts are pairwise (two processes, two
tasks, two runners, two editors), so two of each actor suffices, with a second resource
where one must be left behind by another (a second token, a second artifact to be compared
with the first, a third log row to overflow a queue of two, a third archive for retention
to choose from, a third caller to join a generation that the first two leave).
`MaxRevision = 2` lets one revision happen during a plan; tokens for each claim of each
actor are provided so that no run ends for lack of one. A single fault in
`model_lifecycle` can be any of nine kinds at any step; with one request and two faults the
same properties were explored too (4.5 million states), and the run keeps the variant
with two requests because `OneRunning` needs it. A horizon lets every age and throttle of
its module run out once. Where section 5 has a proof, the proof replaces the argument.

Symmetry is declared only in runs without liveness, over actors that are treated alike; in
`services` these are `p` and `q`, while homes, accounts and providers that the code tells
apart are the other constants.

`log_sink` and `services` are checked without deadlock checking: a sink that is shut down
and never bound again really stops, as does a service whose bounded inputs are used up.

Every property has a mutant in `PROJECT.json`: a definition, the form a plausible bug would
give it, and the property that is then violated in the same run.

## 4. Fairness

- RestoreOwnership: an attempt that can go on does (`WF` on `Advance`: asyncio tasks with
  timeouts on every wait), observation windows end, and the executor's periodic poll gets
  to each action again and again (`SF` on `Acquire`, since another restore of the device
  may be in its way repeatedly).
- LogSink: the event loop runs its ready tasks and time passes (`WF`). That the database
  driver ends its writers is an antecedent (`DriverEnds`) of `AdmittedIsSettled` only;
  `ShutdownEnds` holds without it.
- ClientSession: the cloud answers or the request times out (`WF`), and an asyncio lock is
  granted in turn (`SF` on the two lock actions: a task may find it taken, but waiters are
  served in order).
- PlanAdmission: the queue job polls (`SF` on `Claim`, disabled while the job is busy), a
  job that runs advances unless the process dies, and clocks pass deadlines. That a poll
  succeeds is not assumed: `Claim` is disabled whenever its transaction would roll back, so
  `RequestsEnd` promises that every request ends only if the settings give the current
  revision for good from some time on (`<>[]qualified`), and without it only that abandoned
  requests end or a pending one stands before them. Neither part holds with its condition
  dropped.
- ModelLifecycle: the six-hourly job runs again, a runner takes its next step, leases and
  checkpoints mature. Faults are bounded by `MaxFaults`, because a runner that always
  loses its lease makes no progress; `CandidatesEnd` also assumes that maintenance stays
  enabled from some time on, which the README of the program says it needs.
- The services of `MCServices` are checked for safety only and state no fairness.

## 5. Proofs

Eight modules hold theorems, about five components that have a run of their own and about
the three groups of services. Each proves, for every value of the constants, type
correctness and the safety properties its run checks on a small instance. The inductive
invariants of the larger ones were first checked by TLC on such an instance. Bounds such as
`MaxTurns` or `Horizon` are constants too, so the theorems hold however far a behaviour goes.

**RestoreOwnershipProofs**, for any numbers of processes, restores, devices and tokens and
under every set of faults: `TypeCorrect`, `Ownership`, `OneCall`, `OneWorker`,
`DrainProofTrue`, `SettledQuiet`, `FencesInOrder`, `LegacyFences`, `NoTakeover`,
`Refinement`. They rest on `OwnershipAssumption` alone (each restore has a device or an
unknown one; the special values are not processes, tokens, devices or restores).

"At most one call per device" says nothing about a call whose process has crashed, so it is
not inductive. `OwnershipInv` adds that a call or a working attempt is covered by a row
that is claimed with its token and unresolved (`CallsAreClaimed`, `WorkersAreClaimed`),
that tokens identify claims (`TokensIdentify`), that no other row of the device is claimable
meanwhile (`WorkersAreAlone`), and that a session lock is held inside its process's fence
(`FencesNested`). There is one lemma for each kind of step, and `OwnershipPreserved` puts
them together. For the refinement, `BusyIsTheCall` shows that the ledger's busy restore is
the one call there is; each step then maps to a ledger step or to a stutter.

**PlanAdmissionProofs**, for any set of requests and any bounds on revisions, plans and
crashes: `TypeCorrect`, `PlansAreCurrent`, `CompletedHavePlans`, `RequestsHaveOnePlan`,
`PlansMatchInputs`. That plans shown as current are of the current contract depends on a job
that is between its check and its commit, so `PlanInv` adds that a job which has passed the
check still has the revision and generation in force (`CheckedIsCurrent`: whoever changes
them takes the contract lock, which the job holds) and that no plan is of a future revision
(`PlansArePast`). `RequestInv` adds which requests may have a plan at all: a waiting one has
none (`WaitingHaveNoPlan`), the scheduled job serves none, a manual job serves the request
that is marked running (`ManualServesItsRequest`). A crash between the plan's commit and the
request's completion therefore leaves a request that is running, which is never claimed
again.

**ClientSessionProofs**, for any numbers of concurrent calls and tokens: `TypeCorrect`,
`LockIsHeld`, `LoginsAreShared`, `RequestsExecuteOnce`, `RequestsFollowLogins`. The
invariant relates the lock to the one task that authenticates (`LockHeldByAuthenticator`,
`OneHolder`) and says of each call, stage by stage, what it has executed, how often it was
sent and which generation it saw (`Good`). A login generation changes only under the lock,
which is why a waiter that sees another generation than the one it came with need not
authenticate; and a device request is recovered only when it was refused, not executed.

**ModelLifecycleProofs**, for any numbers of runners, requests, artifacts, checkpoints and
faults: `TypeCorrect`, `RolesAreUnique`, `ResetsAreFinal`, `LooksAreSingle`,
`ComparatorsAreKept`, `RunsAreSingle`. Runners overlap freely; what keeps them apart is the
fence, so `LeaseInv` says that a runner whose fence is the row's is the holder.
`RequestInv`: when a cycle begins, every running request is of an earlier fence, and from
then on nothing runs but the runner's own. `RoleInv`: one candidate and one incumbent, each
with its file and comparator, which pruning protects. `HistoryInv`: a decision checkpoint
that is open has not been scored, unless its artifact is from before a reset; and what a
fenced runner has in hand is not from before one (`MyArtifact`), because a reset takes the
fence away. The steps are grouped by what they touch: `Turn` for a step that only moves one
runner, `NewFence` for those that replace the fence, `Alone` for two runners that cannot
both be live, `PublishedKeeps` and `InvalidatedKeeps` for the two large transactions.

**LogSinkProofs**, for any rows and any limits of the queue, of a batch, of attempts and of
restarts (`LogSinkAssumption`: naturals, the first three positive): `SinkInvariant`,
`RowsAreAccounted`, `SettledSinksAreQuiescent`, `WritersAreInOrder`. Every admitted row is in
the queue, acknowledged or lost, and in one of these only (`Account`); what a writer holds is
the head of the queue (`WriterIsOfQueue`), which is why acknowledging it removes the right
rows; and a row has been stored no more often than it spent attempts, one of which is still
open while its writer has not committed (`AttemptsCover`), which bounds duplicates by
`MaxAttempts` even where a writer commits and is then cancelled. `ShutdownOrder` says how far
the flusher is at each stage of the controller; quiescence follows from it.

**AccountProofs**: `AccountTypes`, `TokensAreUnspent`, `FailedLoginsAreBounded`,
`StretchesAreBounded`, `AccountIsProtected`, `SilencesAreTold`, `BindingsAreTheOwners`,
`SettingsAreCoherent`, `ResetsAreProven`.

- *Tokens*, for any callers, grants and faults (`TokensAssumption`: a natural bound, `NoRow`
  is neither a number nor a row). A task inside the lock presents the token it read there, so
  the stored token must be unspent whenever nobody is inside with an answer
  (`TokensRowIsUnspent`), which holds because one task is inside (`TokensOneInside`), an
  answer's own refresh token is fresh and a consent's is nobody's before it is stored.
- *Logins*, for any finite set of processes and any threshold of at least one
  (`LoginsAssumption`). The failures of a period are counted, about to be counted, or died
  uncounted with their process; those counted and those under way are at most the threshold,
  less one, and the processes (`LoginsFailuresAreCounted`). It holds until Redis has been
  away once; the property itself counts what outages add.
- *Device reads*, for any tasks and accounts (`DeviceAssumption`: no account and the local
  payer are not accounts). `DeviceSound` says, place by place, what is in a task's purse and
  what it knows of the device. A read goes to the account that is logged in, because whoever
  changes it holds the device lock (`DeviceOneHolds`) and whoever takes the lock is admitted
  again if the account is another than the one it paid for.
- *The bucket*, for any capacity, cost and manual reserve (`QuotaAssumption` asks that the key
  live at least as long as the bucket takes to fill: `_TTL_SECONDS` is two hours, a bucket
  fills in one). The bound alone is not inductive; `QuotaLevelIsUnspent` says that a stretch
  that ends now has left unspent at least the level, so that a tick, which adds one to both
  sides, and an expiry, which comes when the bucket is full, keep it.
- *Commands of a device object*, for any objects, zones, choices and shifts. A command in
  flight carries what the object last saw for all that was not asked (`ObjectCarries`); the
  normal temperature of every status that anybody still remembers is one that was chosen
  (`ObjectStatusesAreChosen`), so that a modifier which is taken back returns to it.
- *Alerts*, for any ages and throttle (`AlertsAssumption`: naturals, and no record is
  `Never`). What is stored as delivered was received at that time, or so long ago that the
  throttle has run out (`AlertingStoredWasReceived`): the next tick waits until a delivery is
  over, and a lost commit leaves an older record.
- *The bound home*, for any polls, homes and currencies, also if two homes share a digest
  (`PricesAssumption`: no home, scope or currency is the absence of one). A registered area
  is never registered again, so a price stands under the scope it was written for
  (`PricingPricesAreRegistered`); a poll that has bound or checked a home is about the home
  that it captured (`PricingPollHolds`), which is why its success or its rejection leaves the
  latch of that home, and any other home's diagnostic, as they are.
- *Settings*, for any requests, offsets and providers (`SettingsAssumption`: `"seasonal"` and
  the free lock are no requests). Who has which lock follows from where it is
  (`SettingsWriterIs`, `SettingsCycleIs`), although the two orders of locking can wait for
  each other until the timeout. So what a request read under both locks is still so when it
  writes, and what the transition decided is what it would decide at its write: nobody else
  writes settings meanwhile, and the share lock keeps the executor's debts as they were
  (`SettingsReadsAreCurrent`).
- *Reset*, for any runs, operations, changes and faults (`ResetAssumption`: natural bounds; a
  file that is missing or torn holds no manifest). The obligation goes one way with one
  manifest (`ResetOneWay`: pending, then retired, then gone), each run has seen committed
  what its stage needs (`ResetSound`), and a receipt is only ever created. So a run that
  comes to the wipe with a manifest of its own finds that it is the one that was retired, or
  finds nothing that is still retired.

**CustodyProofs**: `CustodyTypes`, `NothingIsCut`, `CopiesAreKept`, `PlansCanBeCarriedOut`.

- *Shutdown*, for any jobs and signals. A thread that cannot be interrupted is held by a job
  (`ShutdownThreadsAreHeld`), a closing scheduler waits for every job that has begun
  (`ShutdownJobsAreOwned`), and each resource is where the order of the teardown has put it
  (`ShutdownResourceOrder`).
- *Backups*, for any destinations, archives, drills and ages. While a destination removes
  archives, the row names none of its own that it does not spare (`BackupSpares`), and no
  drill stages one of them (`BackupDrillIs`); at most the last attempt's dump is still served
  (`BackupOneServed`), because a new attempt begins by ending the others.
- *Cutover*, for any numbered runs. One run works, with the lock (`CutoverOneWorks`); its
  candidate is whole from the restore on, what it keeps was whole and is suspended, and the
  live name is vacant only while a run is between its renames or after the operator is told.
- *Artifact files*, for any workers, files, attempts and ages. `ReferencedFilesStay` and
  `OnlyDamageRetires` are inductive once every worker that is busy is known to have a file:
  a deletion and a commit each check again what they are about.
- *Hot-water plans*, for any number of hours, prices, blocked and comfortable hours, integer
  temperatures and positive rates (`TankAssumption`), with the two parts of an hour and the
  heating of a part that the module fixes. The invariant (`TankIInv`) is short: the
  commands turn on at the beginning of the hour they are keyed to, and what is kept was
  accepted by the replay. That an accepted plan works is what the lemmas show. The replay goes
  hour by hour over a number of parts heated, the house part by part over commands;
  `TankPulseHeats` counts the parts a pulse is on, `TankHourLived` relates one hour of both,
  and `TankAcceptedWorks` goes through the horizon. For `SolverAndReplayAgree`,
  `TankSerialisedArePulses` shows that the commands written for a schedule are pulses of its
  runtimes, `TankHouseAtIs` and `TankReplayIsTheSolvers` that the replay reaches the
  temperatures the solver adds up, and `TankDemandsAreFeasible` that what the two demand of
  every hour is the same.
- *Room rules*, for any horizon and length of a day, integer price curves, nights within a
  day, and needs of at most a day (`ZoneAssumption`). `ZoneIInv` says which kinds of action
  each rule finds, that every boost so far has one later restore of its own and starts where
  the house and its gate let it (`ZonePaired`, `ZoneWorkable`), and that no status is asked
  for while a boost owns the zone target. A list that is taken from another is described by
  the places it lists (`ListsBy`); `ListsUnique` says that some places can be listed in an
  order in one way only, which makes the statuses of the plan, listed after the normalisation,
  those asked for, listed before it. `ZoneLevelsAreLast` and `ZoneLevelsAsked` follow the
  quiet level through both passes: leaving out an action that repeats the level there is
  changes it at no instant.

**EvidenceProofs**: `EvidenceTypes`, `RestoresCloseByEvidence`, `QualificationsAreEarned`,
`AnswersAreGivenRight`.

- *Restore verification*, for any ages, limits, checkpoints and budgets (`EvidenceAssumption`:
  naturals, `NoTime` is no number, and a live read is fresh no longer than a stored status:
  `executor_core.py:545` takes the smaller of a minute and the status's threshold). What is
  stored or being read is of the past and true of it (`EvidenceOfThePast`). There are two
  ways to close: a clock of the cloud must lie after the bound, and a live read without one
  must have begun after it. Any hour that has a new read in it lies within the last one,
  which was below the limit.
- *Showers*, for any devices, showers and faults. What a checker's transaction has locked
  stays open until it commits (`ShowersLocksHold`), so that what it decided from the first
  lock holds at the last; a restore that is owed was not closed (`ShowersOwedIsUnclosed`);
  and the older build runs alone (`ShowersOldBuildIsAlone`).
- *The heating gate*, for any integer temperatures and configurations: the gate a process
  resolves is what the last decisive of the readings stored under that configuration makes
  it, and the failures it counts are those since the last readable one
  (`GateCountsFailures`).
- *Prospective evidence*, for any leads, pages, events and crashes. A pair that a scan has
  passed was clean in the world as it was known when the scan began (`ProofPassed`,
  `ProofPageIs`); what was known then is still known (`ProofRemembers`: a dispatch that was
  proven stays proven, a restore that was open can only close later than any issue of the
  scan); and no pair is valid before its target time (`ProofMatured`). So the pairs of a
  decision stand in the world it is taken in.
- *The scorecard*, for any devices, observations and commands and any number of saved plans
  of the kinds `Savable` lists, and of passes needed. The last evaluations, as many as the
  gate has passes or as are remembered, passed in the gate's mode (`ScoreStreaks`).
  `EvidenceAgrees` needs only that saved plans are such as can be saved (`ScoreSaved`); the
  rest is about what the reading of a list of plans computes. `ScoreReadingHolds` says of
  the evidence after any number of plans which targets are first, which are in conflict and
  which outcomes are recorded, in terms of the points read so far and not of their order. So
  what is scored comes from issues whose plans agree (`ScoredAgree`), every such issue is
  scored (`ScoreUnanimousScored`), and none twice (`ScoredOnce`); `ScorePairsAgree` says the
  same of the pairs.
- *Readiness*, for any callers and keys (`ReadinessAssumption`: no flight is `None`). The
  generation that runs is the current one, so there is one (`ReadinessCurrentRuns`); whoever
  waits, waits for one of its own key that may still be joined (`ReadinessWaits`), and only
  one that may not is cancelled (`ReadinessGivenUp`).
- *Serving*, for any requests and scopes (`ServingAssumption`: the planner is no request).
  A process replaces its copy of a model only with another version of it
  (`ServingAdvances`), so a version that is still the captured one says that what was used
  across the awaits was one model (`ServingCaptured`, `ServingUsesCaptured`). A forecast's
  scope is no earlier than its context's when it passes its check, and the last check finds
  it no later (`ServingIsOfContext`).
- *Manual COP*, for any dates, zones with or without a midnight of their own, pages and skew
  (`CopAssumption`: finitely many dates, a day and a page are not empty). Revisions come from
  one sequence and are not used again, so an equal revision is an equal row (`CopTold`) and an
  edit replaces what its editor saw. A row has stood in every reading of history since its
  update (`CopRemembered`), which leaves the folds no hindsight. That the query reaches far
  enough and that pages lose nothing is shown by the newest known row, the newest closed day
  and the last row of a page, each a greatest or least element of a finite set of dates.
  `PagesListAll` is stated of one turn of the page, from every date: the pages of a whole
  reading follow one another by it.

Sums, replays and lists are written as functions on the numbers up to their length. That
such a function exists and obeys its equation at each number is `Repeated`, a lemma both
modules prove from the well-foundedness of `<`; that something holds at each number is `UpTo`.
Each function then has a lemma of its own that gives its type, its start and its step
(`TankHouseIs`, `ZoneLevelIs`, `ScoreReadingIs`, ...), and the proofs rest on those.

Only model-checked:

- all liveness (`EveryRestoreSettles`, `ShutdownEnds`, `AdmittedIsSettled`, `CallsEnd`,
  `RequestsEnd`, `RunningEnds`, `CandidatesEnd`): the proof system does not handle fairness;
- `DeviceDiscovery`, whose one property is violated.

## 6. Disagreements with the repository's own words

Each is a run that ends in a counterexample; `PROJECT.json` quotes the line.

1. `shower_mode.py:153` promises that a rescheduled restore is immediately due; a row that
   had been requeued before can never be claimed again.
2. `core.py:211` promises to publish newly obtained credentials; a response to an older
   request can replace them before they are published.
3. `device_manager.py:99` promises the devices; after a failed first listing it answers
   with none.
4. `poller/main.py:366` promises the same durable request as the API's; the optimizer
   always refuses it as made for a changed contract.

## 7. Observations

Behaviour met while modelling that contradicts no sentence of the repository, or only one
that no run checks. Nothing below is claimed as a defect.

Safety lane. Learning mode is read once before an admission delay of fifteen seconds or
more. Stored statuses are never admissible as evidence for a restore in this build, so
every restore is closed by a live read. `resolve_safety_revert` accepts a fresh stored
status that predates the activation it resolves (within fifteen minutes of a migration). A
resolution locks the action before the event, a shower checker the event before the
action; PostgreSQL's deadlock detection decides between them.

Library. A rejected app version that is dropped while the local token has not lapsed leaves
calls failing until it does. `set_mode` sends the set points, zones and tank state of the
last status, which may be old; a device listed only by its bare GUID
(`device_manager.py:125-131`) has neither tank nor zones, so that `set_mode(OFF)` powers
the whole pump off, although the docstring says unless it has an active tank; a command
that an old status shows as done is skipped; a status without `operationStatus` reads as
off.

Settings and planning. While the settings in force do not give the current revision (a
default of the environment or the time zone data changed at a restart, or API and optimizer
were installed differently), a pending request stops the queue: every poll raises
`ContractSettingsMismatch` at `optimizer/main.py:1086` and rolls back, and with it the
recovery of abandoned requests, until a contract setting is saved (`revise_contract` does not
compare). Meanwhile reading the contract is refused, and so is a save that changes the weather
provider or sensors alone (`settings_service.py:982`). `seasonal_learning.py:185` takes two locks against the order that
`house_contract.py:427-431` names; its lock timeout of half a second resolves it. A PUT of
settings computes a heat-curve verification's curves outside the locks. A change of
learning mode reads what it was before, and the obligations, in transactions of their own:
two requests at once, or an enabling with a disabling between, can leave learning enabled
with `learning_mode_since` empty. A late price poll may store prices of the home it
captured. Planners refresh the thermal model again (`rules_engine.py:383`, `milp.py:227`):
once a minute has passed the serving generation moves and admission refuses a plan though
nothing changed. `api/routers/admin.py:74-75` resets models outside the refresh lock.

Plans (diagnostic in this build). Two comfort blocks close together make the DHW rules plan
two cycles in overlapping slots, which the replay refuses, so there is no rules plan; while
a shower is active every DHW cycle lacks its restore and is refused as well; a rules cycle
is kept only when the rule's rate is above the trace's; peak avoidance ends the night's
quiet mode early; a preheat and a guardrail boost can overlap, and the restore of one cuts
the other short.

Models. A frozen candidate lets one scheduled request pile up per six-hour slot; a review
that fails after a publication puts the request of a published candidate back in the queue;
a `CASConflict` raised inside the runner's own handler leaves `run()`; `invalidate_candidate`
and `retain_artifact` have no caller, so a rollback artifact is released only by a reset. A
restore that is unresolved *now* makes a scan exclude every matured issue of its device for
good (`lifecycle.py:1417-1425`). A missed collection slot blocks coverage only until the
next. Each planning cycle's `arefresh_if_changed` replaces the metrics and with them the
gate's streak. The baseline floor can exceed the expected fraction. An older reading that
is ingested after a newer one sets the heating gate, and its time, back.

Operations. A refresh answered after a SmartThings disconnect makes the row again
(`smartthings_oauth.py:189`). `operational_alerts.py:475-477` throttles by payload, but the
payload of a stuck restore holds its age, so it is never throttled. The inventory pages of a
reset replayed after a restart can skip to a name that is gone. `optimizer/main.py:1178` has
no caller. One unsound manual COP row makes its page fail, and its revision, needed to
delete it, cannot be read.

## 8. Hazards beyond the list

`PROJECT.json` lists the forty hazards that weigh most. Others, by the property that would
notice:

- `core/safety_attempts.py:352` (partial failure): unlock, invalidation or close of the dedicated connection can each fail; a fence entry released too early lets a pooled connection keep the advisory lock — `OwnershipInv`, `OneCallPerDevice`.
- `optimizer/executor_core.py:229` (timeout retry): the claim commits but the attempt is cancelled before it learns so; the retry must not treat the row as free — `OneCallPerDevice`, `DrainProofIsTrue`.
- `optimizer/executor_core.py:458` (atomicity): learning state is checked before an admission delay of at least fifteen seconds and used after it — none: RestoreOwnership has the interleaving (Preflight, SetLearning, Authorise); README.md:46 says positive observation suppresses linked restores, and a restore that had been cleared before it began is not suppressed, so no property claims more.
- `core/log_sink.py:420` (partial failure): a writer can commit and then fail or be cancelled; its rows stay at the head of the queue, are dropped or acknowledged depending on how it ended and on whether the sink is closing — `Conservation`.
- `core/log_sink.py:293` (resource bound): rows being encoded by other threads count against the queue limit, though they are not in the queue yet — `Conservation`.
- `core/log_sink.py:131` (protocol sequence): bind, configure, shutdown, release and restart in any legal order, with a lease whose holder disposes of the database after release — `SettledIsQuiescent`.
- `core/log_sink.py:344` (liveness): a database that refuses every batch must not keep rows, and the queue's capacity, for ever — `AdmittedIsSettled`.
- `aioaquarea/auth.py:603` (stale state): a rejected version is dropped while the local clock still holds the session logged in; until that token lapses no call looks the version up again and all fail — none: no document promises recovery before the token lapses; ClientSession models the behaviour and no property claims more.
- `ml/lifecycle.py:2229` (partial failure): the review that follows a publication fails; the request of a published candidate is put back in the queue or marked failed — none: a request is not promised to report its candidate, and a second fit waits until the first is decided.
- `ml/lifecycle.py:2154` (resource bound): while a candidate is frozen, up to 90 days, every six-hour slot queues one more scheduled request that nothing claims — none: the model reuses a small set of requests, so a growing queue cannot be stated in it.
- `poller/smartthings_oauth.py:293` (crash recovery): the process dies after SmartThings has replaced the refresh token and before the row commits; the stored token no longer works — none: the successor cannot be had again and the owner must consent anew; `CredentialsAreUnspent` exempts what such a crash lost.
- `poller/smartthings_oauth.py:212` (interleaving): delete_tokens takes neither lock: a refresh answered after a disconnect finds no row and makes it again — none: the code stores the credentials again after a disconnect (smartthings_oauth.py:189), so only the model's Commit says what happens.
- `core/resilience.py:190` (resource bound): status, consumption, timer and manual reads of several processes share one bucket that also expires when unused; a reader could find more in it than was refilled — `RemoteAccountIsProtected`.
- `core/services/aquarea.py:507` (atomicity): a read is paid for, then waits for the device lock and for a login that may adopt another account; the token would be spent on an account that did not pay — `RemoteAccountIsProtected`.
- `core/external_heartbeat.py:297` (stale state): the outside monitor and the alerts compute silence separately, from different columns and thresholds; they could contradict each other — `SilenceIsTold`.
- `heatpump-optimizer/scripts/backup_status.sql:173` (timeout retry): killing pg_dump's client does not stop its query; the next attempt, perhaps of another destination, would dump beside it — `VerifiedCopiesAreKept`.
- `core/device_status_ingestion.py:28` (stale state): the configuration is read before the device's lock is taken; a status read under an older configuration is stored after one of a newer, and each reader resolves the gate with its own — `QualificationIsEarned`.
- `ml/seasonal_learning.py:185` (deadlock): the seasonal transition takes the heat-gate lock before the contract lock, against the order house_contract.py:427 names for all settings writers; only its lock timeout, and the rollback it causes, keeps two of them from waiting for ever — `CampaignsAreSafe`.
- `ml/seasonal_learning.py:178` (stale state): season and obligations are read before the locks are held; a campaign started then silences an executor that owes a restore — `CampaignsAreSafe`.
- `api/routers/models_router.py:1487` (stale state): the settings change after a forecast captured its dependency generation and before it loads the model, which by then belongs to the new sensors — `AnswersAreTheirOwn`.
- `ml/forecast_quality.py:3145` (protocol sequence): a damaged plan names no issue of its own but may be a version of a sound one; scoring the sound one would let the better of two answers be the evidence — `QualificationIsEarned`.
- `ml/forecast_quality.py:1900` (stale state): the baseline mode changes between two passing evaluations; the streak earned on the forecasts of one mode would allow those of the other — `QualificationIsEarned`.
- `aioaquarea/entities.py:233` (stale state): set_mode sends the set points of the last status along: under another special status than the pump now has they are no longer what the owner chose — `RemoteAccountIsProtected`.
- `aioaquarea/data.py:478` (protocol sequence): a long sequence of special statuses, from several objects, applies a modifier twice or never takes it back; the set points drift — `RemoteAccountIsProtected`.
- `optimizer/represented_strategy.py:796` (numeric edge): the solver's linear constraints and the replay of its serialised commands are two models of one hour; where they differ every schedule the solver finds is thrown away — `PlansAreWorkable`.
- `optimizer/rules_engine.py:228` (ordering): five rules write to one list, one after the other; the special status and a boost write the same zone target, and the mode rule counts on each of its changes being made — `PlansAreWorkable`.
- `ml/safe_persistence.py:296` (crash recovery): power is lost after a file was renamed and before its directory is flushed, or between a file's deletion and the deletion of its row: a committed row must never name a file that is not there — `VerifiedCopiesAreKept`.
- `ml/lifecycle.py:1614` (stale state): a file was found missing or damaged before the transaction that gives its model up; an outage that ends meanwhile must not cost the model — `VerifiedCopiesAreKept`.
- `api/routers/optimizer.py:504` (ordering): a resolution locks the action before the event, a checker the event before the action; and a resolution and an attempt may both be about to close one restore — `EvidenceIsCurrent`.
- `api/routers/feeds.py:382` (unreliable delivery): two tabs edit one day, one deletes it and enters it again, an answer is lost and the request sent again: an edit must replace only the row its editor saw — `AnswersAreTheirOwn`.
- `core/cop_monitoring.py:266` (numeric edge): the projection is tried on earlier days with rows that were entered or corrected later, at the edge of a day, in another zone — `AnswersAreTheirOwn`.

## 9. Not modelled

`PROJECT.json` lists every component with its reason. In short:

- *Plan lifecycle and outcomes*: `activate_plan` has no caller in this build, plans stay
  diagnostic; scoring outcomes is arithmetic over stored rows.
- *Search, objective and explanations of the planners*: which feasible schedule costs least,
  reasons shown, loading of inputs. The constraints, the rules and the replay are modelled.
- *Fits and predictions*, *heating evidence and baselines*, *price, comfort, solar and
  heat-curve arithmetic*: statistics over stored rows; their results are choices where a
  model uses them.
- *Ordinary device writes*: denied in this build; only linked restores reach the device.
- *Reading and authentication of the HTTP API*, *web interface*, *schema migrations*:
  translation and presentation; the writes, indexes and moved data that matter to a
  component are in its module.
- *Consumption, weekly timer and statistics of the library*, *SmartThings readings, weather
  and learning state*: requests and parsers, one call at a time.

Left out of modelled components: the retries of the service wrapper's encoders; the
encryption of replicas and the isolation of a drill's containers; manual prices, ENTSO-E
and weather feeds; the demand model, which is served like the thermal one; the COP
regression; a zone restore's resolution by an operator, which has no shower.

## 10. What is left

1. Liveness of the services (a refresh ends, a delivery is repeated until received), once
   fairness is justified for each of their schedulers.
2. `ModelLifecycle` with thermal families, and with `ArtifactStore`'s files in place of its
   own set of names.
