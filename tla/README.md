# Verification of GerNetiX

TLA+ models of the parts of GerNetiX that run concurrently, TLC configurations that check them on
small instances, and theorems about them checked by TLAPS. Paths are relative to the repository.

GerNetiX is a platform of about twenty Node.js services around one PostgreSQL database. Most of
them answer independent requests; the logic that is hard to test sits where several processes
share rows: the compute control plane with its leases, the build servers with their locks and
cancellations, the sessions of an account, projects with their Git repositories, credit accounts,
and some smaller protocols (pairing, outbox, OTA handshake).
JavaScript runs a handler without interruption up to its next `await`; between two awaits of one
request anything else may happen, in the same process or in another replica.

## 1. Inventory

| Part | State | Operations | Interaction | What must hold |
|---|---|---|---|---|
| Compute jobs and leases (`services/compute-control-plane/src/services`, `repositories`) | rows `compute_jobs`, usage events, policy | submitJob, leaseNext, renewLease, complete, fail, cancel, operationsSummary, savePolicy | workers pull over HTTP; replicas share PostgreSQL by row locks | one holder per lease, fencing of late results, bounded attempts, final is final, nothing leased for ever while workers poll, tenant limits |
| Worker registry (same) | rows `compute_workers` | register, heartbeat, drain | read by leaseNext | a live instance keeps its id; a draining worker gets no job |
| Worker agent (`worker-agent.js`) | running flag, slots, token | start, runOnce with renewal timer, stop | calls the control plane | one report per job, renewals while it works |
| Compute contract (`services/shared/elastic-compute-contract.js`) | none | validation, matching, order, capacity decision | used by the two above | pure functions |
| Build service (`services/build-deploy-server/src/services`) | jobs in memory, device lock, saves under way | submitJob, cancelJob, startJob, startWaitingJob, cleanProjectCache | one process of several; coordination below | one build per device and target, waiting jobs start, cancellation wins, status reaches the database |
| Build coordination (`modules/postgres-build-coordination.js`) | rows `build_execution_jobs`, `build_workers`, cache generations, advisory locks | registerJob, saveJob, requestCancellation, heartbeat, runExclusive | shared by all build servers | a lost server's jobs fail, once |
| Compute pool bridge (`modules/compute-build-pool-bridge.js`) | inputs and results of builds sent to the pool | dispatch, cancel | build service to control plane | a result finds its build, a timeout gives up cleanly |
| OTA and FlashBox deploy (`modules/deploy-job-orchestrator.js`) | acknowledgements, retained MQTT commands | publish, acknowledge | device over MQTT | acknowledgements are not lost |
| Artifact and package stores, runner | files, blobs, caches | save, clean, prune, compile | called by the build service | caches are not removed under a build |
| AI usage (`services/ai-usage-server`) | credit accounts, ledger, usage events, policy | preflight, complete, fail, grant, hold, block, policy | all AI services | never overdrawn, nothing from nowhere, one charge per event |
| Device management | devices, pairing sessions, challenges, tokens, board versions | pairing, proof, provisioning, inventory | tools and devices | a session, challenge or token is used once |
| Community platform | posts, moderation, notification outbox | claim, complete, retry | notifier workers | an event is delivered and not lost |
| Identity (`services/identity-server`) | accounts, credentials, sessions, recovery grants | login, takeover, secure, cancel, logout, recoveries | all services | one active session of an account, a recovery ends the others |
| Project server (`services/project-server`) | project rows, Git repositories in Forgejo, migrations, versions, build jobs | create, migrate, commit, restore, settings, debug, version, build, delete | Forgejo, build service | no lost commit, nothing refers to a missing one |
| Device voice (`services/device-voice-orchestrator`) | one-shot sessions in memory | createSession, processAudio | device management, AI usage | a session is used once and paid once, or given up and not paid |
| Telemetry, shop, catalogue, persistence, public demo, admin, AI context, community AI, context manager | rows of their own | mostly CRUD | | |
| Tools (provisioning, recovery, migration, deployment), virtual lab, firmware, mobile demo | local | operator-driven, numerical or hardware-bound | | |

Hard behaviours: a row read before an `await` and used after it (tenant counts, the drained worker,
cancelJob, cleanProjectCache, credit accounts, project rows, pairing); two statements where one
transaction was needed (recoveries, the creation of a project); leases that expire while the holder still works;
renewals, results and saves that overtake one another; servers that die, hang or restart; requests
for one device replaced, cancelled and started in every order. `PROJECT.json` lists each hazard at
its line, with the property that watches it or the reason why none does yet.

## 2. Modules

### Compute control plane

| Module | Models |
|---|---|
| `WorkerRegistry` | `compute_workers`. A call is a record in `calls` from its time stamp to its statement; `SaveWorker` is the upsert with its WHERE, `PatchWorker` the locked patch; `LoseCall` a replica that dies. |
| `ComputeControlPlane` | Extends the registry by `compute_jobs`. `leaseNext` is `LeaseRead` (the worker row), then the statements of its transaction `LeaseReclaim`, `LeaseCount`, `LeaseSelect`, `LeaseCommit`; `tx[w]` holds what a transaction has read and locked, and until it commits others see the old rows. Renewals and results are records in `requests` between stamp and transaction; the usage event is a third step. |
| `JobLifecycle` | The abstract specification: per job a status, the number of its leases, the lease its result comes from. |
| `MCComputeControlPlane` | Instances, and the specifications that take a part of `Next`. |
| `ComputeControlPlaneProofs` | The inductive invariant and the theorems. |
| `ComputeLeasesProofs` | Theorems about usage events, lease times and worker instances. |

Data that no property tells apart is abstracted. `lease_id`, a random UUID, is the ordinal of the
lease. Slots are "some free" or not. A job's requirements are the set `CanRun[w]`. The tie-break by
creation time and job id is left open, so the model has every order of equally ranked jobs. The
tenant is one value. Replicas and database share one discrete clock. `granted` is a history
variable that only properties and lease ids use. A worker has one leaseNext transaction at a time,
as its agent has. The repository looks at 100 candidates; instances have fewer jobs than that.

`fail` reads the row first and takes its stamp and transaction later; both are in the model.
Requests of holders arrive in any order, late, twice or never: a holder may send any request for any
lease it was ever granted, for as long as the model runs.

### Build servers

| Module | Models |
|---|---|
| `BuildDeploy` | Jobs of several servers: the handler `job[j].pc` (inserted, queued, locking, building, cleanup, closing, flushing, done; a cancelled queued job: dequeued, done), the device lock (`active`, `waiting`), the queue of saves (`saves`), the shared rows (`row`), the advisory locks (`holder`), heartbeats (`fresh`) and processes (`up`). |
| `BuildLifecycle` | The abstract specification: per job the status of its row, and whether it was given up with its server. |
| `MCBuildDeploy` | Instances and the partial specifications. |
| `BuildDeployProofs` | The inductive invariant and the theorems. |
| `BuildSavesProofs` | Theorems about the rows: ended jobs are saved, and every row follows the life cycle. |

An action is the code from one `await` to the next, with the awaited statement where nothing else of
the job happens in between. `SubmitJob` ends with `registerJob`, `AdmitJob` is the rest of
`submitJob`; `LateCheck` is `applyLateCancellation` with the release of the device, `FlushJob` the
last save with `startWaitingJob`, `FlushQueued` that of a job cancelled while it waited. `Persist` is `scheduleSharedPersist`: one statement at a time,
and only the latest status is kept behind it; `SaveStatement` is `saveJob` with its WHERE and with
the refusals it swallows. `RequestCancellation(j, here)` is the statement of `cancelJob`: at the
server of the job (`here`) `CancelLocal` follows, elsewhere the monitors find it. `Crash` removes
what a process held in memory and its advisory locks, `GoStale` is a heartbeat older than `staleMs`,
also of a process that only hangs; `Heartbeat` refreshes it and fails the jobs of others.

The end of a build has two steps. `Succeed` sets the status and schedules its save; the `finally`
around it then removes the workspace. When that works the handler goes on (`CleanUp`). When it does
not, the catch of `startJob` is reached with a job that has already succeeded, and reports it as
failed, or as cancelled if it was aborted meanwhile (`FailJob`, `StopAborted`); `saveJob` lets a
failure overwrite a success. So a success in the database is not final: `BuildLifecycle` has the step
from `succeeded` to `failed`, and what is checked and proved is that nothing else follows a success.

Left out: the compute pool path of `submitJob`, the deploy itself (only that it happened, in
`output`), database errors other than a refused row, the cache generation, and the lock of a single
server without PostgreSQL.

### AI usage and voice

| Module | Models |
|---|---|
| `CreditAccounts` | The usage service on one account: the row (`account`), its ledger by kind and by event (`ledger`, `booked`), usage events, the policy, and the calls under way. A call is a record with the row it has read and where it is (`pc`). |
| `VoiceSessions` | Extends it by the orchestrator, its client: sessions in memory, audio requests, expiry, purge, lost answers, restart. A call has the name of the request that sends it. |
| `MCVoiceSessions` | The instance. |
| `VoiceSessionsProofs` | Invariants of the service for clients of any kind (`UsageSpec`) and for the orchestrator (`Spec`). |
| `CreditLedgerProofs` | Theorems about the account and its ledger. |

The statements of `completeUsageEvent` are `FindEvent`, `ReadAccount`, `RefreshAccount` (a missing
row or one of an earlier month is written anew), `CheckBalance`, the same read again inside
`consumeCredits`, `ConsumeCredits`, `Book` and `FinishEvent`; grants, holds and blocks share the
reads. A row is read, and the whole row written back later, without a version. A call that never
goes on is one whose server died. `processAudio` finds, checks and deletes a session without an
await, so `ProcessAudio` is one step; `FailAudio` is its catch, also when only the answer of the
billing call was lost. A restart loses sessions and uploads, while calls already sent go on.

`failExpiredSessions` runs at the start of every `createSession` and nowhere else. `AskSession` is
that purge at the start of the request for a session, which then waits until its calls have ended,
well or not (their errors are swallowed), while those of other requests may still be under way;
`PurgeExpired` is a `createSession` that is refused later, as of another device. The call that
closes an event is sent once. When it is lost nobody repeats it and the event stays open; the model
has this (a call may stop anywhere), so no property says that the event is closed in the end.

Left out: models a policy allows or blocks (the same read and write as its other fields), the audit
log, ratings, the estimate of the credits (any amount), rate windows, authorisation. `Included`, the
monthly credits of the account, is a constant. `updateUsageEvent` reads and writes in one step, as
nothing else changes the fields it keeps.

### Projects and their repositories

| Module | Models |
|---|---|
| `ProjectRepositories` | One project: its row with binding, head and debug session (`row`), the repository and its commits (`repository`, `history`), its build job (`job`) and `versions`, and the requests on them. `asked` is a history variable: what creations have asked the project to be. |
| `MCProjectRepositories` | Instances. |
| `ProjectRepositoriesProofs` | The inductive invariant and the theorems. |

`Load` is the arrival of a request with the reading of the row and all checks on it (`Continues`);
what follows are the awaited steps: `InsertProject`, `EnsureRepository`, `CompareRepository`,
`PushInitial`, `BindProject` of a creation, each of which may fail and lead to `FailProject` (the
catch that saves a failed binding), or `RefuseProject` (the quota); `FetchHead`, `PushCommit`, `SaveProject` of
a commit or a restore; one or two statements of the others. Commits are numbered along the branch,
so a head is a length, and the content of a commit is one of a few trees. A push either lands on the head its client had read or is refused, and its
answer may be lost after it has landed. Statements may fail. `SaveProject` is the upsert of the whole
row as it was read, also when the row is gone by then.

`createProject` takes the project id and the status from its request and writes the row without
asking whether there is one. A project may therefore be created again over its own row, repository
and build jobs, as a template or not, and the model lets it be. An active creation over a template
makes it writable, and commits follow; `TemplateImmutable` has the condition that no such creation
was asked for (`asked`), and says nothing otherwise.

Left out: the migration of older projects (`migrateProjectRepositories`). It reads the sources of each
project without a binding by `listSources`, which the PostgreSQL repository answers with
`PROJECT_SQL_SOURCE_READ_FORBIDDEN`, so on the modelled runtime it ends before it changes anything.
Also left out: operation without Forgejo, the settings of apps, quota arithmetic (a quota may refuse any
creation), packages, learning and feedback. `updateProject` without a change of files saves the row
as a settings request does.

### Sessions of an account

| Module | Models |
|---|---|
| `AccountSessions` | The rows of `identity_sessions` of one personal account, the calls of the auth service on them, the advisory lock of the account and the recovery grants. |
| `SessionSlot` | The abstract specification of `src/docs/single-active-account-session.md` for sessions that come from a login: the account has one slot. |
| `MCAccountSessions` | The symmetry of the safety run. |
| `AccountSessionsProofs` | The inductive invariant and the theorems, among them the refinement. |

A login is `LockAccount`, `LookForActive`, `InsertLogin`; a decision about a pending login is
`LockAccount`, `ReadPending` (`SELECT ... FOR UPDATE`), `Activate` or `Cancel`, the last with the
commit. Uncommitted writes are visible to nobody, so the statements of one transaction that only
write are one step; `Fail` may happen at any statement and takes the locks with it. The `UPDATE` of a
recovery chooses its rows in `StartRevocation` and reaches them in `RevokeSessions`, once no takeover
holds one of them: that is how PostgreSQL evaluates it at the default isolation. Two of these waits
may form a deadlock, which PostgreSQL breaks by a failure (`Fail`). One account is enough, since every
lock and statement is about one `user_id`.

Left out: account status, guests, credentials and passkeys, reasons and replacement columns, HTTP.
Application and database are given one clock: a row or grant is either in time or past it.

## 3. What the runs check

Runs marked (V) must be violated: they state what a document or test says and the code does not do.

| Run | Question | Instance and bounds |
|---|---|---|
| `compute_leases` | types, fencing, attempts, no double grant, usage events, stability of results; refinement of `JobLifecycle`, with returns to the queue and new grants; liveness: the lease of a vanished worker ends while another one polls | 2 workers, 1 job, 2 attempts, lease time 1, clock to 3, 1 request in flight, one worker gone after time 1 |
| `compute_full` | registry and jobs together: a lease lasts its time although renewals overtake one another; a live instance is never replaced | 1 worker id, 2 instances, 1 job with an early deadline, clock to 3, 2 calls and requests in flight |
| `compute_quota` (V) | the tenant limit | 2 workers, one of which cannot run one of the 2 jobs of a tenant, clock to 2 |
| `build_full` | a requested cancellation is kept; `worker_lost` is final and its server does not report success; refinement of `BuildLifecycle` | 2 servers, 1 job, crash, hang, restart, clean: every action |
| `build_queue` | types; the waiting job is never stranded; memory and database agree on ended jobs; refinement of `BuildLifecycle`, with replaced jobs | 1 server, 3 jobs of a device and target, the second may be cancelled |
| `build_orphans` | exclusive targets; liveness: rows of a dead server become final, a waiting job moves | 2 servers, 2 jobs of a target and device, one server hangs or dies |
| `build_device` (V) | one job per device | 1 server, 3 jobs of a device, 3 targets |
| `voice_billing` | types; the account is never overdrawn and has nothing the ledger does not know; a session is paid once, a success is booked; an expired session is not billed | 1 session, 2 uploads, 1 administrative request, 1 monthly credit, amounts of 1, limits 1 and 2, 1 change of the month |
| `project_commits` | types; no commit is lost; no reference to a missing commit; no second commit of a template | 4 requests of any kind, creations with any status, 2 trees, 4 commits |
| `project_head` (V) | the row shows the confirmed head | 3 requests, 2 trees, 3 commits |
| `account_sessions` | types; one interactive session; recoveries end sessions; the account lock ends with its transaction; nobody is put out without a successor; refinement of `SessionSlot`; liveness: every request ends | the session of the registration, 3 requests of any kind, 1 recovery grant |
| `account_one_active` (V) | one active session of any kind | the same |

Why the bounds are enough to be interesting: two workers or servers and two jobs give every pairwise
race; two attempts give a job that is retried and one that is at its last attempt; a clock that runs
past a lease time gives results before, at and after expiry. Three jobs on one device are needed for
active, waiting and newly submitted at once. Two uploads are needed to race for a session, and the
administrative request crosses them with a grant, a hold, a block or a new policy; with one monthly
credit and amounts of one the account is at its limit after the first charge. Four requests on a
project are a creation, two that race (one may create it again), and a deletion or a reader of the result;
three on an account are a pending login, its takeover and a recovery. The named bounds are
`MaxClock`, `MaxCalls`, `MaxRequests`, `MaxInFlight`, `LastAsk` (guards of `Tick`, `Send`, `Ask` and
of the partial specifications), `MaxMonth` (guard of `NextMonth`) and `MaxCommits` (guard of the
pushes); attempts, jobs, requests and sessions bound the rest.

`compute_leases` and `compute_quota` start with all workers registered, a state the registry reaches
by itself, and take no registry steps; `compute_full` has both, and is checked without fairness. The
partial specifications of `MCBuildDeploy` take the actions a question is about (submissions and runs,
plus cancellations of one job, plus the failures of one server); `build_full` has all. In
`build_queue` the jobs are alike and submitted in a fixed order: this is symmetry by hand. The project
runs and `account_one_active` use TLC's symmetry over requests (and trees), which is sound there because no
liveness is checked; `account_sessions` has liveness and uses none. Deadlock is checked in
`compute_full` and `compute_quota`, where requests can always be sent again; everywhere else the system really
stops, when all jobs, uploads or requests have ended or the clock is at its bound.

### Fairness

- `compute_leases`: time passes, and the statements of the transaction the vanished worker left open
  return or are rolled back (`TxStep(w1)`), which PostgreSQL does. There is no timer in the control
  plane: expired leases are returned by `leaseNext` and by the operations summary, and nothing in the
  repository calls either of them regularly on its own. So no reclaim is fair; that the transactions
  of the other worker keep committing is the hypothesis of `OrphanedLeaseEnds`. When nobody polls, the
  lease stays for ever.
- `build_orphans`: what a handler of a living server awaits answers, and the compiler terminates (the
  runner has a time limit); the heartbeat of the dead server gets old and the living one has its
  timer. No fairness on submissions. The other server may also hang and go on later. A server that
  restarts within `staleMs` is left out on purpose: it takes its old worker id again, its old rows
  look alive, and nothing fails them. This is a limit of the code, listed as a hazard.
- `account_sessions`: a statement whose turn has come runs (`Serve`). Failures are possible at any
  time and never required, and no request has to be sent.

The voice and project models have no fairness and no liveness: a call or request that is lost simply
stops, and nothing repeats it.

### Disagreements found

Four, each with a short counterexample; `PROJECT.json` quotes the sentence and the lines. All are
windows between two awaits.

- `compute_quota`: two leaseNext transactions count the leased jobs of a tenant, neither sees the
  other, both lease.
- `build_device`: a build ends, its device is released, its last save is awaited, a new job for the
  device is submitted and starts, the save returns and the waiting job is started as well.
- `project_head`: a plan change reads the row while a commit is under way and writes it back when the
  commit has been confirmed. The row shows the head before it, and a client that then commits on the
  true head is refused.
- `account_one_active`: a login finds no active session between the revocation and the insertion of a
  recovery; both sessions are active until one of them ends.

Other limits met while modelling are in the model but promised by no document, so nothing is claimed
about them: a row left `cancelling` when a cancellation comes after the result (even a failed job's row
goes back to `cancelling`, when the server handles the answer of `cancelJob` between the save of the
failure and its repetition; the life cycle has that step), a project clean that
meets a build, a deleted project written back by a request that had read it, a grant overwritten by a
concurrent charge, a paid event reported as failed. They are listed as hazards with a note.

## 4. What is proved

Every theorem holds for every value of the constants, under the named assumptions, which TLC
evaluates in the runs of the module. The bounds on clock, months, commits and calls are arbitrary
constants in the proofs.

`ComputeControlPlaneProofs`, for every set of workers, instances, tenants and jobs (finite), every
lease time, every `max_attempts`:

| Theorem | Statement |
|---|---|
| `Invariance` | `Spec => []IInv` |
| `TypeCorrect` | `Spec => []TypeOK` |
| `Fencing` | `Spec => []ResultFromLastLease` |
| `BoundedAttempts` | `Spec => []AttemptsBounded` |
| `FinishedForGood` | `Spec => TerminalStable` |
| `NoDoubleGrant` | `Spec => NoDoubleAssignment` |
| `ImplementsLifecycle` | `Spec => LifecycleSpec` |

Assumptions: `RegistryAssumption` and `JobsAssumption`, which TLC evaluates in every compute run.

None of the properties is inductive. A late result is refused because its lease id differs from that
of the row, so the invariant must say that the id of a current lease is the number of leases granted
(`RowOK`), and that a request in flight carries an id its sender really got (`RequestInv`). `fail`
decides on attempts it read without a lock: `FinishInv` says what that decision still means if the
lease is current when the row is locked, namely that attempts have not moved. A leaseNext commits
what its earlier statements saw, so `TxInv` says that rows it reclaimed are still expired and rows
it locked still queued, which holds because nobody else may touch a locked row, and `LocksInv` that
no two transactions lock the same row. `IInv` is the conjunction of the types and these parts; each
action has a lemma that it preserves them, `StepIInv` collects the lemmas, and the theorems follow.
For the action properties and the refinement, `Changes` lists the ways a row can change in one step;
every case is shown to be allowed, or to be a step of `JobLifecycle` or a stutter.

`ComputeLeasesProofs`, under the same assumptions:

| Theorem | Statement |
|---|---|
| `BilledOnce` | `Spec => []UsageOfAcceptedResults` |
| `FullLeaseTime` | `Spec => LeaseKeptForTtl` |
| `ActiveInstances` | `Spec => ActiveInstanceKept` |

Each has an invariant of its own on top of `IInv`. `UsageInv`: a usage event, written or on its way,
belongs to a lease that is over (so no later result can be its result), it is the only one of that
lease, and `succeeded` means the result kept. `TimesInv`: a lease began before now and lasts at least
its time, and a request under the current lease was stamped after it began, so that a renewal which
was stamped early and applied late sets an end that is late enough. `CallsInv`: no registry call is
stamped with a time still to come, so a row written later cannot look older than the call that wrote
it.

`BuildDeployProofs`, for every finite or infinite set of servers, jobs, devices and targets:

| Theorem | Statement |
|---|---|
| `Invariance` | `Spec => []IInv` |
| `TypeCorrect` | `Spec => []TypeOK` |
| `ExclusiveTargets` | `Spec => []TargetExclusive` |
| `WaitersNotStranded` | `Spec => []NoStrandedWaiter` |
| `LostForGood` | `Spec => WorkerLostIsFinal` |
| `LostNotReported` | `Spec => LostJobNotReported` |
| `CancellationsKept` | `Spec => CancellationKept` |

Assumption: `BuildAssumption` (the nulls are no members of their sets), evaluated in every build run.

`NoStrandedWaiter` is not inductive: that the job which holds a device is one of that server and
device and still under way is `ActiveInv`, that the lock never remembers a job of a dead process is
`WaitingInv`, and that the handler of a queued job finds its own status unchanged is `PlaceInv`,
which also says that a submission meets no job that is already under way. `QueueInv` is the property
itself with the device known. Most actions only move a job between states the locks do not
distinguish (`QuietMove`, lemma `QuietDevices`); admission, the end of a job, the cancellation of a
queued job and the crash have a lemma each. `HolderInv` (a task holds the lock of its target) gives
`TargetExclusive`, and `RowChanges`, the ways a row can change in one step, gives the three action
properties. The same invariant does not give `OneJobPerDevice`, which is false: between `LateCheck`
and `FlushJob` the device is free and its waiting job still waits.

`BuildSavesProofs`, under the same assumption:

| Theorem | Statement |
|---|---|
| `EndedJobsSaved` | `Spec => []EndedJobSaved` |
| `FollowsLifecycle` | `Spec => LifecycleSpec` |

What a row will say is spread over the row, the statement being sent, the status kept behind it and
the handler that will save its status once more. `EndingInv` follows the last of these: a job closes
with a status to end with, and once it is done, the status that will be written last is one to end
with, or the row says how the job ended. A refused statement that throws drops what is kept behind
it; the invariant says that this never drops the end of a job whose row was not given up. For the
life cycle, `LifeInv` orders all four: each may follow the one before (`Chain`), unless one of them
belongs to a cancellation; as soon as anybody in the server knows of a cancellation the row shows it
(`Asked`); and `cancelled` and `failed` are never on their way to one row at the same time (`Said`).
A lemma about plain values for each kind of change (`AdmittedOK`, `ClosedOK`, `StatementOK`, ...)
says that it keeps this and moves the row at most one step on; the lemmas about the actions
(`AdmitLives`, `FlushLives`, ...) apply them, and `StepLife` collects them.

`VoiceSessionsProofs`, for every set of sessions, uploads, administrative requests, amounts, limits
and months:

| Theorem | Statement |
|---|---|
| `UsageInductive` | `UsageSpec => []IInv` |
| `UsageNeverOverdrawn` | `UsageSpec => []NeverOverdrawn` |
| `VoiceTypeCorrect` | `Spec => []VoiceTypeOK` |
| `VoiceNeverOverdrawn` | `Spec => []NeverOverdrawn` |
| `VoiceSuccessIsBooked` | `Spec => []SuccessIsBooked` |
| `VoiceBookedOnce` | `Spec => []BookedOnce` |
| `VoiceExpiredNotBilled` | `Spec => []ExpiredNotBilled` |

Assumptions: `UsageAssumption`, `VoiceAssumption`. The account is overwritten by rows read long
before, so that the stored row is covered says nothing of the next one: the invariant `IInv` says it
of every row a call has read as well (`Rows`), and each operator on rows has a lemma that it keeps a
row covered. `SInv` adds that a call about to report a success has booked. Nothing in the usage
service prevents a second charge; that there is none rests on its client: `OneWinner` says that of
the uploads for a session at most one has taken it out of the memory, and that no session taken out
can be taken again; `BillingCalls` that only that upload completes the event; `BookedByWinner` that an
entry is that of its call, past the booking. `GivenUp` says that a session whose event a purge closes
is taken out of the memory for good, with no upload that has won it, which is `ExpiredNotBilled`.
`VInv` is the conjunction.

`CreditLedgerProofs`, under the same assumptions:

| Theorem | Statement |
|---|---|
| `UsageBackedByLedger` | `UsageSpec => []BackedByLedger` |
| `VoiceBackedByLedger` | `Spec => []BackedByLedger` |

A grant is written into the row before its ledger entry, so between the two the row has more than the
ledger: `Unbooked` is the set of single credits that calls have written and not entered yet, and
its cardinality closes the gap. Counting a set, instead of summing over calls, keeps the proof in
the library's theorems on finite sets. `LInv` says the same of every row a call has read, which may
be written back at any time. When a call writes, its credits join the set and the row by the same
amount; when it books, they leave the set and enter the ledger.

`ProjectRepositoriesProofs`, for every set of requests and trees and every length of the history:

| Theorem | Statement |
|---|---|
| `Invariance` | `Spec => []IInv` |
| `TypeCorrect` | `Spec => []TypeOK` |
| `ReferencesExist` | `Spec => []CommitsExist` |
| `TemplatesKept` | `Spec => []TemplateImmutable` |
| `NoCommitLost` | `Spec => BuiltOnRead` |

Assumption: `RepositoryAssumption`. The row may be replaced by a copy of any age, so `RequestOK` says
of every copy a request holds what `RowOK` says of the row: its commits exist, a bound one has a
head, and as long as only templates were asked for it is that of a template. All of this survives a
longer history (`GrownHistory`) and further creations (`Grown`), and the history never gets shorter.
A template has one commit because no copy of its row ever allows a commit.

`AccountSessionsProofs`, for every set of requests and recovery grants:

| Theorem | Statement |
|---|---|
| `Inductive` | `SafetySpec => []Inv` |
| `SessionTypes` | `SafetySpec => []TypeOK` |
| `OneInteractiveSession` | `SafetySpec => []OneInteractive` |
| `RecoveriesEndSessions` | `SafetySpec => []RecoveryEndsSessions` |
| `SuccessorDisplaces` | `SafetySpec => OnlyASuccessorDisplaces` |
| `LockHeldInTransaction` | `SafetySpec => []LockEndsWithTransaction` |
| `SlotImplemented` | `SafetySpec => SlotSpec` |

Assumption: `FirstIsNoRequest`. `OneInteractive` needs what a transaction knows when it writes: that
it is the holder of the lock (`Holders`), that the row a decision has read is as it was
(`LockedRows`), and that a login which found no active session still has none beside it but those of
recoveries (`NothingActive`), which holds because the others need the lock and the recoveries insert
`direct` rows. That last word is why the property is about interactive sessions: without it, it is
false (`account_one_active`). `Unborn` says that a request inserts its row at its end, and `Reached`
and `Marks` that a revocation reaches rows that are there and is never taken back, which is
`RecoveryEndsSessions`. `LockUsed` is the other half of `Holders` (who has the lock is a login or a
decision that is reading or writing) and gives `LockEndsWithTransaction`, the safety half of
`RequestsEnd`. For the refinement every step is shown to be `Enter`, `End` or a stutter of
`SessionSlot`.

Only model-checked is liveness: `OrphanedLeaseEnds`, `OrphansFail`, `QueueMoves` and
`RequestsEnd` (liveness under fairness and ENABLED are outside the prover; so are induction over
data and RECURSIVE operators, which no module here uses). Every safety property that a passing run
checks is the statement of a theorem.

## 5. Not modelled

Besides what section 2 leaves out: the capacity policy and recommendation, validation and
authentication, the content of builds, pages and other presentation (the larger part of the source),
and the services listed as not modelled in `PROJECT.json`, each with its reason. Where a module uses
one of them it uses single atomic statements.

## 6. Plan

Done, in this order: registry, control plane, life cycle with refinement, their proofs; build
servers, their proofs and the life cycle of their rows; credit accounts with the voice orchestrator, projects with their repositories,
sessions of an account with their slot, and the proofs of the three.

What is left, the most important first:

1. `PairingSessions`: pairing, challenges and tokens of device management; 2 requests per session.
2. `NotificationOutbox`: claim with lease, completion and retry without ownership check, compared
   with the fencing of the compute control plane; 2 workers, 1 event, clock to 3.
3. `WorkerAgent` and `ComputeBuildPool`: the agent's loop and the bridge, composed with
   `ComputeControlPlane`; a build that times out while its job is leased.
4. `DeployHandshake`: publish, acknowledge, cancel; the order of arrival at a build target and the
   cache generation in `BuildDeploy`.
5. Credentials of an account: two recoveries that revoke each other's passkeys.
6. `CapacityPolicy`: the capacity decision against a reference definition, and savePolicy's
   read-modify-write.

Theorems worth proving after those: further invariants behind the liveness properties (who holds a
lease is renewed or reclaimed), and the properties of the modules to come.
