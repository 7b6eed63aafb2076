# Verification of the Sites platform

A formal model of the platform in `src/deploy/platform`: TLA+ modules, TLC runs
on small instances, and theorems checked by TLAPS for every value of the
constants. Paths below are relative to `src/deploy/platform/src` unless they
start with `src/` or `docs/`. Line numbers are those of the modelled commit.

Run things from this directory: `tlc -config MCJobQueue.cfg MCJobQueue`
(each `.cfg` belongs to the `MC` module it is named after), `tlapm
JobQueueProofs.tla`. `PROJECT.json` maps every definition to the lines it
models and lists the runs, the mutants that show each property can fail, the
findings, the hazards and the theorems.

## 1. The system

The platform hosts small web projects. A *control plane* (`server.ts`,
`lib/projects.ts`, `routes/`) keeps everything in one PostgreSQL database and
never touches a container; it inserts rows into a `jobs` table. One *executor*
process (`executor.ts`) polls that table with a few workers and does the work:
provisioning, builds, deployments, cold starts, renders, exports, reviews,
purges. A *gateway* (`gateway.ts`) serves the sites; when a site has no running
container it inserts a `start_runtime` job and waits. A *monitor*
(`lib/monitor.ts`) raises alerts and sends mail.

They share no memory. All interaction goes through rows, the advisory lock
around a claim, files, and the Docker daemon. The hard behaviour comes from
that: each SQL statement is atomic, almost nothing spans two of them, and
requests, handlers, sweeps and restarts run between any two.

### Inventory

| component | state | operations | correct when | module |
|---|---|---|---|---|
| job queue (`lib/job-claim.ts`, `executor.ts` 130-342, `lib/projects.ts` 1829-1882) | `jobs` rows: status, lease, attempts, run_after; the process's in-flight map | enqueue (two kinds), claim, renew, succeed, fail, release, sweep, prune, revive | one steady worker per project, heavy jobs within the allowance, leases stay behind the work they cover, retries bounded, every job settled | `JobQueue`, `JobContract` |
| provisioning, usage, deletion (`executor.ts` 344-470, 1565-1682) and the requests around them | `projects`, `project_resources`, managed databases, roles, buckets | create, enable, delete, restore; provision, measure, purge, failSubject | purges only when warranted and always finished, credentials real, quota enforced, live projects stay up | `ProjectLifecycle` |
| builds and deployments (`executor.ts` 471-760, 2351-2387; `lib/projects.ts` 1051-1195) | `versions`, `deployments`, `current_version_id`, artifacts | build, deploy, prune | what is ready is complete, the current version is never pruned and has its files but for a second build of it, one live deployment, outcome recorded as it was | `Delivery` |
| runtimes (`executor.ts` 762-910, 2405-2453; `gateway.ts` 394-545) | `project_runtime`, containers | start, stop, idle sweep, reconcile, wake and wait | a row that says running has its container; a wake-up ends | `RuntimeWake` |
| tenants' migrations (`executor.ts` 1906-2000, `lib/deploy-checks.ts`) | `_ritsdev_migrations` in the project's database | gate, apply, activate | each file takes effect once, the live version has all of its own | `Migrations` |
| Docker networks and the in-process mutex (`executor.ts` 2135-2177, 2463-2531, 3272-3368; `lib/mutex.ts`) | networks, endpoints, subnets; holder and waiters | create, attach, detach, remove, reattach | a purge leaves no network, nobody attaches to one on its way out | `Networks` |
| renders and probes | result rows, pictures | ask, run, expire | a job that succeeded has its answer, and its picture but for a late removal | `Previews` |
| exports | rows, dumps on disk | ask, dump, publish, expire | a dump goes when its window closes | `Exports` |
| site reviews (`lib/site-review.ts`) | `site_reviews`, job per version | queue, judge, record | what strangers can reach was reviewed as it is | `Reviews` |
| showcase | card text, one picture file, its source | list, leave, upload, clear, capture | the owner's picture stays | `Showcase` |
| uploads and source (`lib/uploads.ts`, `lib/projects.ts` 900-1130, 1660-1694) | chunks, `source_revisions`, archives | begin, chunk, complete, abort, expire, store, create version | a revision has its archive; a key has one version | `Sources` |
| LLM keys (`lib/llm.ts`) | key at the proxy, encrypted copy | mint, revoke, undo | the stored key is the proxy's | `LlmKeys` |
| OAuth server (`routes/oauth.ts`, `routes/auth.ts`) | codes, refresh tokens, login states, consent requests, site tickets | issue, exchange, rotate, expire | each one-time value is used once | `OAuthGrants` |
| accounts (`lib/admin.ts`) | roles, quotas | sign in, create, patch, sync with the host | created within the quota of that moment | `Accounts` |
| access and visits (`gateway.ts` 81-161, 603-647; `lib/analytics.ts`) | counts per day | serve, count, prune | nothing invented, no window half pruned | `Visits` |
| monitor (`lib/monitor.ts`, `lib/alert-rules.ts`) | alerts, deliveries | evaluate, record, deliver | no flapping, a breach is told, no rule silent but for those section 3 names | `AlertMail`, `AlertInputs` |
| mailers (`lib/mailer.ts`, `lib/smtp.ts`, `lib/mail-cloudflare.ts`) | one conversation | send | nothing in clear, sent means received | `Mailer` |
| control database schema (`lib/schema.ts`) | `schema_migrations`, checks | create, bring up to date | every release can be upgraded, code and checks agree | `PlatformSchema` |
| rate limiter, build egress proxy, authentication, metrics, configuration, pages, CLI, scripts | counters, text or none | | see section 5 | not modelled |

`PROJECT.json` "hazards" lists where this code can go wrong in ways a test
hardly reaches, with the properties that cover each place and what they leave
open.

## 2. Modules

Five groups, each with an `MC` module that makes the instances:

| instance | modules | theorems in |
|---|---|---|
| `MCJobQueue` | `JobQueue`, which implements `JobContract` | `JobQueueProofs`, `JobQueueContractProofs` |
| `MCProjectLifecycle` | `ProjectLifecycle` | `ProjectLifecycleProofs` |
| `MCRuntimeWake` | `RuntimeWake` | `RuntimeWakeProofs` |
| `MCDelivery` | `Delivery` | `DeliveryProofs` |
| `MCAlerts` | `AlertMail`, `AlertInputs`, `Mailer` | `AlertsProofs` |
| `MCServices` | `OAuthGrants`, `Sources`, `LlmKeys`, `Previews`, `Exports`, `Reviews`, `Showcase`, `Accounts`, `Migrations`, `Networks`, `Visits`, `PlatformSchema` | `ServicesProofs`, `BackgroundProofs` |

Composition is by contract. Everything that is a job assumes of the queue what
`JobContract` states and `JobQueue` is proved to implement: a job is granted to one
worker at a time, may be taken back and done again, and the handlers of one
project do not overlap while leases hold. `Migrations`, and the second build in `Delivery`,
are about what happens when a lease does not hold.

`MCAlerts` and `MCServices` put components side by side that share none of the
state that is modelled. A behaviour picks one `part` and exercises it; the others stay
as they begin, so the states add up instead of being multiplied, and one run
checks them all. `MCServices` extends `Migrations` and instantiates the rest.
Its properties are those of the parts, together with their type invariants
(`Kept`).

### JobQueue and JobContract

State: one function per column that matters (`status`, `lockedBy`, `fresh` for
`locked_at`, `due` for `run_after`, `attempts`, `older` for the order of
`created_at`), the advisory lock `claimLock`, the process (`proc`, `boot` for the
boot nonce in a worker's name, `inFlight`) and each worker's position and locals
(`pc`, `cur`, `seen`, `slotFree`, `lapse`). `fails` and `lost` are history.

A claim is one transaction of several statements and is modelled one by one:
`StartClaim`, `TryLock` (the advisory lock, or nothing), `CountHeavy`, `Select`
(`CLAIM_SELECT_SQL`, with its row lock), `CommitClaim`, then `Register` for the
entry in the in-flight map, which happens after the commit. `ClaimError` is a
statement that throws, or a lost reply to the commit. A handler's end is `Succeed`
or `Fail` followed by `FailSubject`; both go through the `status = 'running' AND
locked_by = me` guard, so a late report of a lost lease changes nothing. Handlers
that rewrite the table themselves are `PruneVersions` and `DeleteProjectRow`.
`Close`, `Release`, `Exit`, `Crash` and `Boot` are the orderly and the other ends
of a process. `Lapse` is a handler that outlives `MAX_JOB_SECONDS` or whose
renewals stall; `Expire` is the lease running out; `SweepLeases` takes it back.

Abstractions: no clock (a lease is fresh or not, a job due or not). One statement is one step, as
PostgreSQL gives it under row locks. `ReviveDelete` asks for a project marked
deleted, which is outside this module: here it may happen whenever the job
failed. Lease and due columns are reset where no statement reads them, as are a
worker's locals outside its calls.

### ProjectLifecycle

State: the project's row (`status`, `purgeAfter`, `enabled`, `provisionState`,
`creds`, `measured`), its three jobs, the database (`database`, `writable`,
`over`), requests (`pc`, `op`, and `saw`, what `ownedProject` read), the handler
(`exec`, `step`, `sawDb`, `full`), failures whose `failSubject` is still to come, and
`deadline`, the history of what the last committed request wants.

`Ask` is the read at the start of a request; `Enable`, `AskAgain`,
`PullForward`, `MarkDeleting`, `QueueDeletion` and `Restore` are its statements or
transactions, and act on what `Ask` read however old it is. `ReadPlan`,
`BuildDatabase`, `RecordResources`, `Publish` are `provisionProject`;
`ReadUsage`, `RecordUsage`, `SetGrant`, `SetUsageStatus` are `measureUsage`;
`StartPurge`, `MarkDeleted`, `DropDatabase`, `EraseProject` are `deleteProject`.
`HandlerFails` may hit before each step, `Crash` and `Abandon` end
the executor or the control plane in the middle, `FailSubject` follows a failure
at any later time.

Abstractions: the database stands for the bucket, the roles and the files, which
are made, recorded and removed beside it. The queue is `JobContract`'s: one
handler of a project at a time. A handler that outlives its lease
(see section 3) is therefore not in this module. The clock counts weeks, the
length of the recovery window, and does not pass during a request. LLM keys,
runtime containers and versions are left to their own modules. Usage jobs have
one key per five minutes in the code; here a finished one makes room for the
next.

### RuntimeWake

State: the `project_runtime` row of one version (`row`: its state, the proxy
secret, whether `last_seen_at` is recent), its container (`box`: none, up or exited, and
the secret and limits it was started with), the project's `limits`, its five jobs
(a cold start, the idle sweep's stop, the stop after a change of the limits, a
deployment, a render), the handler (`exec`, `step`, `plan`, `key`), a failure report still to be
made (`late`), housekeeping (`keeper`, `listed`), visitors (`pc`, `retry`) and an
operator's transaction (`admin`). `awaited`, `heard` and `misled` are history: who was
waiting when a start failed, and whether the failure that a visitor can read is that of a start he
waited for or of one before.

`ReadProject`, `MarkStarting`, `Launch`, `Probe`, `RecordRunning` are `startRuntime`;
a render enters through `EnsureStarted`. `StopContainer` and `RecordStopped` are
`stopRuntime`; `Activate`, `RemoveContainers` and `RecordStopped` what a deployment does to the
runtime. `FailedContainer` and `FailedRow` are `failSubject`, which runs after the job was
handed back, so beside the next job. `ListContainers`, `Reconcile`, `SweepIdle` are one
round of housekeeping. A visitor goes through `Visit`, `Clear`, `AskStart`, `Poll` or `GiveUp`,
`Reach` and `MarkGone`, the statements of `proxyFunction` and `wakeRuntime`.
`ReadLimits` and `CommitLimits` are `updateProjectLimits`: what it read is older
than what it commits. `Die` ends a container at any time.

Abstractions: `docker rm`, `docker run` and the secret between them are one step,
during which the row is `starting` and nobody looks at the container. Retries are
not counted (`JobContract` leaves both outcomes open, `JobQueue` counts). Two
timing facts are kept as costs instead of a clock: a retry waits for 30 seconds,
so a claim that overtakes a failure report spends a trouble, and the gateway
waits longer than the executor (`runtimeBudget` asserts it), so giving up while
a start is pending spends one too. Only one failure report is outstanding at a
time. The other versions' runtimes go through the same actions.

### Delivery

State: the rows of versions (`version`, their status, and `recorded`, those with an
`artifact_path`) and deployments (`deployment`, and `of` for `version_id`), the
project's `current` version and its `limit`, a job for each version and each
deployment, the artifact trees that are complete on disk (`tree`), the handler (`exec`,
`step`, and `doomed`, what `pruneVersions` found), failures still to be reported
(`late`). `activated`, `last`, `swept` and `rebuilt` are history; a version is in `rebuilt` from the
moment its build is reclaimed although it was recorded, until it is recorded again.

`CreateVersion` and `Deploy` are the transactions of the two requests. `MarkBuilding`,
`Make` (all of the build, up to the `rm` of the place its tree goes to), `PutInPlace`
(the rename) and `RecordReady` are `buildVersion`; it ends in
`pruneVersions`: `ChooseDoomed` is the snapshot on which the DELETE decides,
`DeleteDoomed` the deletion with what the foreign keys do, `RemoveTree` one tree after the other.
They are two steps because the DELETE waits for a row a request has locked, and
the request may have committed a deployment of that very version.
`MarkDeploying`, `CheckReady` (to the end of the migrations) and `Activate` are `deployVersion`.
What follows the activation is left to `RuntimeWake`; that it may fail is
`HandlerFails` at the step `done`. `Reject` is a failure that is the source's or
the project's fault and costs no trouble. `FailSubject` comes at any later time and
writes without looking.

Abstractions: the queue is `JobContract`'s, with one handler of the project at a
time, the oldest job of each kind first; which kind goes first is open, because a build
may wait for the heavy slot. A job given back at a shutdown is one that is
reclaimed. Numbers stand for `created_at`. The limit differs between behaviours
and is constant in each. Sources, previews and
migrations have modules of their own. Renders, probes and reviews of a version also keep it from being
pruned while they are pending; without them more is pruned.


### AlertMail, AlertInputs, Mailer

`AlertMail` is one pass of the monitor over and over, and passes that overlap, in one
process or over replicas: `Observe` reads what each rule measures, `TakeLock` or
`LockTaken` is the try-lock of `record`, `Record` steps every alert (`StepAlert`, the
counters with their thresholds) and commits, `Deliver` queues the mail in a
statement of its own, `Claim` marks the oldest mails `sending` (`Oldest`: a row
knows which rows were there before it), `Sent`, `Refused` and
`Unsure` (the answer was lost, the mail perhaps not) end one. The claim returns its rows in no
particular order (`RETURNING` promises none, whatever the inner query sorts by), so a
batch is a set and any of its mails comes next. `Lost` is a pass
that ends anywhere; what it claimed stays claimed. An alert may be *episodic*: observed only
while something is wrong. `told` is what the operator's last mail said. The clock is one flag
per alert, `overdue`. A pass records only when there is room for its mail
(`MaxMails`), otherwise it goes on like one that found the lock taken.

`AlertInputs` is about a rule being evaluated at all: which inputs a pass can
read on any host (no swap, a swap of which only the total is told, no `/proc/vmstat`, a
reboot, a first reading), which rules it evaluates (`Observed`) and which inputs it
reports (`Missing`). A pass may find the database (`PassOver`) or not (`PassWithout`); then only the rule about the
database is evaluated, and recorded if the database is back by then. `silent` and `twice` are history: what the
last passes left out without a report.

`Mailer` is one mail under every configuration against every behaviour of the relay:
the choice of the transport, the SMTP conversation stage by stage with its
capabilities, the HTTPS request. Of the wire only the password and the message are kept.

### OAuthGrants

Every secret that signing in hands out is a row that is used once and has at
most one successor: login state to session, consent to code to refresh token
to the next, ticket to site session. `Look` is SELECT ... FOR UPDATE, `Commit` the exchange, `Deny`
and `Rollback` its other ends; `RedeemAtOnce` is the single UPDATE that needs no
lock. `Revoke` and `Expire` come at any time.

### Sources

An upload is begun, receives its chunks, and is claimed by a completing request
(`Claim`), assembled, and stored; a direct upload is stored the same way. Storing is
`Write` (a file of its own), `Insert` (which finds the bytes stored already, or
not), `Remove` (the loser's file) and `Audited`. A failure after `Claim` goes through `Reopen`;
a crash does not. `Ask`, `Look`, `Create` and `Again` are a version under an
idempotency key, with the unique index and the repeated request.

### LlmKeys

`Clear` and `Generate` are the two calls of a mint, each of which can fail before
or after it took effect (`ClearFails`, `GenerateFails`); `Store`, `StoreFails` and
`Undo` the statements around them, `Mark`, `Revoke`, `Forget` and `Reopen` deletion
and restore. The fixed lifetime of a key and the budget on the proxy are left out.

### Previews and Exports

A render has one job row and one picture for each version, for ever; a probe is a job of its own.
The request waits for the row; the executor claims, works, records and reports;
housekeeping ages rows (`Age`), deletes the expired one (`ExpireRow`) and then its
file (`RemovePicture`), which may be the file of the next run: `taken`, a history, says so. `Die` ends the worker
anywhere. An export is the same with two files (the partial one is renamed) and
two windows, and the request itself rewrites the row of the last one (`Reset`).

### Reviews and Showcase

A review is queued after a deployment's activation or when the visitor tier
widens, and looks at what is live when it runs. `Activate` and `FollowActivation` are the two
parts of a deployment's end, `ReadProject`, `UpdateAccess` and `EnqueueSiteReview` those of a
change of the tier. A request compares the new tier with the one it read, so one that
another request has narrowed meanwhile may be opened again without a review
(`UpdateAccess`). The verdict is a function (`ReviewSite`) of what the page
shows and of what the model answers. `late` names the versions whose review the code
is known to miss. In `Showcase` the owner uploads, clears, lists and leaves while
deployments queue captures; both pictures go to one file.

### Accounts

`LockAccount`, `Count` and `Insert` are the transaction of a create, `LockPatched`
and `WritePatch` that of a superadmin's change of quota or role, `HostStarts` a start of the control plane with
its lists of operators (`SyncOperators`), which ends whatever was under way.

### Migrations

`Gate` decides on what the version declares and what the project has. A worker
lists the files and for each one looks, runs, inserts its row and commits; `CommitUnknown`
is a commit whose answer is lost, `Fails` a worker that ends anywhere. Two
workers overlap freely. `KeyFree` is the primary key, which waits for an open transaction. A
file runs or fails as a whole; one that itself ends the transaction it runs in
would break `AppliedOnce` and is assumed away.

### Networks

A project's network is created by a start and removed by a deletion, a build's by the
build; both are under the mutex, whose release hands it over to the oldest waiter
without unlocking it (`Unlocks`). `ListNetworks`, `Reattach` are the housekeeping
pass that attaches a new gateway to what it listed. A pool has room or not; a removal of a
network with something attached fails and is tried once more (`ActiveEndpoints`).

### Visits

A request is authorized by what the gateway read (`Ask`), served, and counted after the
response under the day of the response. `WriteFails` may have taken
effect. Pruning takes the day once and deletes in two statements at two
horizons. A statement takes less than a day.

### PlatformSchema

A control plane makes sure that the database exists, takes the advisory lock,
applies what `schema_migrations` lacks, one migration after the other, and
commits. The database begins at any release (none to ten migrations applied) or does
not exist; whatever release is running goes on writing rows that its check
admits (`Write`), of the values that this code stores (`JobKind`, `PlatformRole`,
`AccessMode`); several control planes start at once, and `Stop` cuts one off. Kept are
three of the five checks that migrations drop and write again: the kinds of jobs, the roles, the
access modes; those of `provision_state` and of the source of a showcase picture are left out. What the first release had is inferred from what later migrations
add to it (`FirstBaseline`, external).

## 3. What is checked

| run | instance | shows |
|---|---|---|
| `queue_exclusion` | 3 jobs, 2 projects, 2 workers, 1 heavy slot, 4 requests, 1 trouble | `TypeOK`, `LeaseBacksWork`, `OneWorkerPerProject`, `HeavyAllowance` |
| `queue_contract` | a cold start and a deletion of one project, 2 workers, fairness | `AttemptsAreBounded`, `ImplementsContract`, `EventuallySettled` |
| `lifecycle` | 2 requests, 1 week, 1 trouble, fairness | `TypeOK`, `CredentialsAreReal`, `PurgeWarranted`, `LiveNotDemoted`, `MarkedIsPurged`, `QuotaEnforced` |
| `lifecycle_restore` | 1 request | finds `RestoreCancels` violated |
| `wake` | 1 recurring visitor, 1 request, 2 troubles, fairness | `TypeOK`, `SecretMatches`, `VerdictIsNews`, `IdleStopped`, `VisitsRevive` |
| `wake_limits` | 1 change of the limits | finds `LimitsApplied` violated |
| `delivery` | limits of 1 and 2, up to 4 versions, 2 deployments, 1 trouble, fairness | `TypeOK`, `VersionsAreServable`, `LiveIsAccounted`, `LatestStays`, `DeploymentSettles` |
| `alerts` | 2 passes, 1 alert, 2 mails, 2 troubles, fairness; any host; 2 recipients | `SentOnce`, `NoDoubleAlarm`, `BreachIsTold`, `NoRuleStaysSilent`, `NothingInClear`, `SentIsReceived` |
| `alerts_clear` | the same without trouble | finds `EveryAlertClears` violated |
| `services` | the parts below | `OneInForce`, `ArchiveKept`, `OneAnswerPerKey`, `KeyWorks`, `SuccessHasAnswer`, `ReviewedUnlessOvertaken`, `QuotaHeld`, `SchemaIsSound`, `RemovalIsClean`, `VisitsAreTrue`, `SchemaIsWhole` |
| `export_orphan` | the same instance | finds `DumpsAreRemoved` violated |
| `showcase_upload` | the same instance | finds `UploadedIsKept` violated |

Four properties have an exemption because the code does not keep them without it. They are stated without it too, and
a configuration beside the runs, with that property alone, has TLC show the violation:

| property of a run | exemption | without it | configuration |
|---|---|---|---|
| `VerdictIsNews`: a failure that a waiting visitor reads was recorded after he cleared the row | it may be the late report of a start that was over before he cleared it | `VerdictIsOwn` | `MCRuntimeWakeVerdict.cfg` |
| `VersionsAreServable`: a ready version has its tree and its path, the live one its row, its path and its tree | the tree, while a second build of it is not over | `LiveIsThere` | `MCDeliveryLive.cfg` |
| `NoRuleStaysSilent`: of the passes that reach the database no two in a row leave out a rule without a report | the swap-in rate right after a reboot; `swap_used` where `/proc/meminfo` has `SwapTotal` and no `SwapFree` (`lib/monitor.ts` 203 leaves it out, 224 calls the input there); the rule about the database itself | `OutageIsSaid`, of the last | `MCAlertsOutage.cfg` |
| `SuccessHasAnswer`: a render that succeeded has the row that names its picture, and the picture | the picture, if the removal for an earlier run's row took it | `PictureIsThere` | `MCServicesRender.cfg` |

What happens in each of them is the first part of "Seen while modelling" below.

The properties of `services`, by part: however many requests present a secret,
one click has at most one in force (`OneInForce`); a revision has its archive on disk
(`ArchiveKept`); requests under one key are told of one version
(`OneAnswerPerKey`); a ready project's stored key is the one the proxy accepts
(`KeyWorks`); a render that succeeded has its row, and its picture but for a late removal, a probe is sent again only if its
worker died (`SuccessHasAnswer`); what strangers can reach was reviewed as it is served, but for the
gaps named in `late` (`ReviewedUnlessOvertaken`); an account gets a project only within the
quota of that moment (`QuotaHeld`); each migration takes effect once and the
live version has all of its own (`SchemaIsSound`); a project's network goes at
the first attempt and never stays behind (`RemovalIsClean`); counts are of real
visits and days that can be read are whole (`VisitsAreTrue`); from every
release no migration is refused and the code's values are admitted
(`SchemaIsWhole`). Assumptions evaluated with the run: the model never makes the
verdict on a page milder than its signals (`ModelOnlyEscalates`, over all pages
and answers), the horizons of the counts (`RetentionAssumption`), and what
the proofs take for granted: the names of migrations (`MigrationAssumption`), the bounds and what an
account begins with (`BoundsAssumption`), names that stand for nothing else
(`NamesAssumption`); for `alerts` the same is `AlertsAssumption`.

### Bounds

Two workers and one heavy slot are what ships. Three jobs are the fewest
for which the project exclusion and the heavy allowance bind different pairs: a
build and a cold start of one project, a render of another. `MaxTroubles` counts
the stops, crashes, lapsed leases, failed claims, failing handlers and lost
requests; one is enough for each kind to meet every step, and the retry budget
is used up without any (a handler may fail freely in `JobQueue`). `MaxRequests`
lets each job be asked for more than once.

In `ProjectLifecycle` two requests give every stale read its conflicting write
and one week is the recovery window. The action constraint `InOrder` says that
`c1` is the request that comes first; nothing tells the two apart, and unlike a
symmetry set it is sound for the liveness properties of that run, whose
formulas name no request. In `RuntimeWake` the visitor comes back without end,
so every state of the row meets every statement of his; what two visitors do to
each other is in the theorems, which hold for any number, and in `MCRuntimeWakeVerdict.cfg`. One request is a
deployment, a render or a change of the limits, and two troubles let a failure
hit the recovery from another. In `Delivery` a version can be
pruned once there are two more than the limit: the live one, the one just built
(its job is still running), and the one that goes. Limits of one and two tell whether the live
version has its own place, two deployments are the fewest that can supersede
or overtake each other, and one trouble hits every step of each of them.

In `AlertMail` two passes overlap, two mails let the second be lost while the first waits, and two
attempts with two troubles exhaust one mail. A batch holds both, so that the limit of a
claim does not bind in the run; the theorems are for any limit. In `MCServices` every race has two
requests: two exchanges of one secret (`MaxRows` of six is a login or a consent and the
successors that matter), two that store one body or use one key (`MaxFiles` of three
is a file for each and one for a repetition), two exports, two creates and patches over two
accounts, two workers of migrations, two builds, two control planes. Where the property is about
one owner who does one thing at a time there is one (`LlmKeys`), four keys being a
mint, its repetition and a restore. In `Reviews` one request changes the tier at a time;
what two do to each other is in `ReviewsAreComplete`, which holds for any number. Two versions are enough for one to overtake another; two
files and two forms for a migration that has changed. Quotas of one and two make a
role and a patch both matter. `Visits` keeps the order of its three horizons, one, two and three
days in place of 30, 35 and 400, and five days so that each is passed. One free
subnet in each pool makes every second network wait or fail.

`SlotSymmetry` and `Symmetry` permute what is only compared for equality, in
runs without liveness. `CHECK_DEADLOCK FALSE` is set because all jobs may be
settled, the project purged, the mail sent or the rows used up, with the bounds
used up.

### Fairness

`JobQueue`: weakly fair workers (the loop polls for ever), sweep
(housekeeping runs every minute), restart (compose restarts the executor), and
time. Nothing that goes wrong is owed, and neither are clients.
`ProjectLifecycle`: a request that began is served or lost, a claimed job
executed, housekeeping comes round, weeks pass. `Claim` is strongly fair per job
because the claim takes the oldest due row, so no job is passed over for ever;
that a queued job is settled is what `EventuallySettled` checks of the queue
itself. Owners and operators owe nothing. `Delivery`: a
queued job is claimed when the project is free, a lost one swept, the handler
goes on or ends, and a report that is due is made unless the process dies;
requests and failures are not owed. `RuntimeWake`: claims, handlers, failure
reports and housekeeping go on, a request once begun goes on, time passes.
Visits are not owed: `IdleStopped` assumes that they end, `VisitsRevive` that they do
not. `AlertMail`: the timer starts passes and they go on to an end, and the
clock does not stop; `BreachIsTold` rests on the bound on troubles, for a relay that
refuses for ever tells nobody. The services have no liveness property: what
they owe is owed by the queue.

### Mutants

Every property has a mutant: a plausible bug in a modelled definition under
which TLC finds the property violated (`MeBySlot`, `OwnsLeaseByStatus`,
`LockIgnored`, `GateSkips`, `ShowcaseKindsOfBranch` and the like, next to the
definitions they change).

### Findings

1. `lifecycle_restore`: a measurement queued before a deletion runs after it and, over the
   limit, overwrites `deleting` with `storage_exceeded`. The project looks
   live, `restore` refuses it, and it is purged a week later.
2. `wake_limits`: `updateProjectLimits` recycles a runtime only if its row says
   `running`. A start in flight has read the old limits already, comes up with
   them, and keeps them for as long as the site is visited.
3. `alerts_clear`: `runtime_failed` is observed only for runtimes that are failed,
   so once it fires no pass counts a clear observation and it never resolves, which
   the comment at `lib/monitor.ts` 242 says must not happen.
4. `export_orphan`: a request for another export clears the row's `file_path`;
   if that export fails, the row that expires names no file and the first dump
   stays on disk, contrary to `executor.ts` 1820.
5. `showcase_upload`: a capture reads whose picture is up, renders, and then
   writes without asking again: a picture uploaded meanwhile is replaced, contrary to
   `executor.ts` 1189.

### Seen while modelling, and not runs of their own

The four exemptions. `failSubject` runs after a failed start was handed back
(`executor.ts` 308-319). A visitor who clears the row before it writes `failed` reads that failure and is answered
502 while his own start is queued; `gateway.ts` 399-401 says that what is read "can only be this
attempt's". A build whose lease is lost after it recorded the version is done
again, perhaps when the version is live: it removes the live tree (`executor.ts` 620) and puts its own there in a
second step, which it may never reach; the gateway serves the current version whatever its
status (`gateway.ts` 191-198), and the comment at `executor.ts` 581-584 says that a second build "can never
delete the first one's output half-way through". `postgres_unreachable` is recorded in the database it is about
(`lib/monitor.ts` 277), so while that is down no breach is counted and nobody is told, although
`lib/alert-rules.ts` 231 says that it is "the rule that says so". Housekeeping deletes an expired row and then its
file (`executor.ts` 1816-1819), and every run of a version's render writes the same file: a run in between loses its picture
though its job succeeds, `readFile` throws (`lib/projects.ts` 1299), and nothing renders again until
that row has expired too; `lib/projects.ts` 1271 says that a succeeded job "still owns its cached screenshot".

Queue. A handler that outlives `MAX_JOB_SECONDS`, or whose renewals stall, goes
on beside the next job of its project (`executor.ts` 267; nobody calls
`lost()`), although docs/operations.md 886 says two never run at once:
`OneWorkerPerProject` is of workers that keep their leases. `close()` reads the in-flight
map, which a claim enters only after its commit, so such a job is not handed
back (`executor.ts` 203) and waits for its lease to run out. The sweep requeues
a job whatever its attempts, so one that brings the process down is claimed for ever.

Projects. A resource enabled while provisioning is past its first read is recorded as
ready and never made (the comment at `lib/projects.ts` 779 calls that a correct no-op).
A deletion job that fails for good because its purge was no longer due keeps its
key: later deletions enqueue nothing and the project stays `deleting` unless it is purged
with `immediate` (`lib/projects.ts` 1562). `completeUpload` that dies between
its claim and the archive leaves the upload completed without a revision
(`lib/projects.ts` 998).

Runtimes. `ensureRuntimeStarted` compares the answer of its probe with `null`, but
`docker()` answers a missing container with an empty string and throws for a
stopped one, so a pre-warm never starts a runtime whose row says `running`
(`EnsureStarted`). A late failure report may remove the container of the next
start. A demotion that
comes late (`MarkGone`, `Reconcile`) leaves a container up without a running row until
the next visit.

Delivery. A process that dies between `TERMINAL_FAILURE` and `failSubject`
leaves a deployment `deploying` (or a version `building`) for good, and a deployment
requested while its version is pruned stays `queued` without version or job
(both are `Forsaken`). A deployment whose clean-up of the old runtime fails says
`failed` though its version is live. Until something is
deployed nothing is pruned, since `v.id <> p.current_version_id` is NULL then,
although the OFFSET has a case for it.

Alerts. A `resolved` mail that is lost is never repeated. A pass whose mailer hangs
leaves its mail `sending` for good. With both transports set up and none
chosen `lib/mailer.ts` 48-50 takes Cloudflare, which the comment at 41-43 says it does only without SMTP.

Reviews. A review passes over a version that is no longer live and is not queued
again when a rollback makes it live; one whose tier widened between the
deployment's read and its activation is missed (`executor.ts` 729,
`lib/projects.ts` 451), against "every such site" in docs/operations.md 291.

Previews, exports, showcase. A job may be claimed before the row of its
request is there, and fails for good (probes and exports have one try). An export whose row is reset between its UPDATE and its
success has succeeded without a path. A capture in flight when the owner leaves
the showcase leaves its file; leaving and listing again at once may lose the
picture; a rollback captures nothing (`executor.ts` 743).

LLM keys. Two requests of one owner at once may leave a key in the row that the
proxy has deleted: nothing orders them, and `KeyWorks` is of one at a time. A restore
whose mint fails comes back without a key (`unrestored`).

Accounts. The routes under `routes/ops.ts` 21 and 55 go by the role in the token, while
`authn.ts` 234-237 says that it is read again.

Networks. The network of a build whose proxy fails to connect, or whose container outlived
a crash, stays with its subnet: no sweep looks for them. In the second case the
`network rm` fails in the build's `finally`, after the version became ready.
Reattaching heals only the gateway's endpoint.

Visits. The totals, the unique visitors and the series of one answer are three statements with a
snapshot each.

Where a property holds only up to an existing gap, it says so: `MarkedIsPurged`
allows for the two statements that overwrite `deleted` (a delete request that
read the row before, a measurement over the limit), and `PurgeWarranted` speaks
of the step that reads the date, because a restore that commits between that
read and the destruction is lost and nothing in the code prevents it.
`ReviewedUnlessOvertaken`, `KeyWorks` and `DeploymentSettles` name their gaps, as do the four properties of the
table above. `late`, the gap of `ReviewedUnlessOvertaken`, is never taken back: a version that
was missed once is not spoken of again.

## 4. What is proved

Every safety property that a passing run checks, invariant or action property, is also a theorem, for every value of the
constants. The theorems are of `Spec` (of `FairSpec` in `AlertsProofs`, whose fairness is not used, and of
`ServicesSpec` for the services), with no bound but those in the guards, under the `ASSUME`s of the
modules and one named hypothesis (`OneAtATime`). The assumptions are that sets of jobs and passes are finite, a job has a project and a
kind, there is a heavy slot and an attempt at least, bounds are numbers, and what stands for "none" is
nobody's name. TLC evaluates each of them on the runs.

### The queue

- `JobQueueProofs!TypeCorrect`: by action.
- `JobQueueProofs!LeasesBackWork`, `ProjectExclusion`: from `LeaseInv`. That no two steady
  workers share a project is not inductive. The claim is several statements, and what
  excludes others between them is the advisory lock (`ClaimSection`) and the row
  lock (`SelectedRow`), so that the project of a row already selected has no
  steady worker until the commit (`SelectionExclusive`). A steady worker in turn
  owns a live row (`LeaseBacksWork`), which is what the selection looks at.
- `JobQueueProofs!AttemptsBounded`, from its parts `AttemptsAccountedFor` and `RetriesBounded`
  and `BudgetInv`. The decision to retry uses the attempt count from the claim; `SeenCurrent` says that it is
  still the row's for as long as the worker owns the row, whatever releases and revivals
  reset elsewhere.
- `JobQueueContractProofs!HeavyLimited`: from `HeavyInv`. The count is read one
  statement before the selection and two before the commit; `HeavyCounted` says that it
  stays an upper bound, since between them grants can only end.
- `JobQueueContractProofs!ContractImplemented`: `JobQueue` implements `JobContract` under the
  mapping `PhaseOf`, by which a job is unknown, waiting, granted, doubtful (running, and held under no lease
  that is kept) or settled, as its row and the workers that hold it say. The invariant is `ContractInv`: `HeavyInv` with `GrantsApart` (a selected
  job's project has no grant until the commit, in a process that is ending too) and `LapsesEnd`
  (a lapse ends with its call). Each action of the queue is one of the contract's or a stutter: the
  commit is the only step that grants, and its two side conditions are `GrantsApart` and `HeavyCounted`; a
  report takes only the reporter's own grant (`LeaseBacksWork`); a renewal gives none;
  the end of the process takes all of them. The liveness of the contract is not part of it.

### Projects, runtimes, deliveries

- `ProjectLifecycleProofs!TypeCorrect`: with `MarkedDated` (a request that marked the project knows
  the date), without which the due date of a job might be NULL.
- `ProjectLifecycleProofs!CredentialsReal`: from `CredsInv`: a handler about to record a
  database it wanted has one, and no handler starts in the middle.
- `ProjectLifecycleProofs!PurgesWarranted`: from `DateInv`, the date in the row is the last
  committed request's or there is none, and from the fact that only
  `StartPurge` leads on to a purge.
- `ProjectLifecycleProofs!NotDemoted`: an action property, by the actions that write
  the status.
- `RuntimeWakeProofs!TypeCorrect`: with `LimitsCounted`, a change under way counts as a request.
- `RuntimeWakeProofs!SecretsMatch`: from `SecretInv`. While a start is between its mark and its
  record no row says `running`, so the new container cannot disagree with it; what is
  up then is what the handler launched, whatever late reports removed.
- `RuntimeWakeProofs!VerdictsAreNews`: from `VerdictInv`, which extends the property to a
  visitor who has cleared the row and not yet asked for the start. What is proved is that the failure is no
  older than his clearing; that it may be of an earlier start is the exemption of section 3.
- `DeliveryProofs!TypeCorrect`: with `Position`, a handler is at a step of its own.
- `DeliveryProofs!ServableVersions`, from its parts `ReadyComplete` and `CurrentKept` and `KeptInv`. Pruning decides on a
  snapshot and deletes later, so neither is inductive alone: what was found has no pending
  build and is not live (`Chosen`), nothing else can be executed in between
  to change that, a pending job keeps its version in the table (`JobsHold`), a version
  whose tree is away is not ready (`Making`), and what is recorded has its tree and no build to come,
  unless that build was reclaimed (`Rebuilt`): so the live version is without its tree in that one case only.
- `DeliveryProofs!LiveAccounted`: from `AccountInv`. A late report cannot be about a deployment
  whose job succeeds later (`Reported`), and a handler that has activated is that of the last
  activation (`Finished`).
- `DeliveryProofs!LatestKept`: from `OrderInv`. Before a deployment that is executed or was
  activated only those wait (`WaitsAgain`) or run (`RunsAgain`) whose job was taken back.

### Services

`MCServices` lets a behaviour exercise one part, so each invariant is of the form "if it is this
part's turn"; `Turns` reduces a step to one of the part's own actions.

- `ServicesProofs!OneSecretInForce`: from `GrantsInv`. Whoever has locked a row is the only one with a row of
  that lineage (`HeldAlone`, `HeldOnce`), and the rest of the lineage is spent; so an exchange may commit although
  its row has expired since it was looked at.
- `ServicesProofs!ArchivesAreKept`, `OneAnswer`: from `SourceInv`. A request that has written an archive
  is alone with it, under a name no revision has (`WrittenArchive`, `WrittenOnce`), until the row is inserted or the
  file removed; a key has one version (`KeysUnique`), and what was answered is a version there is.
- `ServicesProofs!QuotaIsHeld`: from `PeopleInv`. Whoever has counted an account's projects, or is about to
  write the account, holds its row (`LocksHeld`), so the count (`RoomLeft`) and the limit (`LimitKnown`) still hold at the
  insertion.
- `ServicesProofs!KeyKeepsWorking`: from `LlmInv`, under `OneAtATime` (there is one owner, who asks for one thing
  at a time). Where the request is says how far row and proxy agree (`OwnerAt`). Without the hypothesis
  it is false, as section 3 says.
- `BackgroundProofs!SchemaSound`: from `MigrationInv`, for any number of workers that overlap, under
  `FilesInOrder` (files have numbers and can be sorted, the absent form is no
  form). A worker trusts what it looked at long before the activation. That is sound
  because a row that is there never changes (`RowsKept`) and of the workers only one
  is about to commit a given file (`Sole`); so what a worker has passed is recorded
  in the form of its version (`Way`), and at the activation all of its files are behind it, which `Live` keeps.
- `BackgroundProofs!SuccessIsAnswered`: from `PreviewInv`. What the executor is at says what the row holds of a render
  (`RenderAnswered`), that a picture made and not expired is there or was taken (`Wanted`), and how often a probe may still
  be sent (`SentAsAllowed`: its worker's deaths and the rest of its life).
- `BackgroundProofs!SchemaStaysWhole`: from `PlatformInv`. The three checks are functions of the number of the
  last migration and of the release they began at (`CheckAt`), they only ever admit more, and the open transaction is on its way from
  the committed number to a later one (`TxOnWay`). `PlatformSchema` defines what is left to apply by a
  recursive function; the proof exhibits its solution for the ten migrations there are instead of an induction.
- `BackgroundProofs!VisitsCountTruly`: from `VisitInv`. A statement under way is about something opened today or
  yesterday, no two about one thing (`WritersOpened`), so what is counted and what is under way are together no more than what was
  opened; a visitor is named with a count until his day is past its horizon (`VisitorsCounted`).
- `BackgroundProofs!RemovalStaysClean`: from `NetworkInv`. One caller is under the mutex, and one that is handed it enters
  where it had asked to (`MutexInv`); a project that is being purged is not started (`ProjectsClean`), so
  while its network is taken apart nothing is attached to it (`Fits`).
- `BackgroundProofs!ReviewsAreComplete`: from `ReviewInv`, for any number of requests at once. What is reachable was
  reviewed, is known to be missed, or has its review coming (`ReviewComes`, `Coming`): queued, being done, or about to be queued
  by the deployment that activated it or the request that opened the site. Two requests at once showed a gap that one does not (a
  widening compared with a tier that is no longer the project's, `lib/projects.ts` 451); it is now one of those
  that `late` names.

### Alerts

- `AlertsProofs!MailIsSentOnce`, `ChangeIsToldOnce`: from `MailInv`. Under the advisory lock what a pass has read is what
  there is (`LockHeld`), so what it announces is what has changed; a mail claimed is marked `sending` and in one
  batch (`HandsApart`); `RoomKept` keeps a number free for every mail a pass is going to queue.
- `AlertsProofs!SilenceIsReported`: from `InputsInv`. A rule that a pass over the database leaves out is reported
  (`LeftOut`), is excused, or is the swap-in rate without an earlier reading, and then the next pass has one.
- `AlertsProofs!ClearTextIsAllowed`, `SentMailIsReceived`: from `PostInv`. A conversation is encrypted at every stage after the
  upgrade where the configuration asks for it (`Allowed`, `Encrypted`), and no message is sent before every recipient
  was accepted (`Everyone`).

### Only model-checked

The liveness properties `EventuallySettled`, `MarkedIsPurged`, `QuotaEnforced`, `IdleStopped`,
`VisitsRevive`, `DeploymentSettles` and `BreachIsTold` rest on fairness and are out of this prover's reach. The
five violations are counterexamples of TLC. `ModelOnlyEscalates` is evaluated over all pages and answers as
an assumption: the proofs do not use it. Of exports and of the card in the gallery only the types are proved:
their other properties are the ones that are violated.

Worth proving next: what does hold of exports and of captures beside the two gaps (a dump is
named by a row or has lost its name to a second request; a picture is replaced only by a capture that began before
the upload); that a queued mail is claimed before younger ones; a contract for runtimes that a deployment and a visitor could share.

## 5. What is not modelled

- Build egress proxy: a counter of sockets and a pipe. When a slot comes back is
  up to Node's socket events, which the source does not say.
- Rate limiter: a counter per address and window in one synchronous function; a full
  table drops its oldest window. No two steps of it can interleave.
- Authentication and tokens: signatures, scopes and domains are checked per
  request without state of their own; personal tokens are single statements.
- Configuration, metrics, the HTTP surface and pages: parsing, read-only
  queries, text.
- Command-line client, operations scripts, and of compose all but the restart policy:
  clients and tools run by an operator.
- What a build, a migration or a site does; how evidence for a review is
  gathered and what the model is asked; encodings, encryption, subnet
  arithmetic; measured values and thresholds of alerts.

PostgreSQL, Docker, the object store, the relay and the LLM proxy are taken to do what they are
asked or to fail; a statement is atomic, and a lost reply is modelled where it
leaves something behind (the commit of a claim or of a migration, a key, a mail, a visit).
