# vcf-doctor: a verification development

TLA+ models of the parts of vcf-doctor whose correctness depends on the order in
which several processes, threads and transactions act, the TLC runs that check
them on small instances, and TLAPS proofs that hold for every value of the
constants. `PROJECT.json` maps each definition to the source lines it stands for.

## 1. The system

vcf-doctor is a FastAPI backend (`src/backend/app`) with a React frontend. Each
deployment runs one or several uvicorn workers, on one or several pods, against
one PostgreSQL database. A worker has request threads, an APScheduler thread pool
and a maintenance job that runs every minute. Workers share nothing but the
database: its tables, and session-level advisory locks.

| Component | State it keeps | Operations | Interacts with |
|---|---|---|---|
| scan pipeline (`scheduler.py`, `db.py`) | advisory lock per connection, `scan_runs`, `schedules.last_status` | `run_scan`, `_run_scan_locked`, `reconcile_interrupted_runs` | collectors, snapshot store, event capture, change log |
| scheduling and leadership (`scheduler.py`) | scheduler lock, `_leader`, `_scheduled_state`, APScheduler jobs | `take_leadership`, `_drop_scan_jobs`, `reconcile_jobs`, `reschedule`, `remove_job` | request handlers for schedules and connections, on every worker |
| change log and retention (`snapshots/store.py`) | `snapshots`, `changes`, settings `log_since`, `log_retained_since`, `retention_policy` | `save_snapshot`, `save_changes`, `apply_retention`, `backfill_log_since`, `prune_changes` | scan pipeline, startup maintenance, API |
| event capture (`events/`) | `events`, `event_capture_state`, `event_incomplete_intervals` | `capture_events`, `_fetch_window`, gap recording and clearing | scan pipeline, vCenter |
| startup maintenance (`scheduler.py`, `main.py`) | which steps are still pending, per process | reconciliation, backfill, compaction, retention, with retries | all stores |
| vault (`vault.py`) | key file, encrypted settings, generation | key creation, `migrate_plaintext`, `rekey` | connections, settings |
| authentication (`auth.py`, `oidc.py`, `tokens.py`, `service_accounts.py`) | password hash, session secret, cut-offs, limiter tables, cached provider keys per process, tokens | setup, login, password change, cut-off, token creation and use, OIDC round trip | API middleware, identity provider |
| trusted proxies (`proxies.py`) | row in settings, cache per process | read, save, refresh | API middleware, login limiter |
| diff engine, diagnostics, score (`diff/`, `diagnostics/`) | none (pure functions) | `diff` and `run_all` in a scan; `coverage` and `compute_health` on request (`_health_inputs` in `api/router.py`) | scan pipeline, API, stored findings, the two newest snapshots |
| findings and related changes (`api/findings_related.py`) | none | coverage window, bracketing snapshots | change log |
| database, migrations, import (`db.py`, `migrate.py`, `import_sqlite.py`) | pool, `schema_migrations`, identity columns | `upgrade`, import | everything |
| collectors (`collectors/vsphere`) | none shared | one view after the other, merge, normalise | vCenter, scan pipeline |
| assistant | none | builds a prompt, calls a provider | model providers |
| frontend (`src/frontend/src/state`) | outage and session state of a browser tab | polling, stale-answer guards | API |

What makes this system hard to test:

* **Interleaving.** A scan on one worker, a sweep on another and a deletion in a
  request thread touch the same rows, in many transactions each. On the leader, a
  request thread and the maintenance thread run `reschedule` at the same time.
* **Failure.** A worker can be killed between any two statements; any statement
  can raise, also one whose commit succeeded; a database restart ends every lock
  session while the threads that held the locks go on.
* **Ordering.** Snapshot, findings, changes, run status and schedule status are
  separate transactions. Events carry times older than the moment they can be read.
* **Retries and limits.** Query caps, retries of recorded gaps, a startup step
  that is tried again alone, a login limiter that sweeps and evicts.
* **Stale copies.** Each process keeps the proxy list, the provider's keys and the
  vault key in memory while another process changes what they are copies of.
* **Torn reads.** vCenter changes between the views of one collection, so a snapshot
  need not show any state vCenter was ever in.

`PROJECT.json` lists the hazards at their lines; each has the properties that
would catch it, or a note on why none does yet.

Properties that make the components correct: scans of a connection exclude each
other; a sweep closes only rows nobody is writing; history is final; locks and
runs end; a leader has the jobs it has on
record, a worker that stepped down has none, and they become those of the stored
schedules; the change log claims nothing it does not have; the event checkpoint
passes only what is stored; no stored secret is under a key that is gone, and no
rewrite loses what an operator entered; who was refused holds nothing that works;
guesses are bounded whatever the addresses; a migration takes effect once; the log
tells what the snapshots show, and a finding comes with a change that explains it.

## 2. The modules

| Module | Contents |
|---|---|
| `ScanRuns` | runs, scan locks, sweeps, deletions, crashes and lost sessions, several workers and connections |
| `ScanHistory` | the abstract specification of scan history, without locks, threads or workers |
| `SchedulerJobs` | leadership and jobs, the maintenance thread and the request threads of each worker |
| `ChangeLog` | scans, retention passes and the backfill of one connection's change log |
| `Related` | what the drawer of a finding shows, as a function of `ChangeLog`'s tables |
| `EventCapture` | the captures of one connection's events, with gaps and checkpoint |
| `Access` | password, sessions, API tokens, service accounts, cut-offs |
| `Vault` | key creation, migration of plaintext, re-keying, rotation by an operator |
| `LoginLimiter` | the two windows of failed logins and their limits |
| `ProxySettings` | the cached list of trusted proxies, in several processes |
| `SignIn` | OIDC sign-in with the cached documents and keys of the provider |
| `Import` | schema migrations and the one-shot import, beside a console that writes |
| `Normalize`, `Diff`, `Checks` | the pure part of a scan as operators, each on the one before |
| `Inventory` | a vCenter that changes while it is collected, then normalised, checked and diffed; snapshots that are removed, and the score as it is asked for later |
| `MC...` | instances for TLC, one per run group |
| `ScanRunsProofs`, `SchedulerJobsProofs`, `ChangeLogProofs`, `EventCaptureProofs`, `AccessProofs`, `VaultProofs`, `ServicesProofs`, `InventoryProofs` | the theorems; `ServicesProofs` has those of `Import`, `ProxySettings`, `SignIn`, `LoginLimiter` and of their sum, `ChangeLogProofs` those of `Related` too |

How they compose. `ScanRuns` implements `ScanHistory` under a refinement mapping.
`Related` extends `ChangeLog`, and its property is checked in every state of it.
`ChangeLog` takes from `ScanRuns` that scans of a connection exclude each other;
`EventCapture` does not, since a scan that lost its lock session may still be
capturing. `Inventory` is the chain from the collector to the diff in one machine.
`SignIn` ends where `Access` begins, at the person who was verified or refused.
`MCServices` puts `Vault`, `LoginLimiter`, `ProxySettings`, `SignIn` and `Import` into
one run: they share no table and no memory, so the variable `chosen` selects one at
the start and only its steps are taken. That is a sum, not a product: every behaviour
of each is there, and no interaction is lost, since there is none.

An action is one committed transaction, one lock call, or one access to memory
that other threads see. `pc`-like variables are the position of a thread in a
function; they name the next statement.

### ScanRuns

`RunScan` is the entry of `run_scan`; `TryAdvisoryLock` its
`try_advisory_lock("scan", id)`; a refused scan is recorded as skipped
(`CreateSkipped`, `NoteSkipped`). Inside the lock: `CreateRun`, `Collect`,
`SaveSnapshot`, `SaveFindings`, `SaveChanges` (events, changes and retention: their
effects on `scan_runs` are none), `FinishRun`, `NoteFinished`, `Release`.
`StatementRaises` and `AnswerLost` are the two ways a statement fails: with and
without its commit. `SelectStuck`, `TryIdle`, `MarkInterrupted`, `EndVisit` are
`reconcile_interrupted_runs`, connection by connection. A killed worker leaves its
lock with `Dead`, until `ReapSession`; `DropSessions` is a database restart.

### SchedulerJobs

Every worker serves requests; those in `SchedulerOn` also run the maintenance job.
`Check` and `Acquire` are the two halves of `take_leadership`, each a database call
with the assignment to `_leader` that follows it. A leader that finds its lock gone sets
`_leader` back and goes through `_drop_scan_jobs`: `DropScanJob` calls `remove_job` for
one connection after the other, then `ClearScheduledState` clears the record.
`ListConnections`, `ReadWanted`, `ToForget`, `Forget`, `PopState`, `ToApply`, `Visit` and
`EndPass` are `reconcile_jobs`, a query or a call at a time; a database error ends the pass
(`PassRaises`).

`reschedule` and `remove_job` run on any thread of the worker without a lock, so each
call is its statements: `ReadSchedule` (past the check of `_leader`), `LookUpJob`, `TakeJob`,
`RecordState`, `AddJob`. `remove_job` looks the job up and removes it in two calls; if it is
gone in between, `JobLookupError` ends the request, or the pass, or the loop that was
dropping jobs, which then leaves the others and the record as they are. The requests are
`SaveSchedule` (row, then `reschedule`), `RemoveForDelete` with `DeleteRow` (job, then
rows; `RequestRaises` in between leaves the rows without the job), and `FireForDeleted` is
a job that fires for a connection that is gone.

`crossed` is a history variable, read by no guard. A worker and a connection are in it
when calls about the connection have overlapped on that worker, when a `reschedule` was
under way as it stepped down, when `JobLookupError` broke off a loop that had yet to come
to it, or when a deletion failed after removing the job. The next `reschedule`,
`DropScanJob` or `Forget` that has the connection to itself takes it out again. The
properties exempt what is in it: there the code does leave a wrong job (section 3).

### ChangeLog and Related

A snapshot is named by its creation time. `since` and `retained` are the settings
`log_since` and `log_retained_since`. The scan goes `ListLatest` and `ReadPrevious`, the two
queries of `latest_snapshot`, then `SaveSnapshot`, `SaveFindings`, `ReadMark`,
`SaveChanges`, then a retention pass; another pass and the backfill belong to a starting
worker. A snapshot that was listed and is gone when it is read makes the scan go on as
if it were the first: `vanished` remembers that this happened. Which snapshots a tier
thins is left open (any set `select_retention_victims` could return for some layout of
the day within its period).

`Related` reads the same tables: the newest scans in a row that hold a finding, as far back
as `MAX_SCANS_BACK` (`Holders`, `SeenAt`, `WalkCapped`), the snapshot before them
(`IntervalStart`), the rows of the log since then, but not from before the floor of
`MAX_WINDOW` and no more than a query returns (`LogFrom`, `LoggedRows`), the snapshots around
the appearance of the finding where the log does not reach (`BracketingPair`,
`LatestDifferingPair`), and of all these the oldest `MAX_CHANGES` (`RelatedChanges`). `Capped`
is what the drawer is told of the window; the row limits it is not told of are `Fits`. A
row stands for what one diff says of the whole neighbourhood: that the code lists the rows
of one object before those of the next, so that its limit may bite earlier, is left out.

### EventCapture

The clock counts units of `MIN_WINDOW`. `CaptureWindow` is `capture_window`;
`PruneGaps`, `ListGaps`, `NextTarget` go through the recorded gaps, oldest first,
then the main window; a query returns (`QueryComplete`), reaches the cap and is
split (`QuerySplits`) or not (`QueryCapped`), returns only part of it (`QueryErrs`,
the task query failed). `ReadGaps` and `WriteGap` are the transaction of
`record_incomplete_interval` under its advisory lock. The query or a statement of its
bookkeeping may raise (`FetchRaises`): a failed retry records its gap once more
(`KeepGap`), a failed main window leaves the rows of the retries to store.
`ClearRaises` is the statement after a complete retry raising, when the retry's rows
are already taken. After the queries: `UpsertEvents`, `ResolveRange`, `SetCheckpoint`;
a statement that raises there, before the queries, or in the handler of a retry ends
the capture (`CaptureFails`).

### Access

Passwords and signing secrets are numbers, a session is a cookie with the secret it
was sealed with, its time and the way it was earned. A request goes through the
transactions of its handler, on any worker: `Login`, `Change` and `SetPassword` read
and write the password settings, `Initialise` and `Mint` the signing secret, `Seal`
hands out the cookie. `BeginSignIn` and `Callback` are the OIDC round trip; a person who
was refused is cut off in the two statements `EndSessions` and `RevokeAll`, the second
of which may fail. `AskToken`, `AskAccountToken` and `InsertToken` are the check and the
insertion of a new token; `Valid` and `Usable` are what a presented cookie or token is
measured by. `slipped` marks what a request obtained whose check was overtaken by
the change it would have failed under.

### Vault

`Resolve`, `Generate` and `Link` are the reading and the creation of the key file,
which several processes may attempt at once. Starting workers work through
`vault_rekey` and `vault_plaintext` (`StartRekey`, `CommitRekey`, `ReadMarker`,
`StartMigration`, `CommitMigration`; `StepRaises` and `NextPass` are the loop of
`startup_maintenance`, which retries alone a step that raised). Rewrites take turns under
their lock, but run at READ COMMITTED and do not lock the rows they read, so a `Save`
may fall in between. `ClickRekey` is the button of the settings page. `Rotate` is an
operator configuring another key, `OldBuildSaves` a worker of the build before the vault.
A stored value is a text under a sequence of keys: more than one is double encryption.

### LoginLimiter

`Arrive` reads the clock, `BeginAttempt` counts the attempt as a failure under the
advisory lock, or refuses it; `Forgive` and `GuessFails` end it when the password was
checked. An attempt may wait for `Patience` seconds between the clock and the lock, and
give up (`GiveUp`); the code sets no limit to that wait, so `Patience` is a parameter.
`SweptFailures`, `Evicted` are the two limits of the table.

### ProxySettings

`StoredValue` is one call of `stored_value`: it answers from memory, reads, or starts a
refresh thread. `ReadStored`, `Remember`, `ClearRefreshing` are the steps of a read
between which other threads run; `SetStored` and `RememberSaved` are a save and its
entry in the cache. `ProcRestarts` empties a memory.

### SignIn

`BeginFlow` needs the discovery document, `StartComplete`, `Redeem`, `Verify`,
`FetchKeys` and `StoreKeys` are the callback up to the verified token: `Verify` uses the
keys in memory and, once, asks again. `Rotated` and `Withdrawn` are the provider's, who
may also be down (`UpOrDown`). `PutOidc` changes the settings, which clears the caches
of the process that serves the request.

### Import

`Lock`, `Apply`, `Unlock` are `migrate.upgrade`, each migration a transaction;
`Count`, `CopyRows`, `Resync`, `CommitImport`, `AbortImport` are `import_sqlite.run`, whose rows
become visible at its commit while the identity sequence it sets is not
transactional. `DrawId` and `Record` are the console recording an interval beside it.

### Normalize, Diff, Checks and Inventory

`Normalize` has one builder per resource type over the properties of `PROPERTY_SPECS`;
an object or a property may be missing. `Diff` has the tables of significance, the banding
of free space and `Changes`. `Checks` has the diagnostics, `RunAll`, `Coverage` and `Score`;
a check that raises finds nothing, and counts zero objects, as one number, in `Coverage`.

`Inventory` uses the first three as the pipeline does: `Begin`, then `Retrieve` once per
view (merging what two views both return), then `Store`, which normalises, runs the checks
against the scan before, some of which may raise (`Raising`), diffs, and stores snapshot,
findings and changes. Between any two of these steps the administrator may edit, move,
remove or register objects, hosts lose and regain their connection, and `Thin` removes an older
snapshot. There is no score in that state: `_health_inputs` works it out when it is asked for,
from the stored findings of the newest snapshot and from what the checks count in the two
newest snapshots there still are (`Second`, `Judged`), where `applicable()` may raise too.
The properties about the score quantify over these inputs in every state between scans.
The newest snapshot is not removed in this model.

## 3. The runs

| Run | Shows | Bounds |
|---|---|---|
| `ScanRuns_safety` | exclusion, sweeps, final history, schedule status, refinement of `ScanHistory` | 2 workers with a scan thread each, 1 connection, 3 runs, 1 crash, 1 failing statement |
| `ScanRuns_live` | runs end and locks come free, after a crash and a database restart | the same with 2 runs, 1 crash, 1 restart, no failing statement |
| `SchedulerJobs_live` | but for calls that cross: jobs reach the stored schedules, a worker that stepped down has none, and the record is backed by jobs | 2 workers that schedule and serve requests, 1 request thread each, 1 connection, 1 interval, 1 edit or deletion, 1 crash, 1 lost session, 1 failure |
| `ChangeLog_safety` | rows that are claimed are present, the log starts at a stored diff, is complete while nothing fails, and explains findings | 4 ticks, 3 contents, 2 policies, slow scans; with 2 contents one disturbance per behaviour: a failure, a deletion by hand or an edit of the policy; a window of 1 tick, 2 scans back, 1 pair back, 1 row shown, 2 rows per query |
| `EventCapture_safety` | the checkpoint, the gaps, and that a cap discards nothing silently | 2 captures, 2 events late by up to 2 ticks, cap 2, overlap 2, windows of 1 or 2 hours, 2 ticks, 2 troubles: failures, or captures beginning beside the other |
| `Access_safety` | cut-offs, password changes and the first setup | 2 requests, 1 token, 2 seconds with sessions of 2, 2 cookies at once, 1 password change, 1 failure |
| `Services_safety` | the vault, the limiter, the proxy list, sign-in, migrations and import | see below |
| `Inventory_safety` | the log tells what the snapshots do; findings come with a change; what was found is among what the score counts, and resolving a finding helps | 10 objects seen through 8 views, 20 edits to choose from, 2 older snapshots, 2 checks that may raise, 2 events per behaviour, anywhere in its collections |
| `ScanRuns_delete` (violation) | a connection deleted during its scan gets a snapshot afterwards | 2 scan threads, no failures |
| `SchedulerJobs_race` (violation) | two overlapping `reschedule` calls leave the job of the older schedule | 1 worker, 1 edit |
| `ChangeLog_moved` (violation) | a backfill overwrites the marker a scan has just written | one policy, no failures |
| `Access_cutoff` (violation) | a person refused at a sign-in keeps a token that an old session was making | 2 requests, no failures |

`Services_safety` holds: *vault*, 2 workers, 1 secret, 2 texts (one looks like a
token), 2 configured and 2 generated keys, 2 rotations, 2 saves, 1 restart, 1 step
that raises; *limiter*, 2 addresses, 2 concurrent attempts, 4 attempts in 4 seconds,
ceiling 2 in 3 seconds, 1 address tracked; *proxies*, 2 processes, 2 threads, 2 saves,
1 failing read, a cache of 1 tick; *sign-in*, 1 server, 2 flows of one browser, 2 signing
keys, 2 ticks; *import*, 2 migrating and 2 importing processes, 3 revisions, 2 old
rows, 2 new ids, 1 process killed.

Why these bounds are enough to be interesting: two workers and two threads already
give every pairwise race; the third run id lets a scan, a refused scan and a sweep
each have a row; one crash at every point, and one failure at every statement, are
explored. In `ChangeLog` the ages of the policies are one, two and four ticks, so four
ticks cross the retention boundaries, and each of the window, the look-back and the limit
on rows shown hides a cause in some state (the properties fail without the hypothesis for
it); the limits on rows per query and on pairs compared do not bite in so few ticks and
are left to the theorem. In `EventCapture` both events may fall into one smallest
window, into both halves of a window that is split, or on the border, an event may
become visible only in the last tick its delay allows, and with the shorter policy
gaps and events expire. In the limiter, with one tracked address the second one evicts
the first, and four seconds let failures leave the window. In the vault, two
rotations bring the first key back. In the scheduler one request beside the
maintenance thread already crosses every pair of statements, and one lost session makes
the leader step down while that request is under way. In the inventory the edits cross every threshold a
check or the diff looks at, and two events are what it takes to change an object
between two views and once more, to remove the compared snapshot after a change, or to have
a check raise after one. Larger values are the business of the proofs. Deadlock
is checked for the scheduler, whose maintenance never ends; elsewhere the bounds
let a behaviour stop.

Each property has a mutant: an operator, marked `(mutant)` in the module, that
replaces one mapped operator the way a plausible slip would (a missing return, a
swapped read, a lock not taken) and under which the property fails.

### What the violations say

Each quotes a sentence of the repository that the code does not keep: a deleted
connection "leaves nothing behind" (a scan under way saves its snapshot after the
deletion); an edited schedule reaches the scheduling worker (the request's and the
maintenance thread's `reschedule` interleave, and the older job is added last);
`log_since` "is set once and never moved" (the backfill reads and writes in two
transactions); a refused person's "old sessions can no longer make new" tokens (the
token is inserted after the revocation, by a request that had been let in before).
What does hold in each case is a property of a passing run: `CutOffHolds` bounds what
a refused person may still have, `MarkerBacked` holds whichever writer is last, and
`UncrossedReachJobs` is `SchedulesReachJobs` for every connection whose calls did not cross.

### Observations without a run

Seen in the models or while reading the code for them, and left without a property:

* *Scans.* A database restart lets a scan outlive its lock, so `OneScanAtATime` is
  checked without restarts. With them `OverlapsAreBounded` proves one more scan per
  restart. `ScanRuns_live` has no failing statement in its bound: what a lost answer leaves
  behind is looked at in `ScanRuns_safety`. A scan that starts while a sweep visits its
  connection is skipped as "previous run still active" although no scan runs.
* *Jobs.* A request that passed the `_leader` check before its worker lost the lock
  adds a job there after the worker stepped down, and nothing removes it until that worker
  leads again; a `remove_job` of a request that crosses the loop of `_drop_scan_jobs` ends the
  loop with `JobLookupError`, after which the worker is no leader and keeps its other jobs.
  Two overlapping calls on the leader leave a record that is not that of the job, and a
  `DELETE` whose transaction fails has removed the job of a connection that stays: in both
  cases the passes that follow see nothing to repair, as they compare the schedules with the
  record. These are the four cases in which `crossed` exempts a connection; without the
  exemption the three properties of `SchedulerJobs_live` fail.
* *Change log.* A crash or failure between `save_snapshot` and `save_changes` leaves a hole
  the log claims (`store.py:672-676`), hence the `faults = 0` of `LogComplete` and `CauseShown`.
  The same hole, without any error, is left when the snapshot `latest_snapshots` has listed
  is thinned or deleted before `get_snapshot` reads it (`store.py:533`), hence their `~vanished`.
  After an outage longer than the recent age, the newest snapshot itself is thinned and the
  next diff starts too early, hence the `Untouched` of `LogComplete`. A finding whose scan has
  not yet stored its rows shows no cause; nor does one whose cause is older than the window or
  whose first observation lies further back than the look-back, which the drawer says
  (`Capped`), nor one with more rows than the limits, which it does not say (`Fits`).
* *Vault.* A save that falls between the read and the commit of a rewrite of its row is
  overwritten (`LastEntryKept` excepts it). An operator who changes the key again before every
  worker is ready (`RotateEarly = TRUE`) can get doubly encrypted secrets: `EncryptedOnce` is
  for operators who wait. Passwords imported as plaintext after `vault_migrated` was
  set stay so until the next start.
* *Limiter.* An attempt reads its clock before it waits, so the ceiling holds for windows
  of `GlobalWindow - Patience` seconds.
* *Proxies.* If `Thread.start` failed at `proxies.py:154-165`, `_refreshing` would stay set and
  no refresh would come. The first request after an idle time is served an arbitrarily
  old list while the refresh runs.
* *Tokens.* A token looked up just before its revocation admits that one request.
* *Collection.* A host that moves between two views is in both clusters of that
  snapshot. A portgroup made between the Network and the distributed portgroup view is
  stored with the name "None", a cluster removed between its two views with HA disabled. Free
  space that changed while the capacity was unknown, and a value that went from A to
  unknown to B, are never reported as changed; nor is the new free space of a datastore
  that grew and has the same share of it free (`LogTellsAll` excepts these three); the
  connection state of a machine is not diffed at all. A version that a host gains
  without its connection changing is not reported either, on purpose, and the finding of
  mixed versions it makes would come without a change: `NewFindingsAreExplained` assumes
  that a host has a version exactly as long as it is connected.
* *Score.* When the snapshot a scan was compared with is gone, the checks that compare count
  nothing, or objects of another snapshot, for the findings they made; when `applicable()`
  raises, any check counts zero. The weights of the check are then averaged, so that
  resolving a lighter finding beside a graver one lowers the score (`scoring.py:166-171`);
  `FixingHelps` therefore asks that the finding is counted or the gravest of its check, and
  `WithinCoverage` leaves these checks out; without these hypotheses both fail.

## 4. Fairness

`ScanRuns`: weak fairness of each thread's steps and of a sweep under way (nothing
blocks for ever: statements return or raise), of some worker starting a sweep (the
maintenance job runs every minute), of the restart of a killed worker (a supervisor
does it) and of the server ending dead sessions (TCP keepalive). Scans need not be
started. `SchedulerJobs`: weak fairness of the maintenance job and of threads under
way; jobs need not fire, requests need not come. The other modules state no liveness:
what they do next is up to people, to vCenter or to a provider.

## 5. The proofs

| Theorem | Module | States | Assumes besides the module's assumption |
|---|---|---|---|
| `Typing` | `ScanRunsProofs`, `ChangeLogProofs`, `EventCaptureProofs`, `AccessProofs`, `VaultProofs` | `TypeOK` | |
| `ScansDoNotOverlap`, `SweepsSpareLiveScans` | `ScanRunsProofs` | `OneScanAtATime`, `LiveRunIsRunning` | the properties themselves speak of behaviours with no session lost |
| `HistoryIsFinal` | `ScanRunsProofs` | `TerminalStatusIsFinal` | `MaxDrops = 0` |
| `StatusesAreBacked` | `ScanRunsProofs` | `LastStatusBacked` | |
| `OverlapsAreBounded` | `ScanRunsProofs` | at most one more scan at a time for each lost session (`OverlapBounded`, in no run: two threads cannot break it) | |
| `PipelineImplementsHistory` | `ScanRunsProofs` | `ImplementsScanHistory` | `MaxDrops = 0` |
| `JobsInvariant` | `SchedulerJobsProofs` | `JobsInv`, the invariant of the next two | |
| `LeaderKeepsTheJobs`, `RecordsAreBacked` | `SchedulerJobsProofs` | `OnlyLeaderHasJobs`, `RecordedMeansJob` | the properties themselves exempt connections whose calls crossed |
| `ClaimsSurviveRetention`, `LogStartsAtAStoredDiff` | `ChangeLogProofs` | `ClaimedRowsPresent`, `MarkerBacked` | |
| `LogIsComplete`, `CausesAreShown` | `ChangeLogProofs` | `LogComplete`, `CauseShown` | the properties themselves speak of behaviours with no failed scan and no snapshot gone between being listed and read, and `CauseShown` of findings within the limits |
| `GapsStayApart`, `CheckpointsAreBacked` | `EventCaptureProofs` | `GapsDisjoint`, `CheckpointBacked` | |
| `NoSilentLoss` | `EventCaptureProofs` | `NothingDiscarded` | `Delay # 0` |
| `OneSetsThePassword`, `ChangesEndSessions`, `CutOffsHold` | `AccessProofs` | `OneSetup`, `ChangeEndsSessions`, `CutOffHolds` | |
| `KeysStayOnRecord`, `RewritesKeepEntries`, `MarkerIsKept` | `VaultProofs` | `KeysOnRecord`, `LastEntryKept`, `MarkerMeansSealed` | |
| `TokensAreNotSealed`, `RotationCompletes` | `VaultProofs` | `EncryptedOnce`, `RotationReachesAll` | `~RotateEarly` |
| `MigrationsRunOnce`, `ImportsAreWhole`, `IdentityStaysPast` | `ServicesProofs` | `MigratedOnce`, `ImportedWhole`, `IdentityPast` | |
| `RefreshesComeBack`, `ReadsOnlyAdvance` | `ServicesProofs` | `RefreshComesBack`, `ReadsNeverRegress` | |
| `WithdrawnKeysDie`, `RotationsAreNoticed` | `ServicesProofs` | `WithdrawnKeyDies`, `RotationNoticed` | |
| `CeilingHolds` | `ServicesProofs` | `GuessesBounded` | |
| `ServicesAreTyped` | `ServicesProofs` | `Typed` | |
| `InventoryInvariant` | `InventoryProofs` | `InventoryInv`, the invariant of the next three | |
| `ObjectsKeepTheirIdentity`, `FindingsAreCovered`, `FixingNeverHurts` | `InventoryProofs` | `IdentityStable`, `WithinCoverage`, `FixingHelps` | |
| `NewFindingsAreExplained`, `LogCanBeFollowed` | `InventoryProofs` | `FindingsExplained`, `LogTellsAll` | `PlausibleWorld`, `SnapshotsAreSome` |

The module assumptions are typing of constants and distinctness of sentinel values (in
`InventoryAssumption` also that resources of different objects or types have different
ids, as `rid` makes them; in `VaultAssumption`, that there is a worker; in
`RelatedAssumption`, that at least one scan is looked at and one row shown; in
`ScoreAssumption`, that it may happen that no check raises); two say more.
`EventCaptureAssumption` wants events to become visible within `OVERLAP`, and `OVERLAP`
not to be zero: with a later event no implementation of this design could be right.
`ChangeLogAssumption` orders the ages of a policy, as the settings page validates them.
The theorems of `ServicesProofs` are about the components' own specifications
(`ImportSpec`, `ProxySpec`, `SignInSpec`, `LimiterSpec`), of which `ServicesSpec`, the
subject of `ServicesAreTyped`, is the sum.

Some hypotheses of the last column need a word. `~RotateEarly` says that an operator
changes the key only when every worker has gone through its startup steps; one who does
not wait can get doubly encrypted secrets (section 3). `PlausibleWorld` says of the
inventories vCenter starts with, and of the edits, that a host has a version and a build
exactly as long as it is connected, that sizes are numbers or unknown, that a cluster
names known hosts, and that no view is read twice; TLC evaluates it on the checked
instance. `SnapshotsAreSome` says that the value for "no snapshot yet" is not a
snapshot.

*Scan runs.* `OneScanAtATime` is not inductive: that a thread is inside the lock
says nothing of the lock. `Held` adds that whoever is inside the block holds the
lock of its connection, that a sweep past its own `try_advisory_lock` does too, and
`Frames` that runs have one scanner and rows the right connection. A sweep can then
only close rows of connections without a scan. `LastStatusBacked` needs that the writer of
a status has finished its run, or is about to record it (`StatusesBacked`). For
`OverlapBounded`, scans that outlived their lock are counted (`OrphansCounted`): each
restart can orphan only the one scan that held it. The refinement maps `active` to the
run of the thread between `CreateRun` and its last write; it uses the same invariant,
so that `ActiveRun` is well defined and a sweep is a sweep of an idle connection.

*Scheduler.* `JobsInv` is `TypeOK /\ Frames /\ Apart`, and asks nothing of the
environment: sessions are lost, workers crash, statements fail, and requests come to every
worker. `Frames` says where a thread stands: which connection and which schedule its call is
about, and, of the maintenance thread, that its call belongs to the statement its pass is at.
`Apart` is about each connection of a worker that is not `crossed` there: no two calls about
it are under way (`Busy`), `CallClaim` says what the one that is has left of job and record at
its statement, and `JobClaim` that a job has its record while the worker leads, is on the
list the dropping loop has yet to go through, or is about to be removed by a call under way, and
that the record of a leader has its job when no call is. A step of another thread either
leaves the connection alone or makes it `crossed`; a step of the call itself goes from one
`CallClaim` to the next; and the call that takes a connection out of `crossed` begins by
removing whatever job it finds.

*Change log.* `KeptRows` is stronger than the property: every stored diff at or
after `retained` has its rows, claimed or not. Deletion of rows and the boundary
move together, and the boundary never moves back, so passes that follow an older
policy cannot uncover a hole. `LogIsComplete` and `CausesAreShown` need no description of
the layouts thinning can leave, only three facts that hold in all of them. `Bases`: a diff
is against what was captured before, and no snapshot that is still there was captured
between the two. `AbandonedGone`: while nothing has failed or vanished, a diff that was never
logged belongs to a snapshot that was deleted before another could be compared with it.
`OldestGoFirst`: rows go from the oldest. From these, between two snapshots that are
there and differ, some logged diff crosses the difference. For the limits of the drawer,
`LatestUpward` and `NewestAmongLatest` say that the n newest of a set have all later members
with them; so the look-back, unless it says it was cut short, ends at two snapshots that
follow one another, one with the finding and one without (`Bracket`). Where the log does not
reach, these two are compared (`ShownBySnapshots`); where it does, the row of the first diff
that found the content is the oldest of those that matter, which is the last one the limit on
rows shown would cut, and a query that returns the newest rows has it under `Fits`
(`ShownByLog`).

*Event capture.* For the gaps: who writes a merged gap holds the lock, and no
recorded gap sticks out of what it writes; clearing and trimming by others keeps
both. For the checkpoint, an event is due when it is older than the end of a window
by the overlap: a due event is visible; a window starts before every due event that
is not stored already; while the main window is read without a gap, a due event is
among the rows or in a window still to read (`HalvesCover`: two halves miss
nothing); afterwards it is kept, then stored, then the checkpoint moves. So the
order "clear the gap, then store the rows" is harmless, because the checkpoint is
moved last. `NoSilentLoss` is about one capture that has the table to itself:
`Accounts` says that a settled event of the window it reads is among its rows, in a
window still to read, or inside a recorded gap, and the gaps only lose what a retry of
this same capture took over. `Delay # 0` makes "settled" lie before the clock.

*Access.* `CutOffs` tells, for each statement of a cut-off, what has died by then: after
the first every older session, after the second every token; what is left was obtained by
a request that had passed its check (`slipped`). `PasswordsCurrent` is the same for password
changes: a request that proved an older password has been overtaken.

*Vault.* `KeysHeld` carries the keys through memory: what a worker encrypts with, and
what a rewrite is about to write, is under the key file or a configured key. Links are
exclusive, so two processes of a fresh installation agree. `EntriesKept` ties the rows a
rewrite holds to what was last entered, unless a save came between; `PlainOnRecord` says
where plaintext may be once the marker stands. The two theorems about rotations need
four more parts, `RotationInv`. `FirstRuns`: nobody is in a first run of the migration once a
key was changed, so a token can no longer be taken for plaintext. `Behind`: a worker is at
most one change of the key behind. `Layered`: stored secrets, and those a rewrite has read,
have at most one layer. `YetToMove`: a secret still under the previous key will be
moved, by a worker that has yet to catch up or by the rewrite that has read it.

*Import, proxies, sign-in.* `ImportInv` conjoins typing, who may hold the migration lock,
and what an open import has copied. `OneRefresh`: a process marked as
refreshing has exactly one thread that will unmark it. `KeysKept`: a copy of the keys
that has a withdrawn one was asked for before it went.

*Limiter.* The ceiling is a sum over seconds, and the table that enforces it counts
stamps taken up to `Patience` seconds earlier. `Counted` compares the two for every moment
x at which rows are still counted: the guesses let through `Patience` after x, with those
stamped since x that are still being checked, are no more than the rows of x or later.
`WindowBounded` bounds those rows by the ceiling and `Outstanding` sees to it that giving a
slot back never leaves a guess uncounted. That a sum of naturals over a part is no more
than over the whole, or changes in one term as the term does, is proved by
unfolding the sum's recursive function at a least counterexample, which needs no induction rule.

*Inventory.* `KindsKept` and `Collected` say that the views already read have returned
whatever was there all the time; `SnapshotShown` that the normalised snapshot has a
resource for each such object and none for what was never seen, hence `IdentityStable`;
`FindingsCharged` that each stored finding, when the score is asked for, is among what its
check judges in the two newest snapshots that are there, proved check by check, and again for
a removal (`ChargedStays`): what does not compare reads the newest snapshot only, what does
is exempt once the compared one is gone (`compared`). Hence `WithinCoverage`. `FixingHelps`
follows from the arithmetic of the score, for whatever coverage it is given: where findings are
counted among what was judged the deduction is a sum over a fixed denominator
(`ShareFalls`), where they are not it is a mean, and a mean without its largest term does
not grow (`Means`). For `FindingsExplained`, `PlausibleInv` carries the plausible vCenter through
the edits, the views and the merge to the snapshot; then, check by check, what is found now
was found in the scan before unless a resource in reach has a change of at least low
significance (`Unreported`, and `FoundAgain` for each group of checks). For `LogTellsAll`,
`SnapshotSound` says that a snapshot has one resource per id with every property the diff
wants on both sides, `BlindSpots` that what the last scan could not see is among the
gaps, and `TellsAll` that what the log says otherwise than the snapshot is minor; a change
carries the new value, and what has no change was minor before and is so still.

Every invariant and action property of the passing runs is stated by a theorem.
Only model-checked is liveness (`RunsEnd`, `LocksComeFree`, `UncrossedReachJobs`), which
is beyond the prover together with `ENABLED`. The properties of the violation runs do
not hold.

## 6. What is abstracted or left out

* Payloads: snapshots, findings, events and credentials are model values; labels,
  attempts counters and log lines are absent. An event that cannot be mapped is
  dropped by the collector and counts as not visible.
* The cap of a query is one cap; the code has one for events and one for tasks. A task
  is stored with the state it had when first seen; the state is not modelled.
* One clock. `created_at` comes from the worker that scans; skew between workers is
  not modelled.
* Retention of stored events, compaction of payloads, and the queries of the pages.
* Startup: `connection_hosts`, `event_defaults`, `demo_connection` and `password_seed`; the
  other steps are actions of the modules whose tables they write.
* The connection pool, its configuration and the health probe; `Thread.start` failing.
* OIDC: the validation of the settings and the choice between environment and table. Keys
  have distinct ids: a provider that reuses one, or publishes a single key without an id,
  lets a verification fail without a second fetch (`oidc.py:497`). `withdrawn` remembers the
  newest withdrawal only.
* Which hop of `X-Forwarded-For` is the client: a pure function of one request.
* Collectors: login, paging within a view, the conversion of pyVmomi values, the
  fixture. Their results enter `Inventory` as properties that may be absent.
* The weights of the score are constants; their validation and storage are left out. The
  newest snapshot is not removed in `Inventory`, so the score always has one to read, and a
  removal between the listing and the reading of two snapshots by `_health_inputs` is one
  before or after both.
* The order in which the drawer lists the rows of several objects (section 2).
* Import: value conversions and unknown columns are one failing step.
* The assistant keeps no state of its own (its key is a secret of `Vault`); the
  frontend renders what the API returns and polls it.
