# EvalLedger in TLA+

EvalLedger is a registry of evaluation benchmarks. Submitters sign in through
GitHub or Google, create benchmarks and upload versions of them; every version
is checked for contamination against reference corpora by a background worker;
administrators review and verify. This directory models the parts of the
backend, of its scripts and of its clients in which several things happen at
once or fail half-way, checks them with TLC on small instances, and proves the
safety properties with TLAPS for any number of requests, jobs, users and rows.

Paths below are relative to the repository; `app/` stands for `backend/app/`.

## 1. The system

| Component | State it keeps | Operations | Module |
|---|---|---|---|
| Version submission (`app/routers/versions.py`, `services/audit.py`, `models/version.py`) | `benchmarks.submitter_id`, `total_versions`; rows of `benchmark_versions`; audit events | `POST /benchmarks/{slug}/versions` | `VersionSubmission` |
| Object storage (`services/storage.py`) | artifacts, each under a fresh uuid4 key; corpus indices | upload, read, delete, probe | variable `blobs` of `VersionSubmission`, `indices` of `ArtifactReconciliation` |
| Operations scripts (`app/scripts/`) | none in production; a dump, a copy of the bucket, a staging environment | `seed`, `db_backup`, `check_restore`, `check_artifacts` | `ArtifactReconciliation`, `BenchmarkCatalogue` |
| Contamination worker (`tasks/contamination_tasks.py`, `services/contamination_engine.py`) | broker queue, worker slots, `contamination_status`, `contamination_reports`, result backend | Celery task `contamination.check` with retries, time limits, late acknowledgement | `ContaminationWorker`, `TaskResult` |
| Submission pipeline | jobs, shared by submission and worker | publication after the commit | `SubmissionPipeline` |
| Ad-hoc checks, job status (`routers/contamination.py`) and the clients that wait (CLI `check` and `submit`, the contamination page) | the result backend, the state of each loop | start, poll, give up | `JobPolling` |
| Idempotency middleware (`main.py`, `idempotency.py`) | Redis key per caller, path and `Idempotency-Key` | look-up, replay, store | `IdempotentPost` |
| Response caching (`main.py`) | none; a shared cache downstream | ETag, `Cache-Control`, 304 | `HttpCaching` |
| Rate limiter (`ratelimit.py`) | Redis counters per bucket, client and window | `check` | `RateLimiter`; its refusal also in `IdempotentPost` |
| Benchmark catalogue (`routers/benchmarks.py`, `search.py`) | rows of `benchmarks` | create, update, list, search | `BenchmarkCatalogue` |
| Review decisions (`routers/admin.py`) | `is_verified`, `review_note`, `reviewed_by_id`, `reviewed_at`, audit trail | `PATCH .../verification`, `POST .../notes`, context | `ReviewDecisions` |
| Reports and moderation (`routers/reports.py`) | rows of `abuse_reports` | file, resolve | `ReviewDecisions` |
| Accounts (`services/oauth.py`, `services/account.py`, `routers/oauth.py`, `routers/auth.py`, `dependencies.py`) | `users`, `user_identities`, `api_keys`, tokens in circulation | callbacks, key creation and revocation, erasure | `AccountLifecycle` |
| MinHash detection, load test, configuration, migrations, metrics, rendering | none, or none that anything decides on | - | not modelled (section 7) |

**How they interact.** A handler is a coroutine; every `await` lets any other
request run, and there are several API processes. Requests meet in PostgreSQL
(READ COMMITTED, row locks taken by the first UPDATE of a transaction, unique
constraints), in the object store (no transactions) and in Redis.
`create_version` writes to three of these in a fixed order: upload, then
database commit, then broker. The worker reads the artifact and the row that
the submission left, writes its verdict into the same row, and reports to the
result backend, which the command line and the page poll. The middleware wraps
every POST and knows nothing of the handler but the response; the rate limiter
is a dependency of the handler, so the middleware sees its 429 as a response
like any other. The scripts run beside all of it: `seed` creates rows and
objects, the others read the database and the object store at different times.

**What is hard.** Two requests that read before either writes (version strings,
ownership claims, usernames, addresses, review columns); failures between two of the three
writes of a submission; a lock held through an upload; at-least-once delivery
with two runs of one job at the same time; a soft time limit or a transient
error that strikes after a commit; retries of a POST that is still running;
values compared with what the session loaded earlier; an erasure that overlaps
a sign-in; a clock that is read twice around a window boundary; answers to
polls that overtake one another; pages of a listing that grows while it is
read; two systems that are backed up one after the other. PROJECT.json lists
each hazard at its line.

**What makes each part correct.**
* Submission: one row per version string; a counter equal to the number of
  rows; answers that are true; ownership only with a version; artifacts where
  rows are and nowhere else; jobs only for committed rows.
* Worker: one report per version and corpus; verdict and reports together;
  every job ends in a verdict, a mark or a failure that its client is told.
* Pipeline: what a 201 promises is eventually checked.
* Scripts: what `check_artifacts` says is true of both systems; a backup whose
  bucket is copied after the dump restores whole, and a drill that passes has
  left no step out.
* Polling: a client shows only a result of its own job, and learns its end.
* Idempotency: a replay tells the truth, replays agree, and an acknowledged
  write is not repeated. Caching: nothing served is older than `max-age`, and
  nothing of a caller with a credential is shared.
* Rate limiter: no more than the limit per caller and window; refusals only for
  one's own requests; `Retry-After` is true.
* Catalogue: one benchmark per slug, answers that are true, a seeding that
  converges, a listing that can be read to its end.
* Review and moderation: what readers see is the latest decision, review and
  resolution.
* Accounts: one account per address and name; an identity that leads to the
  same account until its erasure; an erasure that is final.

## 2. Modules and their correspondence to the code

`VersionSubmission` has one process per request, with `pc` at the handler's awaits:

| `pc` | waits for | actions |
|---|---|---|
| `fetch` | `_fetch_benchmark` (140), owner rule, `validate_semver` | `FetchBenchmark` |
| `check` | SELECT of the version (146); autoflushes a claim of the benchmark | `CheckExisting` |
| `upload` | `upload_upload_file` (156) | `StoreArtifact`, `UploadFails` |
| `build` | parsing of the form, the flush (197) | `RejectReleaseDate`, `RejectMetadata`, `FlushVersion` |
| `commit` | `session.commit()` (210) | `Commit`, `CommitAckLost` |
| `cleanup` | `storage_service.delete` (214) | `DeleteArtifact`, `DeleteFails` |
| `enqueue` | refresh, corpora, `delay` (248) | `PublishJob`, `BrokerFails` |

`DatabaseFails` and `Crash` may strike at every step. A request's name stands
for its row, its artifact (uuid4 key) and its job. `lock` is the row lock of
the benchmark, `draft` the counter as the open transaction has written it,
`claims` the handlers that found `submitter_id` NULL. Uncommitted data is
invisible to others, so one step `Apply` publishes a transaction. A form is
reduced to its user, version string and at most one defect, named for the step
that refuses it. `mishap` is history: the first failure of a handler that its
cleanup cannot make good (an upload that fails midway, a commit whose reply is
lost, a delete that fails, a crash), which the properties about artifacts name.

`VersionRegistry` is the abstract specification: a catalogue in which a version
is registered in one indivisible step, with its number in the counter and its
audit event. `VersionSubmission` implements it (`ImplementsRegistry`).

`ContaminationWorker` models one task per version: `queue` counts messages by
job and retry, `pc`/`job`/`retries` are the worker slots, `acks` says whether
the end of the run still acknowledges its message, `seen` is the column as the
session loaded it (the ORM does not write a value that equals it). The class of each
corpus is fixed per job (`found`): the streaming pass, MinHash and thresholds
are abstracted to it. `Misfortune` holds everything that goes wrong: transient,
permanent and marking errors, soft and hard limits, a lost worker, a lost broker
connection, and a retry that the broker refuses (`RetryRefused`: Celery then
rejects the message without requeueing it). Each costs one unit of `budget`.
`LoadMark` and `MarkError` are the read and the commit of
`_mark_version_error`, either of which may fail (`MarkFails`). `fate` is
history: whether a job was run twice at once, failed without a mark, or was
dropped with its retry.

`TaskResult` is the abstract specification of a result: PENDING until somebody
reports, never PENDING again, SUCCESS final, FAILURE not. `ContaminationWorker`
implements it (`ReportsLikeTaskResult`), and `JobPolling` is built on it, so
that what the pollers rely on is exactly what the worker has been shown to do.

`SubmissionPipeline` extends `ContaminationWorker` with the handlers, which it
takes from `VersionSubmission` through `INSTANCE ... WITH`; the handler's record
of published jobs is the worker's `published`.

`ArtifactReconciliation` extends `VersionSubmission` with the scripts:
`SeedUpload` and `SeedCommit` (indices first, one commit for all rows), `Dump`
(one snapshot), `CopyBucket`, the steps of the drill of
`docs/operations/backup-restore.md` into `staging` (`RestoreDatabase`,
`Migrate`, `RestoreBucket`), `CheckRestore` (its ten requests reduced to what
makes one of them fail; it looks for one seeded benchmark, `Sample`) and
`check_artifacts` (`FetchVersions` and `FetchCorpora`, its two SELECTs, one
`Probe` per object, `EndCheck`), against production or staging. Any script may
run at any time between the steps of the handlers.

`JobPolling` has one poll of the command line and several of the page on their
way at once. `ReadFailed` and `ReadSuccessful` are the two reads of
`get_job_status`. `Submit`, `Accepted`, `NotAccepted`, `Fire`, `Hear` and
`Cleanup` are the page's submit handler, interval, callback and effect
cleanup: an answer stops the interval at once, but the cleanup that marks the
effect as cancelled only comes when React renders.

`IdempotentPost` models the attempts of one logical POST. The handler is
abstracted to a write and a status: 201, 409 for every refusal of its own, 429
of the rate limiter, 500. An attempt may start at any time: nothing in the
middleware marks one that is still running. A SET of Redis may raise with or
without effect. `HttpCaching` extends it: a `Get` of the resource that the
attempts write to, anonymous or with a credential, is answered with an ETag
over the body, or with 304, and `Arrive`s at a shared cache later, which keeps
it unless it says `no-store`.

`RateLimiter` models one bucket: `AskClock` (window), `Incr`, `SetTtl` and
`Decide` (second look at the clock, `Retry-After`) are separate steps; `Tick`
advances the clock and drops keys whose TTL has ended; a TTL that ends after
the horizon is `Forever`. `RedisFails` is a command that raises with or without
effect, `LoseKeys` an eviction or a restart that loses counters, `Abort` a
process that dies, `PassUnlimited` a process without Redis. Callers differ in token, address
and the header they send, which `Forwarded` extends as the proxies do.

`BenchmarkCatalogue` models creations (`Look`, `CheckSlug`, `Insert`,
`CommitBenchmark`; the CLI looks first and takes every error for absence),
`PATCH`, `seed.py` statement by statement with its single commit, and a client
that walks the listing by creation time or by name. `staged` is what an open
transaction has inserted; `Flush` waits for `Rivals` as PostgreSQL's unique
indexes make it. `started` orders transactions because `created_at` is the
start of the transaction, not its commit, so rows appear in the middle of the
listing.

`ReviewDecisions` models review actions on one benchmark and resolutions of one
report: `Load` (a SELECT without a lock), `Decide` or `Resolve` (the
assignments, the UPDATE of the columns that differ from what was loaded, the
audit event, the commit), `Abandon`. `base` remembers how long the trail was at
the load, so that `Overtaking` is the set of actions that were committed
between the load and the commit of another. A page
reads row and trail (`ReadRow`, `ReadTrail`) in separate steps.

`AccountLifecycle` models requests that sign in (`ReadIdentity`, `LoadUser`,
`SyncUser`, `FindByEmail`, `LinkIdentity`, `TryName`, `CreateUser`) or act for
an account (`Authenticate`, then `EraseUser`, `CreateKey` or `RevokeKey`). The
SELECTs are separate steps. The erasure is one step: its UPDATE changes
`email` and `username`, which have unique indexes, so PostgreSQL takes the
strongest row lock and inserts that reference the account wait for the commit.
A sign-in that has committed may still end in the error redirect, without its
token, when the refresh or the commit's reply fails (`Issue`).
Everybody suggests the same username, the worst case for `_unique_username`.

The MC modules add symmetry sets and values that a cfg cannot write. Every
module has a type invariant (`AllTypeOK` where it extends another;
`SubmissionPipeline` has the two of its components). All of them are proved
(section 6), except that of `HttpCaching`, whose proof gives the types of a
cache entry where it needs them.

## 3. Runs

| Run | Question | Bounds, and why they suffice |
|---|---|---|
| `submission_faults` | Do catalogue, counter, claim, answers, artifacts and jobs stay right, and is registration indivisible, while everything may fail? | 3 requests, 2 users (one an admin), 2 version strings, both defects of a form, all six faults. Two requests for one string and a third for another meet at every step; a benchmark starts owned or unclaimed. |
| `submission_storage` | Are the scripts' reports true, and does a backup restore? | 1 submission that any failure may hit, two seeded corpora, one of which `check_restore` looks for, one run of `check_artifacts`, one dump, one copy, a drill of any length. The submission can be at any step when a script looks, and a step of `seed.py` between any two looks. Submissions share nothing that the scripts read but the set of rows and objects; the theorems of section 6 cover any number. |
| `submission_claim_race` (violation) | Can two users own one benchmark's versions? | 2 requests, 2 users. |
| `worker_faults` | Reports, verdicts, results under redelivery, retries, timeouts, overlapping runs. Does the result agree with the column? Is every job concluded? | 1 job, 2 workers, 2 corpora, all nine kinds of failure, 4 failures: one more than the retries, so a job can also exhaust them. Jobs share nothing but workers. |
| `pipeline` | From the 201 to the verdict. | 2 racing submissions, 1 worker, submission and worker faults, 1 worker failure: fewer than the retries, which `AcknowledgedIsChecked` needs (section 5). |
| `idempotency` | Are replays true, do they agree, is an acknowledged write repeated, is a cached answer too old or somebody's own? | 3 overlapping attempts; Redis, handler, process and key may fail or expire; one cache entry and one response on its way, ages up to `max-age` + 1. Two attempts race and the third meets what they left. 1.4 million states. |
| `review` | Do badge, note and resolution settle? Is the page consistent? | 3 actions of 2 reviewers with 2 notes, all of which may overlap: one that overtakes two, or two in turn; one page. 1.3 million states. |
| `accounts` | Uniqueness, stability, erasure. | 4 requests, 2 identities, 2 addresses (one an admin's): register, find or link, erase, and return. |
| `accounts_relink` (violation) | Does an erasure remove the links? | 3 requests. |
| `ratelimit` | Is the budget kept, are refusals earned, is `Retry-After` true? | 3 requests of up to 3 callers (a token, an address, and an address that sends the other's in its header) behind 2 proxies, limits 1 and 2, a window of 2 seconds, a clock of 4, one failure or loss: requests may ask, count and decide on either side of two boundaries, and keys may expire. 1.4 million states. A header that changes from request to request is left to the theorem `BudgetIsKept`, which holds for every set of callers. |
| `polling` | Do clients tell the truth, and does the command line end? | 3 jobs (one of the CLI), 2 overlapping polls of the page, 2 attempts, 1 outage: a poll of an earlier check may answer during a later one. |
| `catalogue` | One row per slug, true answers, seeding, paging. | 2 creations (one of the CLI), 1 PATCH, 2 seedings, one user beside the registry's own, 3 slugs, pages of one row. Creations and seedings meet at one slug; with three rows there is one in the middle. Deadlock is checked: nobody waits for a key for ever. |

`CHECK_DEADLOCK FALSE` is set where requests and jobs come to an end and the
system rests; `EveryHandlerEnds`, `EveryJobConcludes`, `AcknowledgedIsChecked`
and `CliEnds` say that it does not rest too early.
`BenchmarkCatalogue` says instead when everybody has ended (`Finished`).

Every property of a passing run has a mutant in PROJECT.json: a definition of
the model changed as a plausible bug would change the code (a counter read and
written back, a missing constraint, a cleanup that covers too much, a job
published before the commit, a swallowed broker error, a forgotten `deleted_at`
check...), under which TLC finds the property violated. The mutants are written
next to the operator they replace.

## 4. Fairness

Liveness is checked in `worker_faults`, `pipeline` and `polling`.
* `WF(Proceed(r))` for each request: the event loop resumes every coroutine
  whose await has completed, and PostgreSQL grants a free row lock. The arrival of a
  request is not fair, failures are not fair. Weak fairness is enough for the
  lock, although it may be taken again before a waiter has it, because only
  finitely many requests compete.
* `WF(DeliverAny)`: the broker delivers while messages wait and a worker is
  idle. It promises nothing of a particular message.
* `WF(Proceed(w))`: a worker process that is alive goes on with its run; the
  time limits of the task cover one that hangs.
* `JobPolling`: requests are answered or time out, the command line's loop and
  the page's interval and callbacks go on, React renders. Neither people nor
  workers are fair: the command line ends if its job does (`CliEnds` says so; a
  job that never ends keeps `check.py:24` polling for ever).

## 5. What disagrees with the code's own words

Shown by a run:
* **Ownership race** (`submission_claim_race`). `versions.py:144`: "Only the
  benchmark owner can submit new versions". Two users who both read
  `submitter_id` NULL both register; the second commit takes ownership from the first.
* **Erasure overtaken by a sign-in** (`accounts_relink`).
  `services/account.py:5-6`: "OAuth identity links are removed". A sign-in that
  found the account before the erasure links its identity afterwards. From then
  on that identity is recognised and handed a token that every request refuses,
  and its owner cannot register again.

Seen while modelling, each a small change of a cfg or a bound away from a run:
* Exhausted retries. `contamination_tasks.py:109` promises 'error' "instead of
  leaving it stuck on 'pending' forever", but transient errors are raised again
  untouched (100): after the last retry nobody marks the version. Set
  `MaxFaults = 4` in `pipeline.cfg` and `AcknowledgedIsChecked` fails.
* Double-click. `idempotency.py:3-5` names a double-click and "the write happens
  at most once"; a second attempt that arrives before the first has answered
  runs the handler too. Drop `b \in earlier[a]` from `AcknowledgedWriteIsOnce`.
* `reference_corpora.name` is not unique: where the registry's account is older
  than a corpus, two runs of `seed.py` add it twice. Drop `account = "new"` from
  `SeedConverges`.
* A client that stops at the total may miss rows: of a benchmark committed
  between the COUNT and the page, the total does not know. `Torn` marks where;
  leave it out of `Commit` and `WalkIsComplete` fails.
* A job that ends between the two reads of `get_job_status` is answered
  "failure" or "success", neither of which a client knows; the next poll puts
  it right, and without `CliEnds`'s "for good" there need not be one.
* The docstring of `RateLimit` (`ratelimit.py:259`) gives API keys the higher
  limit; `is_authenticated` (169) ignores them on purpose, and so does `Limit`.
* A copy of the bucket taken before the dump need not restore: drop
  `later` from `LaterCopyRestoresWhole`. `backup-restore.md` leaves the order open.
* Of two resolutions of one report that overlap, one may leave "reviewing"
  next to the other's `resolved_at` (`reports.py:85`).
* A form whose `released_at` does not parse is refused after the upload and
  before the try block (`versions.py:163`), so its artifact stays, against
  `versions.py:212` ("so storage does not drift from the DB"): drop
  `form[r].defect # "date"` from `StorageMatchesDb` and it fails with no fault.
* A commit that succeeds while its acknowledgement is lost makes the cleanup
  delete the artifact of a registered version (`versions.py:211`): drop
  `Unknowing(r)` from `RowsHaveArtifacts`.
* A verification that overlaps an unverification may be audited last and not
  show (`admin.py:398`): drop the premise about `Overtaking` from
  `BadgeSettles`. A decision without a note keeps the note of an earlier action
  next to its own reviewer and time (`admin.py:411`), although
  `review-workflow.md:275` says that the three fields "reflect only the most
  recent review action": drop `q.note # Nothing` from `LatestReviewShows`.
* A mark may overwrite the verdict that another run of the job has committed,
  and a job may fail without a mark (`contamination_tasks.py:76`, 100): drop
  either mention of `fate` from `ResultMatchesColumn`.
* A sign-in that overlaps an erasure may leave an erased account with
  `is_admin` set (`oauth.py:89`, `account.py:87`): drop the first conjunct of
  `Undisturbed`.
* A 429 is stored like any other response below 500 (`main.py:266`): a client
  that waits and retries with its key is refused until the key expires.
* An ad-hoc check uploads its file before it publishes the job, and nothing
  deletes it when the publication fails or the job has ended
  (`routers/contamination.py:101`). No source says that it should.
* `contamination_status` takes a sixth value, `error`, that
  `review-workflow.md:82` and `frontend/lib/types.ts:1` do not list.

## 6. What is proved

Checked by TLAPS for every value of the constants that satisfies the modules'
assumptions: any number of requests, users, jobs, workers, polls, rows,
retries, any limits and windows, any set of faults. Each module of proofs extends the module it is about. Every safety
invariant and action property that a passing run checks is the statement of
one of these theorems. The invariants on the way were first checked with TLC.

**`SubmissionProofs`** (`VersionSubmission`, `VersionRegistry`,
`ArtifactReconciliation`)
* `TypeCorrect`, `CounterIsExact`, `VersionsAreUnique`. The counter is not
  inductive by itself: `CatalogInv` adds that a handler at `commit` holds the
  row lock, that its `draft` is one more than the number of rows, that nobody
  else's row carries its version string meanwhile, and that a row's handler is
  past its commit. The lock makes the other handlers' commits impossible
  between flush and commit, which is the argument.
* `Refinement`, `Spec => ImplementsRegistry`. Only `Commit` and `CommitAckLost`
  map to a step of `VersionRegistry`; every other action stutters.
* `ClaimsNeedVersions`: whoever is at `commit` with a claim has found the owner
  absent, and the commit of a row and of its claim is one transaction.
* `VerdictsAreTrue`, `JobsNameRows`. `VerdictInv` adds what each `pc` knows of
  the answer to come: a handler with a 409 in hand has seen another row with its
  version string, and rows never disappear.
* `ArtifactsAreKept` and `StorageDoesNotDrift`, under all faults: `ArtifactInv`
  says at every `pc` which of row and artifact is there, as long as nothing of
  what `mishap` records has happened to the handler.
* `ScriptsKeepHandlers`, `AllSpec => Spec`: the scripts read what the handlers
  write, so every theorem above holds beside them.
* `DrillIsProof`, under all faults: `StagingIsRestored` ties what the drill may
  conclude to the steps it has made since the last restore.
* `LaterCopyIsWhole` and `CheckIsTruthful`, under all faults. A dump refers to
  rows that are committed, whose artifacts are kept but for a lost reply; a
  reference that the check has not yet probed had its artifact when it was read,
  or is recorded as gone already.

**`WorkerProofs`** (`ContaminationWorker`, `TaskResult`, `SubmissionPipeline`)
* `TypeCorrect`, `ReportsStaySingle`, `VerdictsHaveReports`, from
  `RunsNameJobs`: a session that has seen a version past "pending" need not
  write the column, and is right, because no column goes back to "pending".
* `ReportsRefineTaskResult`, `Spec => ReportsLikeTaskResult`: deliveries,
  returns, marks, retries and failures are steps of `TaskResult`, everything
  else stutters. A result is never PENDING again and SUCCESS is final; FAILURE
  is not.
* `PollersAreToldTheVerdict`, under all faults and any number of them. A job
  that was never run twice at once is in one place, a message, a run, or behind
  its end, and its run still sees the column as it is (`Alone`); a job that
  was is bound only by what no run can undo: reports stay, and a SUCCESS comes
  after them (`Traced`, `Checked`). `Answered` joins the two: a job that has
  left the queue and the workers has a result.

* `ComponentsAreImplemented`, `PipelineSpec => Submission!Spec /\ Spec`: the
  components meet only in the jobs that are published, so what is proved of each
  holds of the composition. `PipelineTellsTheVerdict` and `ResultsAreAsPolled`
  are obtained that way from the worker's theorems.

**`PollingProofs`** (`JobPolling`)
* `CliIsTruthful`, `PageIsTruthful`. A poll of the page that is on its way is of
  the job whose effect is installed or of one that was cleaned up; while a new
  check is being posted every one of them is of the second kind, so none can show
  old reports (`PageInv`). SUCCESS is final, which is what makes a late answer
  true.

**`HttpProofs`** (`IdempotentPost`, `HttpCaching`)
* `ReplaysAreTrue`: what is stored was answered by an attempt that writes no
  more (`ResponsesAreTrue`).
* `AcknowledgedWritesAreOnce`: while Redis works and keeps the key, an answer
  is stored before the client has it, so whoever begins later finds it
  (`AnswersAreStored`).
* `ReplaysAreAlike`: what anybody was told from the key is what the key still
  holds, because SET NX keeps it, also when the call raises.
* `CachingKeepsPosts`, `AllSpec => Spec`, and `SharedStaysRecent`: a response
  on its way is recent for its own age; a 304 is about the entry that was
  there when it was computed (`CacheInv`).

**`AccountProofs`** (`AccountLifecycle`)
* `TypeCorrect` needs `References`: what a link, a token or a request in
  progress names is an account that exists, because accounts are erased but
  never removed.
* `AccountsStayDistinct` is inductive only over the erased accounts too:
  `UniqueInv` says that a tombstone is the id of its own account, so no later
  address meets it, and that only an erased account has lost its name.
* `IdentitiesStayPut`, an action property, from types alone.
* `QuietErasuresAreFinal`: nobody who could act for the account holds it, finds
  it by its address or has read a link to it (`QuietInv`).

**`ReviewProofs`** (`ReviewDecisions`)
* `TypeCorrect`, and `ReviewInv`: an action that has seen as many events as
  there are has loaded the row as it stands, and whoever has an event has ended.
* `BadgesSettle`, `LatestReviewsShow`, `ResolutionsSettle` (column by column:
  an action that finds the value it wants where it loaded it does not write, and
  is right unless it overtook an action that wants another) and
  `TrailsExplainRows` (the action a row names has its event).

**`CatalogueProofs`** (`BenchmarkCatalogue`)
* `TypeCorrect`; `SlugsAreUnique` and `AnswersTellSlugs` from `Staging` and
  `SlugInv`: a slug is inserted by one open transaction at most, and by none
  once it is committed. `SeedsConverge` from `Seeding`: the account is new only
  if one run has inserted it, and the corpus with it.
* `WalksAreComplete` from `WalkInv`: what a client may still miss is behind the
  pages that it has read. A commit only moves rows back in the order, or tears
  the page; a transaction that ends without a row moves nothing (lemma
  `Withdrawn`); and the rows before the last page are as many as the total.

**`LimiterProofs`** (`RateLimiter`)
* `TypeCorrect` and `TimeInv`: a TTL reaches through the window after the key's
  own. The arithmetic of windows (`Windows`, `Scaled`, `SlotOf`) and what
  `X-Forwarded-For` comes to (`EntryOfThePeer`: the entry that counts is the
  address that reached the outermost proxy) are lemmas.
* `BudgetIsKept` from `BudgetInv`: while a request of a window may be counted in
  time, the key has counted at least whoever may pass since it was last lost
  (`KeyStays`), each loss adds one limit, and afterwards nobody can join them
  (`Joining`).
* `RefusalsAreEarned` from `EarnInv`: a counter, and every count given out of
  it, stays within the requests that have been there. `WaitingPays` adds that
  Retry-After leads to the first instant of a window (`NextWindow`).
* It assumes `Token \cap Address = {}`, because `get_client_id` marks its
  results "tok:" and "ip:": without it a token and an address could share a bucket.

**Only model-checked**: the liveness properties `EveryHandlerEnds`,
`EveryJobConcludes`, `AcknowledgedIsChecked` and `CliEnds`, because fairness and
ENABLED are beyond this prover, and the two properties of section 5 that do not
hold. The theorems about `SubmissionPipeline` rest on those of its components;
whatever its run checks besides them is liveness.

## 7. What is abstracted or left out

* Payloads, slugs, semver syntax, hashes, sizes, citations, logging, metrics.
  A defect in a form is the name of the step that finds it.
* ORM expiry: after a failed flush `benchmark.slug` in the log call of a failed
  cleanup (`versions.py:220`) may need a database read outside the async
  context and raise in place of the original error.
* The request body is not part of the idempotency key, in the code as in the
  model: an attempt with another body and the same key is another attempt.
* `api_keys.last_used_at`, token expiry and the OAuth state token: nothing in
  the modelled properties depends on them, and an expired token allows less.
* Results expire after a day (`result_expires`): an expired result is PENDING
  again, which `TaskResult` leaves out, and with it a poller that comes a day late.
* The limiter composed with the middleware: a 429 is stored with the key
  whatever counter it came from, so the composition asks nothing that the two
  modules do not, and its product is too large for TLC.
* MinHash, LSH and shingling: probabilistic arithmetic over text, which TLC
  cannot evaluate where it could be wrong. What decides on their outcome, the
  classes and the worst of them, is in `ContaminationWorker`.
* `loadtest.py` is a traffic generator; it keeps no state and decides nothing.
* The filters of the search and the projections of the read models: SQL
  expressions evaluated within one statement. Endpoints of a single SELECT.
* Rendering, configuration, migrations, metrics, logs.

## 8. Plan

The safety properties of the runs are proved. What is left:

1. `RateLimiter` below the handler of `IdempotentPost`, as a theorem about the
   composition, which TLC cannot reach.
2. Expiry of results, if a poller is to be followed for more than a day.
