# A TLA+ model of hero-api

hero-api takes a parent's phone number, a selfie of parent and child and a
consent, verifies the number with a code, and queues a personalised video that
a separate worker renders and the API delivers. This directory holds TLA+
modules translated from the repository's code (`src/`), TLC configurations
that check them on small instances, and TLAPS proofs that hold for every value
of the constants.

`PROJECT.json` maps each definition to the lines it models, and lists every
run, mutant, finding, hazard and theorem. This file explains them.

    tlc -workers 2 -config SubmissionRaces.cfg MCSubmission.tla
    tlapm SubmissionProofs.tla

## 1. The system

Several web processes (uvicorn) serve one MySQL database and one Redis. `def`
handlers run in a thread pool, `async def` handlers on the event loop. Outside
the repository are the render worker, Twilio/WhatsApp, S3 and the vision model.

| Component | State | Operations | What is hard | What must hold |
|---|---|---|---|---|
| Submission and OTP (`routers/video.py`, `routers/auth.py`) | `users`, `user_verification`, `user_otp`, `jobs`, `job_assets`; selfies in S3; `video:pending:<user>` in Redis | submit, verify-otp, resend-otp | REPEATABLE READ snapshots, an upload inside the transaction, a Redis write after the commit, a counter incremented in Python | no video without a code; counters and the cached job tell the truth; a committed job has its selfie |
| Pipeline, watchdog, delivery (`sql/schema.sql`, `routers/jobs.py`) | status, retry, lock, failed_stage of `jobs`; `job_assets` | worker's take/done/fail; watchdog's fail/rewind; update-job, video-url, send-video | workers die, handlers flush stale copies, the watchdog moves rows under both | nothing rendered is invented or lost, retries end, "sent" was sent, every job settles |
| Burst queue (`core/redis.py`, `routers/photo_validation.py`, `workers/photo_queue_worker.py`) | Redis list, one result key per photo | queue_photo, worker_loop | separate Redis commands, late answers, crashes | bounded queue, a photo worked on once and never forgotten |
| Rate limiter, Groq key manager (`core/redis.py`) | counters with TTL | check_rate_limit, get_available_key | renewed windows, look-then-charge, failing open | how much any window lets through |
| Versioned configuration (`routers/config.py`, `routers/vision.py`, `services/config_service.py`, `services/vision_service.py`) | rows with one active mark, `config_audit` | create, rollback/activate, delete, seed | racing admins and seeders, no unique key on the mark | exactly one active row; an honest audit log |
| Runtime settings (`services/settings_service.py`, `routers/settings.py`) | one JSON row, an unlocked cache per process | get_settings, update_settings | two stores per refresh, read-patch-write | bounded staleness, a patch lost only to an overlap |
| Feature flags (`core/redis.py`, used by `routers/photo_validation.py`, `routers/jobs.py`, `routers/config.py`) | flag and `auto_off` key per flag, audit row of a pause | set_flag from check_photo, the admin's switch, pipeline/pause | two commands per write, writers overlap or stop halfway | validation goes off only for a reason; mark and audit agree with the flag |
| Photo check (`routers/photo_validation.py`) | none | analyze_photo, decide, check_photo | failover over keys, age arithmetic | an approval means a child and somebody who can be the parent |
| Listing and reports (`routers/jobs.py`) | none of their own | list, stats/summary, four reports, PATCH fields | several queries per answer and several requests per walk over the pages, while rows change | a walk misses no more than what left the list and repeats no more than what joined it; the figures of a report fit together |
| GeoIP (`core/geoip.py`) | a file, `lru_cache` | download, lookup | a cached miss | not modelled |

They meet at few points. Submission creates the jobs the pipeline moves and
both write the pending key; submit reads the settings cache and the
`photo_validation` flag and passes the rate limiter; check_photo seeds and
reads the vision configuration; queue_photo asks the Groq key manager; the
watchdog reads `max_retry` and `stuck_after_minutes` of the active
configuration; the listing reads what all of them write. Each module models its
neighbours by what it can see of them: Submission lets the key vanish at any
time (`PendingGone`) and the flag flip at any time (`ToggleValidation`), runs
under any row of settings, and lets the pipeline make any move that the
contract `JobLifecycle` allows it (`WorkerStep`); RenderPipeline is shown to
make no other.

## 2. The modules

| Module | What it is |
|---|---|
| `JobLifecycle` | the contract on `jobs.status` that Submission and RenderPipeline implement |
| `Submission` | the three handlers, operators and pipeline seen from them |
| `SubmissionInv` | the inductive invariant of Submission |
| `RenderPipeline` | one row of `jobs` under worker, watchdog and three handlers, and its pending key under late submits |
| `PhotoTickets` | what the burst queue promises for each photo |
| `PhotoQueue` | burst queue: API processes, workers, one Redis list |
| `RedisLimits` | rate limiter and key manager |
| `VersionedConfig` | `pipeline_config` or `vision_config` under admins and seeders |
| `SettingsCache` | settings row and per-process caches |
| `PhotoCheck` | `decide` as an operator |
| `FeatureFlags` | the flags and those who write them; extends `PhotoCheck` |
| `JobReports` | the job list and the reports over a table that moves |
| `MC*` | the small instances TLC checks |
| `*Proofs` | theorems, one module per component |

In a module a commented block "Mutant of X" before a definition X is a version
of it with a plausible bug. Nothing uses it; each property was seen to fail
when X is replaced by its mutant.

### Submission

A handler is a read step, the Redis or S3 calls on its way, a commit step and
what follows the commit. Its local copies are in `req[r]`, its next step in
`pc[r]`.

| Action | Code |
|---|---|
| `SubmitRead` | checks and the first query, which fixes the snapshot: user, cap, verification, waiting job, jobs in flight |
| `SubmitGuard` | pending key, then the snapshot's job in flight (video.py:257-267) |
| `SubmitInsert` / `SubmitInsertFails` | flush and upload (ids are handed out and never come back; a new user waits for the unique `phone_hash`) |
| `SubmitCommitWait` / `SubmitCommitVerified` / `SubmitNewOtp` | the three commits |
| `SetPending` | Redis, after the commit |
| `VerifyRead` / `VerifyCommit` | auth.py:28-87; one commit uses the code, verifies the user, releases and counts the waiting job |
| `ResendRead` / `ResendCommit` | auth.py:106-168; the invalidating UPDATE is a current read |
| `Crash` | death or an exception at any step |

Abstractions. A refused rate limit is a request that does not arrive.
`tc_accepted` and the form's data are left out. A submission that arrives while
validation is on carries a good token. Code age is one of three (within the
cooldown, past it, expired), and two codes of one user never tie in
`created_at`; a used code keeps no age, since nobody looks at it. Redis being
down shows as a missing key or a crash. InnoDB's locking is external: the model
uses only that a plain read sees the snapshot, that an UPDATE by key overwrites,
and that the unique key makes a second insert wait and fail.

`settings` (limit, multiple requests, held and unlimited numbers) is chosen from
`SettingsRows` at the start and stays. The history `overlapped` collects the
numbers that two requests served at the same time, the history `moved` the jobs
an operator moved; `Serial(n)` says that neither concerns `n`. That is the
proviso of `AtMostOneInFlight`, `CapRespected` and `VideoCountExact`: what
happens to other numbers does not excuse `n`.

### JobLifecycle

The contract has two variables: the phase of each job, and the set of jobs that
are `disturbed`. `Request(p)` is where a request may take a job that is in phase
`p`, `Work(p)` where worker, watchdog and delivery may take it; a step moves
every undisturbed job in one of these ways. It is instantiated twice:

| | phase | disturbed |
|---|---|---|
| `Submission` | `status` | `Disturbed`: jobs of numbers with overlapping requests, and jobs an operator moved |
| `RenderPipeline` | `phases`: the statuses a worker works through are "processing" | `touched`: jobs whose status an operator set |

Both modules have `Lifecycle == Life!Spec` as a property, and
`Spec => Lifecycle` as a theorem. The contract is the joint between them:
Submission's `WorkerStep` is `Life!Work`, so what is shown of requests is shown
against every pipeline that keeps the contract, and RenderPipeline starts its
jobs in the phases in which Submission releases them. That a stale handler or a
watchdog with an old lock puts no delivered job back to work is part of it, and
is not visible in either module's other properties.

### RenderPipeline

The row has status, retry count, age of its lock, failed stage and error code.
A handler loads it, and `Flushed` writes only the columns whose value differs
from what was loaded, as SQLAlchemy does; `ClearNext` leaves a finishing
handler with nothing but the job whose key it clears. The worker is external:
`WorkerTake`, `WorkerDone` and `WorkerFails` follow the README's "Worker" section and
the status enum, and a worker that dies simply takes no further step.
`WatchdogFail` assigns in MySQL's left-to-right order, so `failed_stage` is
computed from the status already overwritten.

The pending key is modelled from the side of one job. The request that released
the job writes it after its commit (`SetPending`), when the job may already be
finished; a submit whose snapshot has the job in flight (`SubmitSees`) writes it
again if it finds no key (`SubmitGuard`). A run begins right after the release,
with such requests still on their way or gone. The key is cleared by a finished
delivery or update-job, or expires. That a key may name an older or a newer job
of the user is seen in Submission, where `PendingGone` deletes any key at any
time.

### PhotoQueue, RedisLimits

Each Redis command (or MULTI) is a step. A command whose answer comes late is
sent again by the client though it was executed (`retry_on_timeout`), a failing
one is swallowed by the code's `except`, a process may die: each costs one
`faults`. Properties excuse no more than the fault can explain.

In PhotoQueue the history `harmed` collects the photos a fault could double or
lose, and only those are excused. `PhotoTickets` is the abstract specification:
a photo goes from nowhere to the queue, to one worker, and to a result or the
dropped ones, and a step moves one photo. `place` is the refinement mapping, the
set of places where a photo is to be found, and `TicketsKept` says that
PhotoQueue implements it.

In RedisLimits a charge renews the window, because EXPIRE is sent with every
INCR; `log` keeps the grants younger than a window, over any position of the
window. `Unpaid(c)` is the grants among them that a failing Redis let through
uncharged: they, and nothing older, excuse passing the limit.

### VersionedConfig

`table` chooses which of the two tables is looked at and `populated` whether it
began with an active row. The UPDATE of the active rows takes their lock until
commit; on a table without an active row it takes gap locks only, which several
transactions hold at once. `pipeline_config` has no delete, `vision_config` no
audit row and no check that the activated row is not already active.

### SettingsCache

The load and the stores of `_cache["data"]` and `_cache["ts"]` are separate
steps of threads that share the cache. `home` says which process a thread
belongs to, so one run covers both "same process" and "two processes". A
request is at work for at most `Slow` ticks.

`data` is a plain JSON column: the ORM compares it with what it loaded, and an
update whose patch says what its row already said writes nothing (`Moves`).
The keys hold values for that reason, and every key begins with `Default`.

Four histories say when an overlap does damage. An update knows the keys it may
be `behind` on, whose last patch the row it read need not hold, and a request
knows whether it was `alone` in its process all the time. `lost` is the keys
whose last patch may be gone: because a commit that was behind on them wrote
over it, or because it came from an update that was itself behind on the key and
wrote nothing. `PatchKeepsOthers` says that all other keys have their last
patch. `crossed` is the processes in which an update overlapped something; it
ends as soon as a request that is alone stores what it read, or with a restart,
so `OwnUpdateServed` also says how long an update may stay hidden.

### PhotoCheck, FeatureFlags

`Decide` returns the label of the first objection. A check_photo request asks
its keys in turn (`KeyAnswers`, `KeyRefuses`) and after the last refusal becomes
a writer of the flag; an admin's switch and a pause are writers at once. A
writer runs `SetFlag`, `SetMark` if the call touches the mark, and for a pause
`WriteAudit`; `SetSkipped` is the missing Redis client, `Fails` an exception or
death in between. `dirty` remembers flags whose last writers overlapped or
stopped halfway. The queue worker also analyses photos but ignores a failure,
so it is no writer here. Ages are taken as not negative.

### JobReports

A request runs its queries in one REPEATABLE READ transaction: its first query
fixes `snap` and the others look at `View`, which is that snapshot. The list is
`Count` and `FetchPage`; an admin turns pages (`TurnPage`) until the last total
he was told says there is no further one, and every page is a transaction of
its own. `walk` keeps what he has been shown, which of the matching jobs have
matched all the time, how many have stopped or begun to match, and how many of
his rows he had been shown before. A report is a tuple of
answers, one `AskNext` per query. Meanwhile `Submit` adds rows, in any order of
their ids since ids are handed out before the commit, `MoveJob` changes a
status, `UpdateFields` is PATCH fields.

Readers do not disturb each other, so one client is modelled. City stands for
the fields PATCH can edit and for the columns with a breakdown, the UTM columns
are one. `updated_at` is the day of the behaviour for a changed row (`touched`)
and the day of creation otherwise: stats/summary and the list filter by it, the
reports by `created_at`. `FiguresAgree` says that the parts of a report add up. A sum over groups, `SumOf`, is a count of the units in all of them. Groups whose label collides with a value somebody typed are excluded
by `CityTold` and `SourceTold`. Media URLs, decrypted numbers, percentages and the
layout of the CSV are left out.

## 3. The runs

Every bound is a named constant: `MaxJobs`, `MaxOtps`, `MaxOperatorMoves`,
`OperatorTargets`, `SettingsRows` (Submission), `Targets`, `MaxMoves`
(RenderPipeline), `MaxFaults` (PhotoQueue, RedisLimits), `MaxCharges`
(RedisLimits), `MaxRows`, `MaxCommits` (VersionedConfig), `MaxTime`,
`MaxUpdates` (SettingsCache), `MaxJobs`, `MaxMoves`, `Start`, `Cities`,
`Groups`, `Ranges` (JobReports). `Slow` is not a bound of the model but an
assumption on the system. All runs check deadlock.

| Run | Instance | Distinct states | What it shows |
|---|---|---|---|
| `submission_races` | 1 number, 2 rows of settings, 2 slots, 2 jobs, 2 codes, 1 operator move to "wait" or "failed" | 1,273,496 | every interleaving of two handlers keeps the OTP gate, the upper bound of the count, the selfies, the pending key and the lifecycle right; one in flight, the cap and the exact count for numbers whose requests came one at a time and whose jobs nobody moved by hand |
| `pipeline` | 1 job, 1 URL, 2 handlers, `max_retry` 2, 1 operator move to "failed" | 499,706 | assets, retries, delivery, locks, the lifecycle; the work left descends with every move and somebody comes while some is left; under fairness every queued job settles and every finished one frees its user, however late its pending key was written |
| `photo_queue` | 3 photos, 2 APIs, 2 workers, limit 1, 1 fault | 288,846 | each photo goes its way once and in order; never more photos wait than the limit and the other APIs, whatever fails; announced photos are accounted for; only a fault that hit a photo excuses it |
| `limits` | 1 caller, 2 keys, 2 APIs, window 2, 4 charges, 1 fault | 935,614 | what any window lets through, beyond what passed uncharged in that very window |
| `config` | 3 admins, 2 seeders, both tables, empty or populated, 4 rows | 455,986 | one active row, stray rows only from racing seeds, audit wrong only after a race |
| `settings` | 2 threads, 2 processes, 2 keys of 2 values, TTL 1, 2 writes of the row, 4 instants | 2,793,829 | staleness bound; which overlaps hide an update and for how long; which patches an overlap may lose, those that write nothing included |
| `flags` | 2 requests, 1 or 2 keys, 41 answers around the age bounds | 462,318 | approved is the family, neither more nor less; automatic switch-off, mark and audit |
| `reports` | 2 users, 5 jobs, 2 jobs a page, 3 rows added or changed | 2,129,123 | how much a walk over the pages can miss and repeat; figures of one report fit together |

Why these are enough to be interesting. Two slots are what every race here
needs: each damaged invariant shows up as one stale copy against one commit.
Two jobs let a second submission meet a finished or a running first one, and two
codes let a resend or a second submission overtake a verification. A single
number suffices because rows of different numbers share only the id counters.
One row of settings holds the number's jobs and has a limit that the second job
reaches, the other has neither. An operator's "wait" takes a job back behind the
gate, his "failed" takes one past it or off a worker. A queue limit of 1 and one request per window
put every resource at its limit at once. Three admins are one more than the two
that can race for a lock. `max_retry` 2 lets the watchdog rewind twice, from
different stages, before it gives up; an operator's "failed" is the move that
ends a job under a worker that holds its lock. The age samples straddle 4, 10
and the gap of 12 with the younger person in either place. Five jobs on pages of
two make three pages, so that a row may leave before, on or after the page that
is open, and one of them is older than the list shows.

The inductive invariant of Submission is not among the properties of its run:
of its conjuncts, those that promise something are listed there by themselves,
and the whole is proved.

Every property of these runs also has a mutant: a plausible bug in the code
that TLC finds through it, under the run's own configuration.

### Runs that find a violation

Four runs check a sentence of the repository that the code does not keep.

| Run | Sentence | What happens |
|---|---|---|
| `submission_unchecked` | auth.py:72-75: roles are NULL exactly when the selfie was never validated, such a job becomes "unverified" | roles are mandatory (video.py:67-71), so a selfie that was never validated goes from "wait" to "queued" |
| `submission_requeue` | README.md:67: the lifecycle runs forward | a slow verify-otp puts a job that a worker already took back to "queued" |
| `pipeline_failed_stage` | README.md:67: "`failed` with `failed_stage`" | the watchdog sets the status first and then computes the stage from it: NULL |
| `photo_queue_requeue` | photo_queue_worker.py:35: "No capacity, re-queuing" | only the result entry is rewritten; the photo is in no list |

### Other disagreements seen while modelling

These have no run of their own.

* Two overlapping submits of a verified user each find no job in flight and
  both queue one: `AtMostOneInFlight`, `CapRespected` and `VideoCountExact` hold
  (and are proved) of numbers whose requests never overlapped and whose jobs
  nobody moved by hand. submit has no `await` between its queries, so within
  one process it overlaps only with the thread-pool handlers; across processes
  it overlaps with itself.
* `video_count += 1` is computed in Python: overlapping requests lose an
  increment. It never counts too much, which is proved.
* A code may be accepted by two verifications, or after a resend invalidated
  it, if they read it before the commit of the other.
* A limit of 0 still lets a new number have one video: the limit is looked at
  for existing users only (video.py:163).
* `hash_phone` is documented to take the normalised phone, but is given the
  typed string: `98...`, `+9198...` are different users with a cap each.
* `clear_pending_video` after a slow update can delete the key of a newer job;
  `set_pending_video` after a slow commit can write the key of a finished one,
  which then blocks the user for 30 minutes. `FinishedFreesUser` shows that this
  comes to an end.
* An update of the settings that says what it has read writes nothing. If
  another admin's change of that key commits in between, this change stays,
  although the update that denies it was answered last.
* send-video stores the URL it sent only if it differs from the one it loaded,
  so after a concurrent video-url the stored URL is not the one sent
  (jobs.py:478).
* update-job to a processing status keeps `locked_at` as it was; without a
  lock the watchdog never finds the row.
* The "queued" entry is written after the push and can overwrite a worker's
  "processing" or "completed".
* Two processes that seed an empty table leave two active rows until the next
  switch; a vision row that becomes active while it is being deleted leaves
  none until the next seed.
* The audit row's `prev_config_id` is read before the lock and can name a row
  that was not active any more.
* pipeline/pause ignores `set_flag`'s FALSE: with Redis away the audit log says
  paused and the worker goes on.
* Every refused attempt renews its rate-limit window, so a persistent caller is
  locked out beyond "max 3 per 10 minutes" (auth.py:108).
* The README speaks of photos with several faces being accepted; `decide`
  requires exactly two. It speaks of validation going off when Groq is
  saturated; any failure of all keys, an unreadable answer included, does it.
* A breakdown calls the rows without a value "direct" or "unknown". If somebody
  typed that word, the two groups have one label, the later overwrites the
  earlier, and the parts no longer add up to the total (jobs.py:502-506): hence
  the proviso `CityTold`.
* A walk over the pages by offset skips one job for each job that leaves the
  list behind it, and shows one again for each that joins it:
  `MissesAreDepartures` and `RepeatsAreArrivals` are the bounds.
* geoip.py:129 says that "city resolution switches on as soon as the file
  lands". A miss that the `lru_cache` has kept stays, also when `download_db`
  returns early (geoip.py:82) because another process fetched the file.

### Fairness

Only `pipeline` has liveness properties. `FairSpec` assumes weak fairness, per
job, of `Watchdog` (the MySQL event runs every minute), `LockGetsStale` (the
clock passes `locked_at + stuck_after_minutes`), `WorkerTake` (workers keep
polling for unlocked jobs, as the README's worker does) and `PendingExpires`
(the key's TTL of 30 minutes). Nothing is assumed of a worker that holds a
lock: it may die at every stage of every retry. Nothing is assumed of API
callers, whose late writes of the key `FinishedFreesUser` has to survive: that
they end follows from what they read, since no snapshot taken after the job is
finished has it in flight. Operators are excluded from `QueuedSettles` by
`touched`. The
run uses no symmetry, which would be unsound for liveness.

## 4. The proofs

All theorems of a specification have the form `Spec => []Inv`,
`Spec => [][A]_vars`, or `Spec => Life!Spec` and `Spec => Ticket!Spec` for the
two refinements. They are proved for arbitrary sets of numbers, requests, jobs,
processes, threads, keys and any bounds. In each module one inductive invariant
carries the others, and TLC found it to hold on the instance of that module's
run before anything was proved.

* **Submission** (`SubmissionProofs`: `SpecInv` and its corollaries). The
  properties are not inductive: a commit writes what was read long before. `Inv`
  adds what a stale copy may be relied on for: `FreshIds` (a job id about to be
  committed is nobody else's), `FlowVerified` (a status other than "wait" was
  chosen for a verified number, and verification is never undone), `OwnRows`,
  `StaleCounts` (a loaded count is never above the number of counted jobs),
  `OneWaitJob`, `NewUsersOnly` and `VerifySeesWait` (the unique key lets one
  first submission through, so a verification under way has seen every waiting
  job there can be). `SerialInv` is the part about the numbers that are
  `Serial`, whatever happens to the others and under any interference of workers,
  crashes and expiries: what a slot loaded is what the tables still say
  (`FreshCopies`), and a submission past its checks has room (`RoomLeft`). It
  carries `SpecAtMostOneInFlight`, `SpecCapRespected` and `SpecVideoCountExact`.
  `SpecLifecycle` takes each step to a step of `JobLifecycle` or a stutter: a
  step that moves an undisturbed job is a worker's, a commit of a fresh id, or a
  verification, whose job is still waiting unless it was moved by hand
  (`StillWaits`). Assumptions: `NumbersAssumption`, `BoundsAssumption`, `SettingsAssumption`,
  `TargetsAssumption`.
* **RenderPipeline** (`RenderPipelineProofs`). `PipelineInv` adds `InFlight`: a
  handler that will write "sent" has had its video accepted. Rewind and take
  are each other's inverses on the assets a status needs, which is what
  `StatusHasAssets` rests on. `SpecLifecycle` maps the worker's statuses to one
  phase; a delivery from a stale copy is allowed because no released job waits
  again (`NotWaiting`). `SpecWorkDescends` and `SpecSomebodyComes` are the safety
  half of `QueuedSettles`: the measure `Left`, which counts thirteen for a
  retry still to come and the steps to go in this one, falls with every move of
  status or lock, and a job with something left waits for a worker that polls,
  the clock or the watchdog. `BetweenUnlocked`, no lock between two stages, is
  what keeps the measure from standing still. Assumptions: `RetryAssumption`,
  `TargetsAssumption`.
* **PhotoQueue** (`PhotoQueueProofs`). `RoomReserved` counts the photos of the
  processes between LLEN and RPUSH with those that wait (`Expected`), which
  bounds the photos whatever fails, and the list by one more entry per repeated
  push; `FreshUntilPushed` says an id is nobody's before its push.
  `SpecQueueBounded` and `SpecWorkedOnOnce` follow, the latter for every photo no
  fault hit. `SpecTicketsKept` is the refinement: a step changes the place of one
  photo, and the new place is one `Onward` allows. `SpecAccounted` is read off
  it: a photo is announced after its push (`PushedFirst`), and no way onward
  leads out. Assumptions: `SizeAssumption`, `ApisAssumption`,
  `NoIdAssumption`.
* **RedisLimits** (`RedisLimitsProofs`). The paid grants in a window are numbered
  (`LogNumbered`): one that is younger than the window implies the counter has
  not expired since, so their number is at most the counter's grants
  (`CallerRoom`), plus, for a key, the processes about to charge (`KeyRoom`). What
  is left over is `Unpaid`. `SpecCallerLimited`, `SpecKeyLimited`.
  Assumptions: `LimitAssumption`, `KeyAssumption`, `ApiAssumption`.
* **VersionedConfig** (`VersionedConfigProofs`). `Serialised`: on a populated
  `pipeline_config` the lock is exclusive and only its holder writes.
  `SeedReserved` reserves a place for each seed under way. For
  `SpecAuditErrsOnlyOnRace`, what an admin has read is the active row unless
  somebody committed since (`ReadsCurrent`). Assumptions: `TableAssumption`,
  `ActorAssumption`.
* **SettingsCache** (`SettingsCacheProofs`). `StampFits`: a stamp is at most
  twice `Slow` ahead of the copy it is put on, wherever the threads overtake
  each other. `SpecStalenessBounded`. For `SpecPatchKeepsOthers`, `PatchInv` says
  that an update at its commit holds the last patch of every key it is not
  behind on, whether it goes on to write it or not; for `SpecOwnUpdateServed`,
  `OwnInv` says that in a process not `crossed` an update is at work by itself and
  what the requests carry is no older than what was promised; a request that is
  alone carries no less in a crossed process too, so its store mends it.
  Assumptions: `TimeAssumption`, `ValueAssumption`.
* **FeatureFlags** (`FeatureFlagsProofs`). `AloneIsAlone`: a writer that still
  counts as alone is the only one and the flag holds what it wrote.
  `SpecApprovedIffFamily` rests on `DecideExact`, the theorem that the label is
  "approved" exactly for a family, for every answer and all age limits that keep
  `AgeAssumption`. That contains `ChildMax < MinGap` (10 < 12 in the code), which
  is why the absolute age difference is enough. `SpecOffIsEarned`, `SpecMarkAgrees`,
  `SpecPauseAudited`. Further assumptions: `KeyCountAssumption`,
  `AnswersAssumption`.
* **JobReports** (`JobReportsProofs`). `MissesAreDepartures` follows from
  `WalkInv`: of the jobs that matched all the time, only as many stand before
  the place the walk has reached without having been listed as jobs have left,
  and once the last page is open none stands after it. A write changes one row;
  if it joins the list everybody else moves back or stays, so nobody slips past
  the place; if it leaves, the others move up by at most one place
  (`RankDrops`), and since no two jobs share a place (`RankInjective`) at most
  one unlisted job crosses it. `SpecRepeatsAreArrivals` is the
  mirror image, `RepeatInv`: of the jobs that were listed, only as many stand at
  or after that place as have joined the list and were not used up by repeats. A
  job that joins brings at most one listed job there (`BehindGainsOne`), one that
  leaves brings none (`BehindShrinks`), and a page uses up what it repeats
  (`PageUsesUp`). `SpecFiguresAgree` rests on `AnsweredFromSnap`, every answer
  comes from the snapshot of the first query, and needs no induction over the
  groups, because `SumOf` counts units: pairs of a group and a job of it are in
  bijection with the jobs when every job is in one group.
  Assumptions: `PageAssumption`, `StatusAssumption`, `NullAssumption`.

Only model-checked, not proved: `QueuedSettles` and `FinishedFreesUser`, since
liveness under fairness is beyond the prover, as is ENABLED.
The sentences of the four violation runs are false. No module uses RECURSIVE.

## 5. Not modelled

* GeoIP download and lookup: a best-effort city label on which no decision
  depends. What can go wrong, a cached miss, is described above; the snap to the
  nearest city is floating point.
* Admin login and keys: stateless; the models contain the calls that pass.
* Codes, hashes, encryption, message wording, image resizing, the signed photo
  token, what the form stores in a job (names, roles, story, consent).
* Schema and migrations as such; start-up wiring beyond the seeds.
* `otp_service.py`, `reuse_service.py` and `snapshot_config_onto_job`: nothing
  calls them.
* The race of send-video with a concurrent video-url on the stored URL, the
  stale clear of a newer job's pending key, a result hidden by a late "queued"
  entry, a vision table left without an active row and the lock-out of a persistent
  caller are in the models (`Flushed`, `PendingGone`, `Announce`, `DeleteCommit`,
  `Charged`), but no property speaks of them: the code promises nothing there
  that would hold.

## 6. Next

1. A composition of Submission and RenderPipeline on one pending key, for the
   stale clear of a newer job's key; their joint on `jobs.status` is
   `JobLifecycle`.
2. Abstract specifications of the other components: a sliding-window limiter
   that RedisLimits implements, and the capacity PhotoQueue takes from it.
   PhotoQueue's own is `PhotoTickets`.
3. A run of Submission with two spellings of one phone.
4. The rate limit as its caller sees it: after how long without attempts he is
   served again.
