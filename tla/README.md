# CHUB: formal models of its jobs, its schedules and what they do to a library

CHUB keeps a media library's posters, tags and files in order. Everything it
does on its own — scheduled module runs, runs started from the web page, runs
started by a Sonarr or Radarr webhook — goes through one table of jobs in
SQLite, drained by two pools of worker threads in the API process. The jobs
then work, for minutes or hours, on tables, files and remote services that
other jobs and requests change meanwhile. The code of each step is short; most
of what makes it right is what several actors may *not* do between two of its
statements. That is what this project models, checks with TLC and, for the
queue and every model of state that actors share but the wake-up, proves with
TLAPS.

Paths below are relative to the repository's `backend/`; `worker.py` is
`util/database/worker.py`, `job_processor.py` is `util/job_processor.py`,
`webhooks.py` is `api/webhooks.py`.

## Inventory

| Component | State it keeps | Operations | Talks to |
|---|---|---|---|
| Job table and workers (`worker.py`) | `jobs` rows; per pool `running`, threads; one wake-up event | enqueue, claim, complete, fail, requeue with backoff, cancel, retry, purge, recover, start, stop | job processor (call), API (calls) |
| Job processor (`job_processor.py`) | `_MODULE_LOCKS`, `_cancel_registry` | route a job, skip a disabled module, run a module under its lock with a cancel event | modules (call), run state, API cancel (registry) |
| Run state (`run_state.py`) | last outcome of each module | record start, record finish | job processor, dashboard |
| Cancel, retry, purge endpoints (`api/modules.py`, `api/jobs.py`) | none between requests | check, signal, mark; reset; delete old | workers' table, registry |
| Lifespan (`api/main.py`) | the two `DBWorker` instances | start WEBHOOK (2 threads) then BACKGROUND (3), stop both | workers |
| Webhook ingest (`api/webhooks.py`, `webhook_processor.py`, `webhook_cache.py`) | dedup rows with a 600 s TTL | refuse duplicates, enqueue, forget a failed enqueue, re-enqueue a delayed upload | job table |
| Scheduler (`scheduler.py`, `module_orchestrator.py`) | `_last_fired`, live config | tick every 5 s: plain schedules, profiles, blocks, media sync; run a module and wait | job table |
| Process start and stop (`main.py`, `api/server.py`) | readiness, abort and shutdown flags, cleanup lock | start the API thread, then the scheduler; signals; cleanup; exit | lifespan, scheduler |
| Configuration store (`config.py`, `main.py`, `api/system.py`) | `config.yml`, parsed-config cache, write lock, the running config | load, save, restore, watch and reload | everyone |
| Poster Renamerr (`modules/poster_renamerr.py`) | `poster_cache`, renamed paths, files, temporary files, rebuild lock | rebuild, match, copy or stage, scheduled and ad hoc | media cache, disk, upload |
| Poster upload (`upload_posters.py`) | per film: hash, libraries reached, edition | decide what is owed, upload, record | Plex |
| Google Drive sync (`modules/sync_gdrive.py`) | source folders | rclone, refresh `poster_cache` | Poster Renamerr |
| Upgradinatorr (`modules/upgradinatorr.py`) | in-flight, progress and pending-grab rows; tags at the *arr | search for upgrades within a budget, resume, settle, reset | ARR instances |
| Renameinatorr (`modules/renameinatorr.py`, `rename_checks.py`) | the cycle's tag at the *arr; per run the paths it read | plan, rename files, move folders, check, refresh what drifted, tag | ARR instances |
| Poster Cleanarr (`modules/poster_cleanarr.py`, `plex_metadata.py`) | a copy of Plex's database, a restore directory | refresh, sweep orphans; move, remove, restore, clear images Plex does not use | media cache, disk, Plex |
| Poster Self-Heal (`modules/poster_self_heal.py`, `util/poster_self_heal/`) | review queue | scan for drifted names, propose, rename, dismiss | Drive, disk, `poster_cache` |
| Media cache (`media_cache.py`, `connector.py`) | rows of each *arr's library | sync an instance, upsert one film | asset modules, webhooks |
| Plex cache and mapping (`plex_cache.py`, `connector.py`) | rows of each Plex library; each film's mapping | walk, upsert, prune, map | upload, labels |
| Maintenance, HTTP clients, other asset modules, library modules | little beyond a run | sequential passes and requests | services, disk |
| CL2K maker (`modules/cl2k_maker.py`, `util/cl2k/`) | images | render, save locally, upload, at once or deferred | Drive, disk, `poster_cache` |
| Frontend | none | calls to the API | — |

What makes each part correct, in words:

* **Job table.** A row is worked on by one thread at a time; nobody takes it
  away from that thread; attempts are counted exactly and never lost; a job
  that was accepted is started and ends; a module has one job in flight.
* **Job processor.** One body per module at a time; the lock and the cancel
  event are released on every path; a cancel reaches the body it was meant for.
* **Run state.** What it shows while a module runs is this run.
* **Webhook ingest.** A delivery is either handled or will be accepted again; a
  redelivery inside the TTL is not handled twice.
* **Scheduler.** What is due fires once in its minute and not for a disabled
  module; who waits for a run hears how that run ended.
* **Process.** Either both halves run or neither; cleanup happens once; a
  signal ends the process.
* **Configuration.** An edit saved under the lock survives; a load is never
  older than its file; the last saved configuration comes into force.
* **Posters.** A movie with a poster gets it in the folder it has, and in every
  Plex library that holds it; nothing is skipped that is not there.
* **Upgradinatorr.** Every item is searched again and again, within budget, one
  search at a time, and every grab is reported.
* **Renameinatorr.** What it calls sound is sound, no folder lands on another,
  and an item is visited once its renames are done.
* **Poster Cleanarr.** It takes no image Plex uses, and what it moved can come back.
* **Caches.** A row is deleted because the film is gone, a poster because its
  row is, and a film points to its own Plex item; in the end they agree with
  the service.
* **Self-heal.** A rename destroys no poster its listing could have seen and
  respects a dismissal; in the
  end the review tells what is left to do.

The hard behaviours are listed, each at its line, under `hazards` in
`PROJECT.json`.

## Modules

| Module | What it is |
|---|---|
| `JobQueue` | the job table, both worker pools, the job processor, the cancel, retry and purge requests, start, stop and crash |
| `JobLedger` | the abstract specification: every job has one state and at most one holder |
| `JobQueueLedger` | `JobQueue` implements `JobLedger` (refinement mapping) |
| `JobQueueProofs` | the inductive invariants of `JobQueue`, its theorems, and the proof that it implements `JobLedger` |
| `WakeUp` | how an enqueued job finds a thread: the event both pools share |
| `WebhookIngest`, `WebhookIngestProofs` | a Sonarr or Radarr event from its delivery to its finished job, on top of `JobLedger` |
| `Scheduler`, `SchedulerProofs` | the scheduler's tick and the orchestrator, on top of `JobLedger` |
| `DateRange` | the yearly day ranges of schedules and holiday borders (proofs in `SchedulerProofs`) |
| `Application`, `ApplicationProofs` | one process from `main()` to its exit |
| `ConfigStore`, `ConfigStoreProofs` | `config.yml`, its readers, writers, cache and watcher |
| `PosterRename` | two poster runs over one cache, row and folder |
| `PosterUpload` | the upload record over servers and libraries that fail |
| `PosterBloat` | Poster Cleanarr's bloat pass by a copy of Plex's database, restore, clear, and the page's deletions |
| `PosterProofs` | the theorems of `PosterRename`, `PosterUpload` and `PosterBloat` |
| `Upgradinatorr` | the search rotation, run after run |
| `Renameinatorr` | batches of renames at one *arr, beside its refreshes and its users' moves |
| `ArrProofs` | the theorems of `Upgradinatorr` and `Renameinatorr` |
| `MediaSync` | syncs of one *arr instance, webhooks, and the sweeps that trust the rows |
| `PlexMapping` | walks of one Plex library and the mapping of films to its items |
| `PosterSelfHeal` | the healer's run beside requests, dismissals, the maker's posters and a rescan |
| `SharedTables`, `TableProofs` | what the last three promise together, and their theorems |
| `MCJobQueue` | the queue's symmetry for TLC |
| `MCWork`, `MCServices`, `MCModules` | instances of several models side by side for one run of TLC |

The models in an `MCWork`, `MCServices` or `MCModules` share no state. A
variable `focus`, which never changes, names the one that moves; the others
stay in their initial states. The state graph is the disjoint union of theirs,
so a property of the union is the conjunction of the models' own, and one
fairness condition may stand for a process of each model. Some models stand
there with several instances (one runner over two servers, two runners over
one), which together are far smaller than their common upper bound. `MCWork`
extends `Scheduler`, `DateRange`, `Renameinatorr` and `PosterBloat`, `MCServices`
extends `Application` and `SharedTables`, and `MCModules` extends `PosterRename`,
`PosterUpload` and `Upgradinatorr`, so that the properties checked there are the
very definitions the theorems are about; the further instances of a model run on
the same variables with other constants. The definitions of these modules are
named so that they can stand beside each other. Only `WakeUp`, which has no
theorem, is an instance with variables of its own.

### How `JobQueue` corresponds to the code

A **row** is an id with `status`, `kind`, `attempts`, `due` and `prio`. `kind`
is the job type together with the module name, since that is all the code
branches on: module runs (`Modules`) are deduplicated by name, the two Poster
Cleanarr scans (`ScanTypes`) by type, `MediaSync` has a lock but no dedupe,
`PlainTypes` have neither, and `Webhook` is the one type of the WEBHOOK pool's
partition. `due` says that `scheduled_at` has passed; the clock is the action
`BackoffElapses`. Ids grow and are never reused (the table is `AUTOINCREMENT`),
so the oldest `received_at` is the lowest id; two requests that enqueue at the
same instant may differ in their order, which no property depends on.

A **worker thread** is a position (`pc`), the row in its hand (`cur`), the
result its handler returned (`out`) and the attempts it read (`seen`):

    off -> idle -> selected -> claimed -> [locked -> registered -> running -> ran -> unlocking] -> returned -> idle
                                                                                        returned -> failing -> deciding -> idle

Every arrow is one SQL statement, one critical section or one call. `Select`
and `Claim` are apart because `claim_next_job` reads and then updates;
`JobFails`, `ReadAttempts` and `Requeue`/`MarkFailed` are apart because
`_handle_job_error` does the same. `Locked` names the positions between
`acquire` and `release` of the module lock, `Owns` those between the claim and
the write of the row's fate.

A **cancel request** (`apc`, `ajob`, `handle`) is the four steps of
`cancel_module_execution`: read the row, look its event up under the registry's
lock, set it, update the row where it is still running. An event belongs to the
body of the thread that registered it; when the body ends, a handle a request
still keeps is a dead event (`NoThread`), and setting it does nothing.

**Faults** are database statements that raise where the code catches and
carries on (`RunStateFault`, `CompleteFault`, `HandlerFault`); an exception from a module
or a handler is simply a failed result. A statement that raises in
`claim_next_job` is logged and tried again, and changes nothing. **Crash** keeps
the rows and `run_state`, and drops everything that lives in the process. A
worker that is stopping lets its threads finish the job in hand; the process
ends after it.

Left out: payloads, messages, progress and phases of a job, logging, statistics
and the read-only queries; what a module does inside `run()` (it returns or
raises, at any time); the bodies of the handlers that take no lock, which are
one step with a result.

### `WakeUp`

`JobQueue` lets an idle thread look for a job at any time. `WakeUp` models why
it does: `process_pending_jobs` clears the event, claims, and waits for the
event or `_POLL_TIMEOUT` when there was nothing. The event is a class
attribute, so any thread of either pool clears it for all, and `enqueue_job`
sets it after the commit. A pool's jobs are a number here.

### `WebhookIngest`

The queue below it is `JobLedger`, which `JobQueue` implements: `Insert`,
`Take`, `Settle`, `Abandon`, `Reopen`, `Crash` and `Restart` are the ledger's steps,
narrowed to what webhook and poster_rename rows do. `process_poster_webhook` is a coroutine
that awaits nothing after it has read the body, so the event loop runs one
delivery at a time from `is_duplicate` to the answer; `request` is where that
delivery stands. Only worker threads, the clock and the end of the process come
between its steps. An item is a dedup identity (`_webhook_dedup_identity`); a
payload without a media block has none and fails validation in its job, and is
left out. `seen` is `webhook_cache`; `sighted` is the time a job's delivery was
recorded. A body ends in one of three ways: done, failed, or renamed with its
upload failed, which queues one `poster_rename` row and then succeeds —
two steps, since the process may end in between, and since the write of that
success may fail (`CompleteFails`): to the worker this is an error like any other,
its handler has the row run again, and the next body knows nothing of the retry the
first one asked for. When the handler cannot write either, the row is left running
with nobody at it (`Abandon`). A user may retry a row that is over (`Reopen`); no
cancel reaches these rows, since handles are registered for module runs only.
`repeats` counts how often a row ran again after a body of its had asked, which is
how many retries it may queue beyond the first, and `lost` names the identities a
crash in the middle of a delivery or a failed rollback left without a job.

The senders are outside the repository: an event is sent until it is answered
200, may be answered without the sender noticing, and may be sent again for
another episode. Backoff and the 60 s delay of the upload retry are not in this
module; `JobQueue` has them.

### `Scheduler`

`tick` is the tick in progress: its phase (`plain`, `profiles`, `blocks`,
`sync`), the minute it began in, the disabled modules and the part of the
configuration it read, the modules still to be considered, and the one
`run_module_async` is being called for. A reload, a toggle of a module, a run
by hand, a worker and a crash may come between any two of its steps. After a
crash the process is `down` until the lifespan has given back the rows its
threads held; nobody ticks or asks before.
`run_module_async` has the three outcomes of the code: refused, collapsed into
a run in flight, inserted; `fired` (`_last_fired`) is marked for the last two.
`RunImmediate` and `Poll` are `run_module_immediate` and its wait. What a
schedule means is a set of minutes; `DateRange` has the yearly ranges.
The properties excuse what the code declines on purpose: a module disabled or
running at its turn, a refused insert, and a configuration swapped under the tick.

### `DateRange`

`Contains` is `md_range_contains`, with dates compared through a number that
grows with them. `InWindow` is the reference: the range opens every year on its
start date and closes on the next end date, and nothing in it looks at the
current month. The calendar moves a day at a time, so every pair of an accepted
range and a day is reached.

### `Application`

`main` is the main thread through `start_web_server` and `ChubScheduler.start`,
`server` the API thread through `run_server`, `cleaner` each of the two callers
of `cleanup`. The order of the two flags of the handshake is modelled write by
write: the server's thread publishes itself and then tests the abort flag, the
main thread sets the flag and then tests for the server. `first_signal` may run
between any two steps of the main thread, as a Python signal handler does.

### `ConfigStore`

A load is the steps of `load_config`: stat, look the cache up, read, stat
again, insert. A save is one step, since `os.replace` is; `SaveFails` leaves the
file alone. A request handler holds the lock from its load to its save; an
outsider (a seed from a job, another process) does not; `Restorers` copy
the file first. An editor truncates the file and fills it later. `events` are
what watchdog has queued, and `FileEvent` is the debounce, on the leading edge.
`lost` records the edits that writers without the lock have erased and no save
under it has brought back since.

### `PosterRename`

One movie, `kometa` and `copy`. Both runners take `_POSTER_CACHE_REBUILD_LOCK`
for clear, merge and match, and go on without it: the row's path is written
first, then the file is copied to `.chub-tmp-<pid>` and put in place, then the
old path's file is removed. `nameAt` is where each runner stands and `nameRow`
the movie's row. `tmp` and `disk` remember who is writing a file, so that a name
shared by both runners shows. `refreshing` is `sync_gdrive`'s
refresh, which takes no lock, and a wipe of the cache by hand counts as the
same intrusion. `nameBlame` records what the code does not claim to repair.

### `PosterUpload`

One movie, its source's bytes numbered. A runner stages a copy and visits each
Plex server: connect, read the row, hash the source, work out which copies of the
movie are owed, upload to each, record. `row` is the movie's upload record: the
staged hash, its mtime, the source's hash, and `libs`, the libraries that have
those bytes. As in the code, `libs` holds bare names: `plex` knows every copy on
every server, `LibraryOf` gives its library's name, and what is owed or covered is
judged by name alone, so a second server's library of the same name, or a second
copy in one library, counts as reached with the first. The webhook's runner also
asks Plex for copies without an upload, and may not be told. `overlapping` and
`stale` are histories: a run that began beside another, and a record that may name
bytes that were not uploaded, until a run alone records new bytes.

### `Upgradinatorr`

`at` walks one run through `season_album` mode: read the in-flight rows, gather
candidates, reset the rotation when nothing is left, resume a search from an
earlier run, open the gate (command queue of the *arr), search a unit, watch it
to its end, tag, settle and report grabs, write the report and only then forget
the grabs. Albums and their artist, or a movie alone, are the two shapes the
code branches on; `run.batch` is the set of the candidates still to come, of
which `First` is next in the *arr's order. The *arr's commands and downloads move
on their own. A run
may die anywhere and is started again. `searched` remembers, for
the rotation in progress, what the tags should stand for.

A grab is known from three places, and each may fail. The history is read before
and after a search; where either cannot be read the download is not captured
(`Captured`), while the row of the search is cleared all the same. The queue may
still show it: of every item tried in the run (`run.tried`), a row that is new or
undated counts (`InQueue`). And the table of pending grabs is pruned at two weeks
before it is read (`Collect`), which any grab may be, since nothing says how soon
the next run comes. `forgotten` remembers what the first and the last let go.

### `Renameinatorr`

`namingAt` walks one instance's batches: refresh first (an option), plan, snapshot
the files, wait for refreshes, rename, wait, move folders, wait, read the paths
again, check, refresh what drifted, tag. The *arr is modelled by what the module
may meet there: a command works on one item at a time and logs what it cannot
do; a refresh reads an item and saves what it read later, which undoes a rename
or a move in between; a move onto a folder that is there merges the two. A
command a run gave up on goes on in `earlier` beside the next run's. `onDisk` is
where the file is and `onRecord` and `fileRecord` what the *arr believes; the module
sees the latter and lists the former only where the latter point. The media stand
in the order of `Place`, which decides who gets a folder two of them want. The check
compares with the batch's own snapshot, so `Fitted` items are the ones it can
vouch for. Every folder is directly under one root folder and has one file.

### `PosterBloat`

A run takes its database (`check`, `copy` or `download`, or a copy it may
reuse), reads the images in use (`query`), lists the rest (`scan`) and deals with
them one by one (`each`); mode restore puts them back one by one, mode clear drops
them. `uses` is what Plex's database says now and `main` its file without the
write-ahead log: a local copy takes `main`, a download and the page's own check
see `uses`. `settings` is fixed per behaviour. Which bloat a run deals with is any
subset: targets, excluded libraries and overlays only ever leave some out; which
image the page asks to delete is any, since its scan may be old. `sinceCopy` and
`sinceStart` are histories: what Plex has used without a break since then.
SQLite is taken to refuse a copy cut short; a copy of a file that a running Plex
writes to at that very moment is taken to be one state of it.

### `MediaSync`, `PlexMapping`

Each job fetches, reads the rows it will prune, writes and deletes one
statement at a time, with no lock. `syncHeld` and `mapHeld` are what it has in
memory. In
`MediaSync` a sweep then reads all titles and removes posters one by one, while
webhooks upsert single films; Poster Cleanarr stops on a failed refresh, Poster
Renamerr does not. In `PlexMapping` a row's id is what a mapping points to,
`AUTOINCREMENT` keeps ids fresh, a valid mapping is kept as it is, and
an item may be rematched to another film by Plex itself. `wronged`, `stolen` and
`rematched` are histories: they say which rare overlap excuses a loss.

### `PosterSelfHeal`

One Drive folder and its local copy, as sets of names. The run takes its
snapshot of dismissals, lists, and for each drifted poster decides its key
(path, or bare name when `poster_cache` has no row), proposes it, or renames it
through `apply_proposal`: ask the Drive whether the name is free, rename there,
rename the local file, write the review row. A request applies one row by the
same steps; several may be at work, even on one row, and `rowGone` holds those
whose row was deleted under them. Two rows may claim one name. rclone's answer may
be late or lost after it has renamed. The CL2K maker writes a poster of any name to
the local folder and, in a step of its own, to `poster_cache`, and uploads one to the
Drive (`MakerSaves`, `MakerRecords`, `MakerUploads`). The lock that uploads and
renames share spans one rclone command, which is why each is one step, but not
the listing before a rename: `raced` holds whoever was given the name it listed as
free by another writer since, `made` the names the maker has written. `gap` and `kept`
are histories too: a run began during a rescan, and a rename left its local copy.

### Sensitivity

Definitions named `Slip…` are slips a change to the code could plausibly make:
a guard dropped from the claim, recovery without its partition, a lock released
by the thread that never held it, a listing failure read as "free". No action
uses them. Each stands before the definition it would replace, and `mutants` in
`PROJECT.json` says which property notices it; so no property here is one the
code could not break. A property that joins the promises of several models, or
several promises of one, mostly has a mutant for each.

## Runs

| Run | Instance | What it shows |
|---|---|---|
| `queue_recovery` | 1 module and 1 scan, 2 jobs, 1 webhook and 2 background threads, 2 attempts, 1 retry, 1 fault, 1 crash | `SingleOwner`, `OwnedRowIsActive`: a row has one thread, and nobody takes it away. `StrandedOnlyByFaults`: only a failed error handler leaves a running row behind. `AttemptBudget`: attempts are exact through crash and recovery. `DedupeHolds`, `LockIsBackstop`: until a user retries, a module has one job in flight, and no claimed run is turned away by the lock |
| `queue_cancel` | 2 jobs of 1 module, 2 threads, 2 cancel requests, 1 fault | `TypeOK`; `BodiesExclusive`: one body per module; `RunStateIsCurrent`; `CancelIsHeard`: registry and bodies agree, and a row is marked only after its body was told; `ImplementsLedger`: the queue refines `JobLedger` |
| `queue_liveness` | 2 jobs, 1 thread in each pool, 1 fault, 1 crash, fair | `JobsSettle`: what was queued ends; `LocksReleased`, through crash and recovery in both pools |
| `webhook_ingest` | 1 identity, 2 events, 3 jobs, TTL 1, time 0 to 4, 2 upsets out of a failed enqueue, rollback or completion, a handler that cannot write, a crash and a user's retry | `TypeOK`; `WorkedOnce`: deliveries of an identity are worked on a TTL apart, and a job queues one upload retry, plus one for each time it had to run again after asking; `OnlyFaultsLoseEvents`, `EventsAreWorked`: only a crash between two statements or a failed rollback loses an event |
| `work` | scheduler: 2 modules, 1 profile, 1 block, 2 configurations, 2 minutes, 2 rows, 1 upset; ranges: edges on 1, 28, 29, 31 of January, February, December, over 2023 and 2024; renames: 2 items, 3 folders, 1 refresh, 1 move, 1 fault, as one batch per run or two; bloat: 2 images, 2 columns, 1 pick, 1 fault | `WorkTypeOK`; `ScheduleIsKept`: a due module is queued, once, and a fired minute had a run; `VerdictIsTrue`: who waits hears the truth; `RangeIsWindow`; `FilesAreSafe`: an item called sound is, a tagged one is renamed, no folder lands on another; `ImagesAreSafe`: no used image is taken but by what a setting or a race explains, and a moved one is kept |
| `config_store` | five casts of three, out of 2 handlers, 1 restorer, 1 outsider and the watcher; time 0 to 4, 1 edit by hand, 1 failed save | `TypeOK`; `LockGuardsEdits`: no edit under the lock erases another, and a restore's safety copy is what it replaced; `LoadIsCurrent`: no load is older than the file was when it began; `ReloadFollowsSave`: a save comes into force unless the debounce drops its event |
| `services` | process: 2 signals, 2 ticks; wake-up: 1 thread per pool, 2 jobs, 1 error; sync: 2 films, a refresh and a Cleanarr, 2 changes, or 1 change and a fault; mapping: 2 films, 1 job and 2 changes and a fault, or 2 jobs and 1 change; healer: 1 drifted poster and a request, with a poster saved or a fault, with auto-apply also a dismissal beside the fault; or 2 drifted posters after one name, with auto-apply, 1 request and a fault, or without it and, for safety only, 2 requests | `ServicesTypeOK`; `CleanExits`; `CachesAreTrue`; `RenamesAreSafe`; `ProcessDecides`; `JobsAreStarted`; `TablesSettle` |
| `modules` | rename: 2 folders, 1 move, 1 fault or 1 intrusion; upload: 1 run over 2 servers, both with a library of one name, 3 copies and 2 faults, or 2 runs over one with 2 copies in a library and 1 fault; search: an artist with 2 albums and a budget of 2, or a movie, 1 upset | `ModulesTypeOK`; `DiskIsSound`; `SkippedOnlyIfShown`; `RotationIsSound`; `PostersAllArrive`; `RotationsGoOn` |
| `retry_duplicates` | 2 jobs of one module, 1 retry | violation of `OneInFlight` |
| `cancelled_requeued` | 1 cancel of a run that raises | violation of `CancelledStaysOut` |
| `webhook_promise` | 2 identities, 2 job ids, 1 upset | violation of `PromisedRetryExists` |
| `orphan_refresh` | 2 films, 1 change, one unattended Poster Renamerr run | violation of `OrphansAreOrphans` |

What the joined properties say:

* `CleanExits`: cleanup's body runs once whoever calls it; an exit with code 0
  was asked for and has cleaned up; a start-up given up leaves no server.
* `CachesAreTrue`: a sweep that follows a good refresh removes no poster of a
  film that the *arr had then, unless an overlapping older sync deleted its
  row; a film never points to another film's Plex item, rematched ones apart.
* `RenamesAreSafe`: however listings and renames fail or answer late, a rename
  overwrites no poster but one that another rename or an upload put under the new
  name after this rename found it free; and a run renames no poster dismissed
  before, unless the maker wrote its name anew or a run looked in the middle of a
  rescan.
* `FilesAreSafe`, of Renameinatorr: what the check calls sound is, a tag stands for
  renames that ended, no folder is moved onto another, late refreshes, faults and
  users' moves excused where they explain it.
* `ImagesAreSafe`, of the bloat pass: whatever copy, download or read fails, no
  image is taken that Plex has used since the copy, nor one it has used since the
  run began, unless `use_existing_db` or `ignore_running` lets an older state
  judge; the page deletes no used image that Plex did not take up after the check;
  a moved one is in the restore directory until it is put back or cleared.
* `DiskIsSound`: a movie with a poster is called unmatched only after an
  intrusion; no copy stays where no row points, faults apart; only two copies
  through one temporary name truncate one.
* `SkippedOnlyIfShown`: when the scheduled run skips a movie, each library name that
  holds it has a copy that shows the source's poster (with one copy per name: every
  copy does), unless the record was written by overlapping runs or after the
  source changed between its copy and its hash, and not renewed since.
* `RotationIsSound`: runs never pile one search of a unit on a running one; a
  tag stands for a search in this rotation, or a failure let go; a grab stays on
  record until it is reported, unless the history could not be read when its search
  was over or its record was pruned. No run that merely defers, stops early, fails
  to settle or is followed by another loses one.
* `ProcessDecides`: the wait for the server ends, and a signal ends the process.
  `JobsAreStarted`: a committed job is started unless its pool stops.
  `TablesSettle`: when the outside rests, the caches agree with it, every film Plex has
  points to its item (or still to one given another film), and the review tells what
  is left, but for a local copy that a rename left, or that was made again, where runs
  do not apply. `PostersAllArrive`: the poster comes to the folder the movie
  has, and every library name that holds it has a copy that shows it, with the excuses
  of `SkippedOnlyIfShown`. `RotationsGoOn`: every unit is
  searched again and again.

### Bounds

Every bound is a constant named `Max…` or a set given to the instance; each is a
guard on what it counts and cuts nothing else.

* **Jobs, threads, clients.** The races are between two: two threads on one row,
  two rows of one module, two requests on one row, one pool's recovery against
  the other's thread. Two jobs of one module and two threads of one pool reach
  each; two attempts reach the first, a requeue and the last.
* **Crashes and faults.** One of each kind reaches every position at which it may
  fall, and the recovery after it; of the ingest's upsets, any two in any order. The
  theorems of `JobQueueProofs` hold for any
  number.
* **Time.** The webhook TTL is 1 and the time goes to 4, so two generations of a
  row expire; the watcher's debounce is 1. The scheduler has two minutes, since
  what one minute leaves behind matters in the next only.
* **The outside.** Two changes of a library are a film that goes and one that
  comes, in either order, between any two steps of the jobs; two films are enough for
  one to be taken for the other. Two folders and one move show a stale path. Two
  versions of a poster's bytes show a stale upload.
* **Hitches.** Where faults, dismissals and the maker's posters multiply, `MCServices`
  runs them apart (`OneHitch`): a poster saved, or a dismissal and a fault, since an
  unattended run leaves a row to dismiss only after a failure. Two posters after one name meet in two ways: a run beside a request,
  with a fault only where there is no local copy (`NoTwins`), for a request needs a
  row that a failure leaves; and two requests on what a run proposed, for safety only,
  without faults. `RenamesAreSafe` is then violated if a rename is not counted among
  the writers that may come between a listing and a move. The theorem has any number
  of all of them.
* **Ranges.** February 29, both ends of three months and every order of start and
  end, in a leap year and the year before; `RangesAreRight` covers the rest.
* **Renames.** Two items are enough to want one folder, or each other's; one
  refresh and one move reach every step of a batch.
* **Bloat.** Two columns make a read that fails half-way, two images one that is
  used and one that is not. Plex begins with one or both in use and picks once.

### Fairness

Fairness is stated for what the operating system, the clock or a restart policy
provides, never for a request, a fault, a crash or a change of the library.

* **Threads and processes** take their next step (weak fairness): worker threads
  and the handlers they run, a pool's start, the clock of the backoff and a
  stopped process's exit in `JobQueue`; both halves of the process and cleanup
  in `Application`; idle threads in `WakeUp`, whose poll times out; the
  watcher in `ConfigStore`; jobs and runs elsewhere. It takes that module
  bodies end, as they do: their requests have timeouts.
* **Senders** are assumed to repeat an event until it is answered 200, the case
  for which the code forgets a refused delivery; and the process is restarted
  (`restart: unless-stopped` in the repository's compose file).
* **Commands and downloads** of the *arr end, and they are what Upgradinatorr
  waits for.
* **Strong fairness** is assumed where a step is retried by the schedule for ever
  and may fail each time for a reason outside: a fetch (`MediaSync`,
  `PlexMapping`), the healer's listing, a whole run of Poster Renamerr,
  Upgradinatorr's reads, gate, resumption and next item. It says that a service
  that answers again and again is found answering; without it a service that is
  down at every scheduled moment would be a counterexample to any of these.
  `RotationsGoOn` and the settling properties depend on it.

Runs whose specification states no fairness check safety only.

## Proofs

The theorems hold for every value of the constants that the named assumptions
allow: any number of jobs, modules, threads, clients, items, servers, attempts,
faults and crashes. The assumptions are those the code justifies (sizes are
numbers, the stand-ins for "nobody" are none of the bodies, kinds of jobs differ)
and TLC evaluates each in a run. Every inductive invariant was checked by TLC on
a small instance before its proof. In each module the proof of a step first states
what an action does to the fields of the records it changes, then has one lemma per
part of the invariant with one case per action.

| Theorem | States | In words |
|---|---|---|
| `TypeCorrect`, `OneOwner`, `OwnedStaysActive`, `Budget` | `[]TypeOK`, `[]SingleOwner`, `[]OwnedRowIsActive`, `[]AttemptBudget` | rows, their owners and their attempts |
| `QueueImplementsLedger` | `Spec => ImplementsLedger` | the queue is a refinement of `JobLedger` |
| `OneBodyPerModule`, `RunStateFollowsBody` | `[]BodiesExclusive`, `[]RunStateIsCurrent` | the module locks |
| `CancelFindsItsBody` | `[]CancelIsHeard` | the cancel registry |
| `DedupeIsKept`, `LockStaysFree` | `[]DedupeHolds`, `[]LockIsBackstop` | one job in flight until somebody retries or cancels |
| `OnlyFaultsStrand` | `[]StrandedOnlyByFaults` | no row left behind |
| `IngestTypes`, `IngestWorksOnce`, `IngestLosesNothing` | `[]TypeOK`, `[]WorkedOnce`, `[]OnlyFaultsLoseEvents` | a delivery is worked on once and not lost |
| `IngestKeepsLedger` | `Spec => Queue!Spec` | the ingest drives the queue by the ledger's steps |
| `StoreTypes`, `LockKeepsEdits`, `CacheIsCurrent` | `[]TypeOK`, `[]LockGuardsEdits`, `[]LoadIsCurrent` | what the write lock and the cache are worth |
| `ProcessTypes`, `ProcessEndsClean` | `[]TypeOK`, `[]CleanExits` | start, signals, cleanup, exit |
| `SchedulerTypes`, `SchedulesAreKept`, `CallersHearTheTruth` | `[]TypeOK`, `[]ScheduleIsKept`, `[]VerdictIsTrue` | every due minute, every waiting caller |
| `SchedulerKeepsLedger` | `Spec => Queue!Spec` | the scheduler drives the queue by the ledger's steps |
| `RangesAreRight` | `[]RangeIsWindow` | every accepted range, every year |
| `UploadTypes`, `SkippedIsShown`, `SkippedIsShownByAll` | `[]UploadTypeOK`, `[]SkippedOnlyIfShown` | what is skipped is shown: under every library name, and by every copy where names differ |
| `RenameTypes`, `RenamedIsSound` | `[]RenameTypeOK`, `[]DiskIsSound` | one poster, where the row says |
| `PassTypes`, `ImagesStaySafe` | `[]PassTypeOK`, `[]ImagesAreSafe` | no image in use is taken, none moved is lost |
| `RotationTypes`, `RotationPromise` | `[]TypeOK`, `[]RotationIsSound` | one search at a time, true tags, no grab lost but by an unreadable history or the prune |
| `NamingTypes`, `FilesStaySafe` | `[]NamingTypeOK`, `[]FilesAreSafe` | what is called sound is, what is tagged is renamed, no folder on another |
| `SyncTypes`, `SweepsGoByRefreshedRows` | `[]SyncTypeOK`, `[]SweptOnlyIfStolen` | no poster swept of a film that is there |
| `MapTypes`, `LinksAreTrue` | `[]MapTypeOK`, `[]MappingIsTrue` | a film points to its own item |
| `CachesStayTrue` | `CachesSpec => []CachesAreTrue` | both caches |
| `HealTypes`, `RenamesStaySafe` | `[]HealTypeOK`, `[]RenamesAreSafe` | no poster overwritten, no dismissal defied |

### The queue (`JobQueueProofs`)

From `SizesAssumption`, `KindsAssumption` and `ThreadsAssumption`. The first
invariant is `Inv == WellTyped /\ Ownership /\ Counted`. `SingleOwner` is kept by
the claim only because a pending row has no owner, which is `OwnedRowIsActive`;
that one is kept by the recovery only because a pool that starts has no thread at
work and recovers only the rows of its own partition, which is the rest of
`Ownership`. `AttemptBudget` is kept by the requeue only because the error
handler's copy of the attempts is current, the second part of `Counted`.
`WellTyped` is inductive by itself and proved first. Steps are grouped by their
effect: a step of the handler touches no row (`HandlingKeeps`), the end of a job
writes its thread's own row (`FinishingKeeps`), requests and the clock rewrite rows
nobody owns (`RewritingKeeps`).

* *Refinement.* The holder of a row is the thread that owns it; that there is just
  one is `SingleOwner`, so every step that writes a row's fate is the ledger's
  `Settle` by its holder (`HoldersKnown`), a recovery is the ledger's `Recover`, and
  every step inside the handler a stutter.
* *Locks.* `LockInv` ties the lock of a key to the one thread between its `acquire`
  and `release`. It needs `Inv`: the key is read off the row in hand.
* *Handles.* `HandleInv` says that an event in the registry is that of the body at
  work on the row, that a handle a request keeps is the registered one or its body is
  over (`HandleIsCurrent`), and that on a first attempt no row is cancelled before its
  body is registered. `HandlesRest` is the effect of most steps.
* *Dedupe.* `QuietInv`: while nobody has retried or cancelled there is no cancelled
  row a body might still work on, so the rows in flight of a kind only shrink, but for
  the insert, which looks at them first.
* *Stranding.* The stranded rows are counted by the faults: a failed UPDATE of the
  error handler adds at most one, and every other step leaves the set as it is or
  smaller (`FewerStranded`).

### The ingest (`WebhookIngestProofs`)

`OnceInv`: the dedup row of an identity bears the time of its latest delivery, and
the deliveries recorded in jobs are a TTL apart (`FarApart`, `Spaced`). `RetryInv`:
a job has left no more retries than its `repeats` and the one its row knows of
(`Own`), because its present body asked for it or its result says so; each step that
makes a row forget one counts it (`KeepsCount`). `Backed`: a dedup row is that of a
job or of the delivery in hand, unless its identity is `lost`. `IngestKeepsLedger` needs nothing but the types: each
action is one of the ledger's narrowed to a kind of row, or leaves the queue alone.

### The configuration (`ConfigStoreProofs`)

`StoreInv`: a version names one content among everything in play (the file, the
cache, what the actors hold), the lock excludes writers from its taking to their
end, and what the lock holder is about to write back, or the cache may still
answer it with, covers what was saved under the lock (`Kept`). The history `lost`
is what outsiders erased and no save under the lock has restored: with two of them,
an edit erased by one may come back through what the other had loaded, and be
erased again.

### The process, the scheduler, the ranges

`ApplicationProofs`: `Handshake` says that a server that runs, or is about to, can be
reached through the holder or has yet to look at the abort flag; `Counted` ties the
runs of cleanup to `cleanup_done`; `AskedToGo` says how the main thread reaches its
exit. The types alone are not inductive: a second signal would start cleanup's
thread again, which `OneThread` excludes.

`SchedulerProofs`: `Answered` follows a tick through its phases: a module that the
tick has taken through a phase in which it was due has fired in this minute, unless
it is excused. `Clock` and `InHand` keep a module from firing twice, and `Rows` and
`Calls` follow what ran to what its caller is told. `NextIdIsUnused` rests on the
least element of a set of numbers (`LeastExists`, by well-founded order).
`SchedulerKeepsLedger` closes the stack: the queue the scheduler is written against,
like that of the ingest, is the abstract one, and `JobQueue` implements it.

The ranges, in the same module: a date's number is `372 * year + 31 * month + day`, so
that dates of one year lie apart from another's and months order them (`DateInYear`,
`MonthOrder`); `md_range_contains` chooses the year of an edge by comparing months,
and `ContainsIsWindow` shows the choice right in the four cases. Ranges that end
earlier in the month they start in are excluded (see the remarks).

### The posters (`PosterProofs`)

* *Uploads.* A run that overlaps no other works alone on a file of its own (`Alone`)
  and its knowledge is the row's (`Informed`). A record that is not stale names, for
  each library name, bytes no newer than what a copy there shows, and has their
  source's hash (`Recorded`, `Hashed`). A run alone re-establishes the first when it
  stages, and the second when it records new bytes the source still has. It
  uses that versions are numbered in order: a source that returns to earlier bytes is a
  new version. That no copy is left out needs distinct library names, which is the
  hypothesis of `SkippedIsShownByAll`.
* *Renames.* `RenameInv` has one part for the cache and one for the files. `CacheInv`:
  a runner in its merge or its match holds the lock, and from the one to the other the
  cache has the poster, unless another merge is on or it was intruded upon. `FilesInv`: runs that did not overlap
  write one at a time, each through a temporary file of its own; faults apart, the
  only poster off the row's path is the one a run is about to remove. The promise
  speaks of moments without a rename only, so it needs the state of a rename at each
  of its seven steps, which is what `FilesInv` has.
* *Bloat.* What Plex has used since the copy is followed from Plex's file into the copy,
  from it into what the run has read, and out of what it is left to deal with
  (`CopyInv`); `StartInv` does so for what it has used since the run began, where the
  run takes a copy of its own, of a Plex it found stopped or by download. `RestoreInv`: a restore has
  in hand all that is kept until one fails, so the directory is dropped only when
  nothing is left in it.

### The *arr (`ArrProofs`)

* *Searches.* `Watched` is the one unit whose search may be running at each step of a
  run: the one waited for, the row of the table, or what the run will put there.
  `Quiet` says that while no run loses track nothing else runs and every other
  download is on record, in the run's hands, or forgotten by a read that failed or a
  prune; `Kept` says where those hands are empty. `Rotated`
  needs no such excuse but for progress rows that could not be cleared: what the item
  in hand lacks, its plan and blocked albums apart, has been searched in this rotation.
* *Renames.* `NamingInv` has a part for each promise, since their excuses differ.
  `SoundInv` takes no excuse but a refresh that saved after the look: what the *arr has
  on record when the paths are read is either what was read or the truth
  (`NowKnown`), and a drifted item found where its record says is read again before
  the run believes it (`DriftedFound`, `DriftedRead`). `TagInv` holds where nothing
  failed and no user moved a folder: an item with its old name is as it was at first
  in the *arr and in everything a refresh has read, so a late save cannot undo a
  rename, and the batch's items have their new names when the commands have ended.
  `MoveInv` holds where no other move can follow the listing: every folder about to be
  moved goes to a name that no item has and no other wants (`RoomToMove`). That the
  plan gives this room (`PlanHasRoom`) is a fact of the plan's two rules, that a
  folder in the listing is taken and that the first who wants a free one gets it.

### The shared tables (`TableProofs`)

* *Sweeps.* `Knows` follows the films that have been there since a job's fetch through
  its steps: in hand, written, read for the sweep, never among those it removes, but
  for the rows another sync took away.
* *Links.* A plan may be old when it is written, so `MapInv` rests on the ids:
  none is given twice (`Numbered`, for the table and for every copy of it a walk
  holds), and an item not rematched has had one film wherever it is noted
  (`OneFilm`). An id in a plan thus stands for that film's item or for nothing.
* *Renames.* `HealInv` ties a key to the place its poster is in (`KeysAreSound`), as
  `poster_cache` has it outside a rescan (`CacheIsSound`), for the posters of `Old`:
  drifted, still on the Drive, not written anew by the maker, a set that only shrinks.
  The new name of whoever is about to rename is free, unless `raced` has them
  (`MovesAreSound`): every writer of that name puts them there. The run has looked at
  the status under that key (`RunSees`). A key that does not tell where an old poster
  is can only come from a rescan's gap; that gap and what is made anew are the
  excuses of the promise.

### Only model-checked

* The joined types `WorkTypeOK`, `ServicesTypeOK` and `ModulesTypeOK`: the types of each
  module in them are proved but `WakeUp`'s.
* Liveness under fairness, by nature: the prover has no ENABLED. These are
  `JobsSettle`, `LocksReleased`, `EventsAreWorked`, `ReloadFollowsSave`,
  `ProcessDecides`, `JobsAreStarted`, `TablesSettle`, `PostersAllArrive` and
  `RotationsGoOn`. `WakeUp` has no other promise.

Every other property that a passing run checks is a theorem.

## Findings

1. **A retry makes a second job in flight** (`retry_duplicates`).
   `reset_job_to_pending` (`worker.py:268`) does not look for another job of the
   module; the comment at `worker.py:712` promises one in flight. The later one
   finds the lock held and is recorded as a success that did not run.
2. **A cancelled run comes back** (`cancelled_requeued`). The UPDATE at
   `worker.py:240` overwrites the cancelled status when the body raises on its way
   out; `api/modules.py:1281` says that the module stops.
3. **A refused upload retry is reported as queued** (`webhook_promise`).
   `enqueue_job` answers with `success: False` and does not raise;
   `job_processor.py:356` only catches exceptions.
4. **An unattended Poster Renamerr run sweeps by rows it failed to refresh**
   (`orphan_refresh`). `modules/poster_renamerr.py:1930` drops the results of the
   sync that Poster Cleanarr heeds.

### Remarks

Seen while modelling; each is excused by name in the property it would touch, or
left out of the model.

* Webhooks: a crash between the dedup row and the enqueue (`webhooks.py:228`)
  loses the event for the TTL. A webhook job whose success cannot be written runs
  again and queues a second upload retry (`worker.py:149`), and so does one that a user
  retries after it has succeeded (`worker.py:268`).
* Ranges: a range such as 12/15-12/01 is not active on 12/01
  (`scheduler.py:85`).
* Scheduler: a run that collapses into one in flight drops its profile or block
  settings although its minute counts as fired.
* Watcher: it debounces on the leading edge (`main.py:58`), so the last of several
  quick saves is not reloaded until the next change.
* Process: a stop that arrives before `ChubScheduler.start` is undone by it. The
  lifespan's own shutdown never runs in production, where the server's thread is
  a daemon.
* Wake-up: the event is shared by both pools, whatever `worker.py:118` says; only
  the poll's timeout makes up for a signal the other pool cleared.
* Cancel: a request that fetched the event of one attempt and marks the row
  during the next leaves a cancelled row whose body was never told.
* Configuration: `seed_plex_enabled_libraries` is called without the lock
  (`connector.py:855`), against its docstring at `config.py:1548`.
* Poster Renamerr: a wipe of the cache by hand, or `sync_gdrive`'s refresh, may
  fall between a run's merge and its matching (comment at `api/system.py:1045`);
  both runners name their temporary files by the process id they share
  (comment at `poster_renamerr.py:366`).
* Upload: the source is hashed when it is uploaded, not when it is staged
  (`upload_posters.py:829`): a source that changed in between is recorded as uploaded,
  and the scheduled run skips it until it changes again or a webhook comes. The record
  holds bare library names for all servers (`upload_posters.py:923`,
  `poster_renamerr.py:903`). With a "Movies" on two servers, the first server's upload
  makes the second's "File unchanged", for this poster and for every later one, and
  the scheduled run skips the movie for good; so does one refused upload beside a
  good one for two copies in one library. The comment at `upload_posters.py:773`
  says "every library gets the poster", and that at `poster_renamerr.py:945` that
  a partial failure re-flows into the backfill "instead of being skipped
  forever". Only a webhook's run asks Plex for copies without any upload, and it
  too leaves a copy with an older one. The checked promise is
  therefore per name.
* Upgradinatorr: an artist with a blocked album is tagged when the others are
  done, although the comment near `upgradinatorr.py:1959` calls blocked work
  deferred; a first album that always fails uses up each run's budget. Where the
  history cannot be read before or after a search, its download is not captured
  (`upgradinatorr.py:605`), yet the search's row is cleared (`upgradinatorr.py:1692`):
  unless the queue still shows the download, its outcome is never reported. The comment at
  `upgradinatorr.py:67` calls the prune at two weeks a backstop that "deletes one
  whose settle kept failing"; since it comes before the read (`upgradinatorr.py:645`) it
  also deletes a grab that no run has reported because none came, or none could
  read the history, in the second week.
* Media cache: an older, overlapping sync may delete rows a newer sweep relies on;
  an emptied *arr or Plex library is never pruned.
* Plex mapping: an item rematched to another film keeps its old mapping
  (`connector.py:938`); a library that fails is only logged and its server
  still stamped as synced.
* Self-heal: a run during Poster Renamerr's rebuild finds no local row, takes the
  poster for a Drive-only one under its bare name, and may rename what was
  dismissed under its path. The listing before a rename is outside the folder's lock:
  what the maker uploads, or another run or request renames, under the new name
  between the two is overwritten, although `apply.py:32` means to "refuse if a
  different file already holds the target name". A rename whose answer rclone
  loses or times out on (`gdrive_upload.py:83`) has happened and is reported as failed;
  the next attempt is refused, for the new name is taken by then. A request that read its row
  before a dismissal
  overwrites it. With auto-apply off, a local rename that failed leaves its row
  `applied`, and the drift is not shown again (`apply.py:14` says it is); nor is a
  poster the maker writes again under a name once renamed.
* Renameinatorr: an item whose rename preview could not be read counts as having
  nothing to rename and is tagged as visited (`renameinatorr.py:561`), although
  `_tag` speaks of "items a failed read kept from being checked". A folder move a
  run gave up on may run after the next run has listed the folders, onto a
  folder that is taken by then. An item whose record did not fit its file before
  the batch passes the check with the same misfit.
* Poster Cleanarr: a restore directory without a file, as a move leaves it whose
  only image had vanished, is not removed by mode restore
  (`poster_cleanarr.py:735`), although the refusal of the other modes
  (`poster_cleanarr.py:163`) names restore as a way out; only clear is one. The
  cached scan of the page outlives a cleanup job by up to five minutes, although
  `invalidate_cache` says "Call after a cleanup job mutates the filesystem.":
  only the page's own requests call it.

## Not modelled, and why

* **Maintenance and backups**: one thread, once a day; nothing else reads what it
  writes.
* **HTTP clients and rate limits**: what a caller sees of them (an answer, a
  failure, none) is in the caller's model.
* **Poster Cleanarr's stale duplicates and the page's cached scan; asset_renamerr,
  border_replacerr, unmatched_assets, labelarr, nestarr, nohl, jduparr,
  health_checkarr, plex_maintenance**: one sequential pass over a disk or a
  service each; what they do is title matching, file comparison and image work
  rather than a protocol with other actors.
* **Title matching, collections, music, previews, borders, formats, messages**:
  data that the modelled properties do not tell apart.
* **move, hardlink, symlink, dry runs and forced uploads** in the poster modules.
* **The CL2K maker's rendering and the frontend**: image work; calls to the API.

The modelled components marked `partly` in `PROJECT.json` name there what of
theirs is left out.

## Plan

In order of what it would add:

1. `WakeUp` as a refinement of a queue that needs no wake-up.
2. Models of what is left out above where it meets the modelled tables: the HTTP
   clients' retries and rate limits under a module's request, Poster Cleanarr's stale
   duplicates beside a rename.
