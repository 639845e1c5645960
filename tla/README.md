# Specifications of the GTFS worker

TLA+ specifications of the GTFS importer (`importer/`), of the workflow that runs it, and
of the endpoints of the Cloudflare worker (`worker/`), the TLC configurations that check
them, and proofs for TLAPS. Paths are relative to the repository root.

## 1. The system

The importer runs twice a day. It downloads one GTFS feed per provider, and upserts the
rows of its CSV files into the provider's D1 database. D1's free tier allows 100,000 row
writes per UTC day and account, so no run can assume that it finishes; every run leases
writes from a ledger, stops when they are used up, and leaves checkpoints behind. The
worker serves the tables; it stores nothing except calculated departures, and leaves copies
of its slow answers in Cloudflare's cache.

| Component | State | Operations | What makes it correct |
|---|---|---|---|
| Write budget (`d1.rs`) | `remaining`, `in_flight`, waiting tasks | `reserve`, `settle`, `finish`, `consume_all`, `Drop` | capacity is neither created nor lost; a refusal is final; no wakeup is lost |
| Daily ledger (`d1.rs`, migration `20260912`) | the row of `daily_import_budget`; the lease of a run | `acquire_daily_budget`, `release_daily_budget`, the window checks | the daily limit holds whatever is lost or delayed; clean runs waste nothing |
| File import (`processor.rs`) | the producer's position, channel, groups, statuses, the row of `import_progress` | `process_csv_file`, `extract_and_batch_csv`, `upload_batches`, `flush_group` | the checkpoint never passes a missing row; what is declared complete has every row the database keeps; it always ends |
| Provider sync (`processor.rs`, `d1.rs`) | `import_progress`, `dataset_versions`, the downloaded feed | `prepare_provider`, `download_feed`, `process_prepared_provider` | neither table claims what the data tables do not hold; the last feed arrives in the end |
| Waves (`main.rs`) | pending providers, the remaining row budget | `fair_row_limits`, the wave loop | the loop ends; allocations are respected |
| Rotation (`processor.rs`, `run_importer.yml`) | the account's databases; `providers.toml` in the runner and on the main branch; the databases the deployed worker queries | `rotate_database_if_needed`, `persist_database_id`; commit, push, deployment | no database is lost from view; the account limit holds; what is named is usable |
| Temporary storage (`processor.rs`) | `used_bytes` | `reserve`, `release`, `Drop` of a feed | the limit holds; what is removed, and only that, is given back |
| Departure cache (`worker/src/departures`) | the row of `departure_cache`; requests in progress | `calculate`, `feed_state`, `read`, `load`, `write` | a hit is what a calculation on the current tables gives |
| Departure schedule (`schedule.rs`) | none | `next_departures`, `Entry::select` | agrees with the definition of a service day; a hit equals a fresh calculation |
| Status and map (`status/mod.rs`, `map/mod.rs`) | entries of the edge's cache; requests in progress | `handle`: look up, query, answer, store afterwards | an answer is the caller's own, whole, and as recent as its max-age says |
| Data (`data/mod.rs`) | none | `parse_filter_items`, `parse_range_part`, `handle` | the rows are those that the URL means |
| SQL, routing, configuration, build scripts, migrations, deployment | none at run time | | |

Interaction: `main` leases from the ledger and creates the two budgets of the run (data
and metadata); providers, files and groups of statements are concurrent Tokio tasks that
share these budgets, the row allocation of their provider and the permits of their
database; the producer of each file is a blocking thread that feeds an uploader through
a channel of capacity two. The worker shares only the database with the importer. The
departures learn of imports from `import_progress`; `/status` and `/map` do not, and rely
on the age of what they cached.

What is hard: tasks that wait for capacity others hold; requests applied out of order,
late, or without an answer; a process that may be killed after any step (10-minute job
timeout); midnight; feeds that change, lose files and get them back while an import is
incomplete; readers that query the tables one by one while they are rewritten; answers
that are cached after a newer one; values that contain the separators of their notation.
`PROJECT.json` lists these hazards at their lines.

## 2. Modules

```
Sums ── WriteBudget ─────────── BudgetProofs ── SumTheorems
   ├─── DailyLedger ─────────── BudgetProofs ── SumTheorems
   │       └ implements DailyQuota
   └─── Workflow ────────────── MCWorkflow, WorkflowProofs ── SumTheorems
        FileImport ──────────── FileImportProofs ── SumTheorems
           └ implements ResumableFile
        ProviderSync ────────── MCProviderSync, ProviderSyncProofs
           └ built on what ResumableFile promises
        Rotation ────────────── MCRotation, RotationProofs
        DepartureCache ──────── MCDepartureCache, DepartureProofs
        Schedule ────────────── MCSchedule, DepartureProofs ── SumTheorems
        DataQuery ── Endpoints ─ MCEndpoints, EndpointsProofs
```

- **WriteBudget** — one budget and the tasks that share it. `Enable`, `Grant`/`Refuse`/
  `MustWait`, `Poll`, `Wake` are the steps of the loop in `reserve()`; the mutex makes the
  check atomic, and everything between two awaits or lock operations that others can
  observe is a step. `Settle` and `NotifyWaiters` are the two halves of `settle()`, which
  notifies after it has unlocked. `finish`, `consume_all` and `Drop` are `Settle` with the
  reported writes or the whole reservation.
- **DailyLedger** — the ledger row, and overlapping runs. Every request is sent, applied
  and answered in separate steps, any of which may not happen. `ambiguous` and `Joined`
  are main's rule for releasing: no failed file, nothing in flight. The clock has three
  phases per day: before 23:58, the last two minutes (no new data reservation), the last
  minute (no request). Each run has one outstanding request per budget; WriteBudget has
  the concurrency within one budget.
- **DailyQuota** — the abstract promise: at most `Limit` rows are written per day.
- **FileImport** — one file over runs and waves: producer (`OpenFile` … `SendFails`),
  uploader (`Receive`, `SpawnGroup`, `SpawnRest`, `JoinGroup`), group tasks (`TakePermit`
  … `FinishGroup`, `FailGroup`, `PanicGroup`) and the end of `process_csv_file`
  (`Conclude` … `FailSave`). Rows are numbers; a checkpoint is a line and a byte offset,
  counted in records. A payload limit shows as a row that may or may not fill or overflow
  its statement. Other files of the run appear as `OthersClaim` and `OthersSpend`. A file
  is given with its header, which has a column of the table or none (`matched`), and with
  an empty row of `import_progress` or one that an earlier version saved, which has a line
  and no byte offset (migration `20260830`). `OpenFile` has the four ways on from there:
  no rows are left to claim; no column matches, so that the file is complete as it is
  (`processor.rs:351`); it resumes at the byte; it reads the header and as many records as
  the line says, and would be complete if it ended among them (`processor.rs:388`), which
  the invariant excludes for as long as the file has the CRC of the checkpoint. The
  message with the SQL that precedes the statements in the channel is left out.
- **ResumableFile** — what importing a file promises: rows only arrive, the mark only
  moves forward and never past a missing row, and a complete file has every row that is
  wanted, which is all of them or none. ProviderSync is built on it.
- **ProviderSync** — one provider while the origin publishes a given sequence of feeds:
  the conditional GET, the unconditional one after a 304, the plan from CRCs, the batch
  that starts files, waves, the version at the end. A file is a few parts that arrive in
  any order.
- **DepartureCache** — requests for one stop and an importer that rewrites the tables.
  A table's content is the feed that wrote it last together with those whose rows may
  still be there, since imports delete nothing. The result of a calculation is what its
  queries read. A row may expire at any time.

- **Schedule** — `next_departures`, and the entry that later requests are answered from,
  as arithmetic: service days and their origin, exceptions, the dates searched, the first
  run of a window, deduplication, truncation, `Entry::select`. Instants are half seconds,
  since requests are not in whole seconds and the timetable is. The feed is fixed; its
  changes are DepartureCache's. `Timetable` is the reference: every run of every service
  day, without any of the bounds of the search.
- **Workflow** — one run of `main`: preparation, waves, and the tasks of providers and
  files, seen from what they share. A row is committed in one step, because FileImport
  has the pipeline; a file that waits for its checkpoint is one whose action is disabled,
  because WriteBudget has the waiting. What preparation leaves of the metadata budget, and
  the size of the lease, are chosen at the start.
- **Rotation** — the providers that one run prepares, from the reported size to the
  deletion of a database that cannot be used, with one step per request to Cloudflare; and
  the steps of the workflow afterwards. The importer may die anywhere and the commit step
  still runs (`always()`); the runner may die too, with its working directory. `Archive` is
  the operator who deletes retired databases. `lost` collects what a fault takes out of
  sight, so that the invariants can say that nothing else is.
- **DataQuery** — from the parameters of `/data` to the rows that SQLite returns: the
  escapes and lists of filters, the readings of a range, clauses and their numbered
  placeholders, the rejected columns, sorting and paging. A text is a sequence of
  characters, of which only those exist that the parsers look at.
- **Endpoints** — the requests that read what the importer writes. A request for `/status`
  or `/map` looks for an entry under its rewritten URL (`Hit`), reads one query per step
  (`Begin`, `ReadNext`, `RejectRoute`, `ReadLast`), answers, and stores its copy later
  (`Store`, `wait_until`). Tables change between any two steps and an answer is the
  versions that were read. `ServeData` puts DataQuery behind the way a client writes what
  it means (`Written`); it is refused for a provider without a database and a table without
  a schema (`Found`). `MCEndpoints` gives one workload to each behaviour: spellings of a
  provider, a route that comes and goes, tables that change under a map, or one of five
  thousand requests for `/data`.

`PROJECT.json` maps every definition to its lines.

## 3. What is checked

| Run | Bounds | Shows |
|---|---|---|
| `write_budget` | 3 tasks, 2 calls each, budget 4, sizes 2 and 3, reports up to 1 over | type and accounting invariants, `RefusalIsFinal`, `NoLostWakeup`; every call returns |
| `daily_ledger` | 2 runs, 2 days, leases of at most 6, limit 8, so that the second lease is partial | `LedgerCovers`: today's writes and live claims fit in `Reserved`; `NothingWasted`; DailyLedger implements DailyQuota |
| `file_import` | 6 rows and a blank line, any checkpoint of an earlier version, a header with or without a column, statements of 2 rows, groups of 2 statements, 1 permit, allocation 5, lease 12, 2 disturbances | `CheckpointSound`; implements ResumableFile; `EveryFileCompletes` |
| `file_import_small_lease` | lease 8, groups of 4 rows, none | violation, see 6 |
| `provider_sync` | 2 files, 2 parts; 3 feeds with 2 failures, or the first feed again after the second without any, so that a 304 meets a half imported database | `ProgressHonest`, `SkipIsSafe`, `VersionAfterFiles`, `Converges` |
| `provider_sync_withdrawn` | 2 files, 1 part, 3 feeds, 1 failure | violation, see 6 |
| `workflow` | 3 providers, 4 files, 5 rows or 1 to give, 1 permit, metadata for no or two checkpoints, a lease of 1 or 5 rows, feeds of up to 2 chunks in storage for 3, 1 failure or 1 file that cannot be removed | `RowsWithinLimit`, `WorkConserving`, `FeedsKept`, `NothingLeftRunning`; `RunEnds` |
| `rotation` | 3 providers, 6 UUIDs, account limit 4, 2 migration files, 2 faults | `WithinAccount`, `NamedUsable`, `NothingUnrecorded`, `HistoryKept`; `RunEnds` |
| `rotation_redeploy` | 4 UUIDs, account limit 5, 1 fault | violation, see 6 |
| `departure_cache` | 2 tables, 2 requests, 2 contents, 3 imports | `CachedIsCurrent`, `HitIsCurrent`, `NeverSetBack` |
| `schedule` | 181 timetables of at most 2 windows, 3 time zones, days of 6 seconds, `MAX_LIMIT` 3, limits 1 and 3, requests 1 s back to 2.5 s ahead of a clock of 5.5 s | `AnswerIsTimetable`, `EntryLasts` |
| `endpoints` | 2 requests at a time, 2 databases under 4 names, 2 routes, 2 changes of a table, max-ages of 1 and 2 ticks, a tick per request; for `/data` 4 rows, 2 columns, 6 values, lists of 2 conditions, 3 parameters | `OwnAnswer`, `Fresh`, `DataAnswer` |

Why the bounds are enough. Three tasks are one that settles, one between its check and its
await, and one that competes with it. `file_import` has one permit, the default of
`D1_DATABASE_CONCURRENCY_LIMIT`, while the workflow sets 8 (`run_importer.yml:52`): its two
groups compete for capacity and overtake each other, but hold permits one after the other.
That groups with permits wait for what each other reserved is left to `write_budget`
(`ReserveReturns`); `CheckpointSound` and the refinement are proved for any number of
permits. A group that is refused leaves a gap before rows that are there, and the next
runs close it because those rows cost nothing when they are sent again
(`RowsWritten`). Two runs and days give overlap, a partial second
lease and a release after midnight. Six rows with groups of four give two groups that
overtake each other, a gap between them and a partial last statement; allocation 5 ends
inside a statement and one row before the end; the blank line separates the end of the
records from the end of the file. The feeds of `provider_sync` have a file that changes
and changes back, one that disappears and returns, and a feed without an ETag. Three
imports of two contents are what it takes for a CRC to return with leftovers of another.
In `workflow` a provider with two files makes a file wait while another holds the permit,
five rows for seven make shares uneven and one wave insufficient, and a third provider
makes the division have a remainder. Storage for three chunks lets all three feeds in if
they are small, and otherwise refuses one; one row is too few for two providers. A limit
of four databases for three providers lets two rotations meet at the limit, and six UUIDs
let a provider rotate again in a later run. The days of `schedule` are short, so that
windows run past midnight and over two days; time zones change by a second, as a clock
change is a fraction of a day; with a `MAX_LIMIT` of three the timetables with a dense
window are truncated, and those with a single run are not. In `endpoints` two requests are
one that read before a change and one that read after it, in either order of storing; two
changes let a route appear and disappear, or two tables change around a map's queries. The
values of `/data` hold commas, `@`, a backslash before a comma, upper and lower case, and
nothing at all; ranges have dates or times on both sides, or one side open.

Fairness. WriteBudget: each step of a task is weakly fair, since Tokio polls tasks that
are ready, and every request ends by its 35 s timeout; that a call is made is not assumed.
FileImport: producer, uploader, groups and conductor are each weakly fair, and another run
is started after one has ended (the schedule); disturbances are never forced and are
finite in number. ProviderSync: the same for runs, and requests nobody awaits land or are
dropped. Workflow: each task and `main` are weakly fair; failures are never forced.
Rotation: each provider's task, and the steps of the workflow, which is scheduled daily.
No strong fairness is used. DailyLedger, DepartureCache, Schedule and Endpoints state safety only.

Deadlock is checked except in `daily_ledger`, where the bounded days end, and in
`workflow`, where the work does; its liveness property says what must be reached before.

Every property has a mutant in the module it belongs to (`… Mutation for …`), a plausible
bug under which the same run finds the property violated.

## 4. What is proved

For all values of the constants, by TLAPS:

- `BudgetProofs`, of WriteBudget: `BudgetTypeCorrect`, `AccountingHolds`,
  `RefusalIsFinalHolds`, `NoLostWakeupHolds`. The invariant adds that `in_flight` is the number of live
  reservations and that only those hold capacity, and states the reason for waiting from
  the failed check on rather than from the suspension: between the two the mutex is free.
- `BudgetProofs`, of DailyLedger: `TypeCorrect`, `LedgerCoversHolds`, `MeetsQuotaHolds`,
  `NothingWastedHolds`. The invariant of the first three is `LedgerCovers` with `Support`:
  the ledger's day and the runs' lease days do not lie in the future, what can still be
  written belongs to today, and nothing is held before a lease is granted. Each step
  changes one run's claim and the sum of the others is unchanged (`SumTheorems`). The
  refinement follows step by step: written rows grow only on the current day and stay
  below `Reserved`, hence below the limit. `NothingWasted` is an equality where
  `LedgerCovers` is an inequality, and speaks of returned leases only. What makes it
  inductive is that the ledger is exact (`Exact`) for as long as every run of today may
  still give back all that it does not write (`Clean`): a run loses that with an ambiguous
  request, with its end, and with the final minute.
- `FileImportProofs`: `TypeCorrect`, `CheckpointSoundHolds`, `ResumableHolds`. The
  invariant follows the data: every statement that is cut starts and ends where a row does
  (`ProducerSound`) and stays what it is in the channel and in the groups (`InFlight`); the
  rows of a group that D1 has applied are in the table (`GroupsSound`), hence those of a
  statement whose status is success (`StatusesSound`); hence what is to be saved and what
  is saved have every earlier row in the table (`OutcomeSound`, `SavedSound`). The step from
  statuses to a checkpoint is the walk of `contiguous_committed_checkpoint`, a least fixed
  point: `WalkReaches` exhibits a closed set of checkpoints with every earlier row in the
  table. None of this depends on the order in which groups end, or on statements being
  disjoint. A file is done only at its last row, unless its header has no column of the
  table (`Exhausts`); that a checkpoint without a byte offset is not past the end
  (`Resumes`) is why reading its records again does not end the file. `ResumableHolds` maps every step to a step of ResumableFile or to a stutter.
- `ProviderSyncProofs`: `TypeCorrect`, `ProgressIsHonest`, `VersionComesAfterFiles`,
  `SkippingIsSafe`, `SkipIsSafeHolds`. `ProgressHonest` says what the rows of
  `import_progress` claim; to be inductive it needs what the run knows when it writes them:
  the checkpoints in memory belong to the content at hand (`Planned`, `InWave`), files that
  are not imported are complete (`OthersDone`), and a request that nobody awaits carries the
  content its file's row already names (`LateContent`). `SkippingIsSafe` is `SkipIsSafe`
  under `SkipCondition`: a tag that returns has had no other content in between, or every
  feed has a tag of its own content and nothing failed. Without it the theorem is false, as
  `provider_sync_withdrawn` shows. `SkipIsSafeHolds` is `SkipIsSafe` itself, for histories
  and failures of which the constants guarantee that condition (`NothingWithdrawn`); those
  of `provider_sync` do.
- `WorkflowProofs`: `TypeCorrect`, `RowsWithinLimitHolds`, `WorkConservingHolds`,
  `FeedsKeptHolds`, `NothingLeftRunningHolds`, for any number of providers and files. The
  shares of `fair_row_limits` add up to exactly what is divided (`FairSum`, by the partial
  sums `Given`), so the limits of a wave add up to its budget and what ends a wave is never
  negative. `WorkConserving` speaks of the end only; what carries it through the waves is
  `Serving`: between waves either everybody was served, or nobody yet and there is a row
  for each. That a provider whose task ends was served is the hard case, and rests on
  `FilesShape`: a file that stopped before its rows did has a saved row or found every row
  claimed, and a claimed row is still counted, was saved, or left a refusal or a failure
  behind. `FeedsKept` needs that what a drop takes from the counter and what it leaves
  behind add up to the feeds dropped (`DropKeeps`), and `NothingLeftRunning` that `held` is
  the number of files with a reservation.
- `DepartureProofs`, of DepartureCache: `TypeCorrect`, `CachedIsCurrentHolds`, `HitIsCurrentHolds`,
  `NeverSetBackHolds`. The invariant says of everything read under a revision, file by
  file, that the row of `import_progress` is unchanged and the content is still the
  table's, or that the row has a later date (`Fresh`). Every importer step preserves that
  because tables change only while their row is incomplete, and a revision that was kept
  has complete rows only. `Agreed` is needed for hits of rows that have become stale since.
- `DepartureProofs`, of Schedule: `AnswerIsTimetableHolds`, `EntryLastsHolds`, for any
  timetable, any days and time zones, any limits and any instants of requests. Two things
  have to be shown. The search loses nothing: a service day begins within a day of its
  date, so the day before the earliest and the day after the latest departure are far
  enough (`SearchedDatesAre`), and the first run is the first that is due (`FirstRunIs`).
  And truncating early loses nothing: lists are compared by the number of different keys
  that come before a departure. A merge with limit `n` keeps the departures, one per key,
  that have fewer than `n` before them (`MergedIs`); so a list may lack what has `n` before
  it among the rest, and merge alike (`MergedOfSome`). That holds of the runs that a
  template's limit leaves out (`RunsOfTemplate`), of templates merged one after another
  (`NextDeparturesAre`, by a least counterexample), and of what a cached calculation lacks
  in the window of a later request, unless `CutShort` says so (`WindowMerged`). Waits have
  no part in the order, so that a request may replace them (`RewaitedMerged`). The
  invariant then only has to say that the entry is what some request calculated from the
  feed; that a calculation is never cut short for its own request is `OwnIsSelectable`.
- `EndpointsProofs`: `TypeCorrect`, `OwnAnswerHolds`, `FreshHolds`, for any number of
  concurrent requests, providers, spellings and max-ages, and any schedule of the importer.
  `Fresh` speaks of answers only. What makes it inductive is how far a table may have moved
  on since a query read it: by no more ticks than the request has taken (`Served`), and by
  no more than the age of the entry on top of a whole request (`Stored`). For `OwnAnswer`
  the entry at a URL is the answer to one request with that URL, and `SameKey` shows that
  the answers of all of them are interchangeable.
- `RotationProofs`: `TypeCorrect`, `WithinAccountHolds`, `NamedUsableHolds`,
  `NothingUnrecordedHolds`, `HistoryKeptHolds`. Three facts carry the induction: only the
  holder of the lock is between counting and returning, so the count it took is still an
  upper bound when it creates; a new database is fresh, that is, in no file and of no other
  task, so that naming or deleting it disturbs nothing; and the working directory is ahead
  of the main branch by at most one rotation per provider, whose old database it records
  as retired, so that a push forgets nothing. `HistoryKept` follows from the last, and
  `NamedUsable` from the last two with the operator deleting only what the main branch has
  retired.
- `SumTheorems`: lemmas about sums over `1..n`, by arguments about a least counterexample.

Every inductive invariant, but for the types of its data, was first an invariant of its
module's run, with the constants of that run, and holds in every state TLC reached.

Assumptions: the named `ASSUME` of each module. Most only type the constants.
FileImport and Workflow also assume what `config.rs` checks before a run (`RequestFits`,
`LargestFeedFits`), DepartureCache that there is a table, and Endpoints that a binding is named
after the provider whatever the case of its letters. Schedule assumes of time zones that
days follow each other and that two days together are at least 24 hours long, of limits
that `MAX_LIMIT` is the largest, and of `Days` that it has the days around every search of
the feeds (`Searchable`); all integers would do. TLC evaluates the assumptions in the runs.

Only model-checked: `DataAnswer` of Endpoints, and all liveness (`ReserveReturns`,
`EveryFileCompletes`, `Converges`, `RunEnds` of both modules). Liveness under fairness is
out of the prover's reach. `DataAnswer` rests on DataQuery, which escapes, splits and
compiles texts by folds: what those return for every text is an induction over an operator
that folds take as parameter, and would need a proof of its own for each of them.

## 5. What the models assume

- A D1 batch is one transaction, and reports rows written; it may report more than was
  reserved (WriteBudget), or nothing at all.
- The runner's clock and D1's agree on the day (DailyLedger); requests land within a
  minute. Leases requested just before midnight may be applied after it.
- In ProviderSync and DepartureCache runs do not overlap (concurrency group of
  `run_importer.yml`), and what an earlier run sent has landed when the next one starts.
- A CRC identifies the content of a file. In FileImport the columns of the table are those
  compiled into the importer and do not change: a file that was complete because none of
  them matched is not imported when a later version adds one, until its CRC changes.
- The contents that ProviderSync tells apart are of files with a matching column; any other
  file is complete at once, with nothing in the tables, and is FileImport's.
- In Rotation a request to create or delete a database is executed before its connection
  breaks, or never; and no other program creates databases in the account. A run starts
  from the head of the main branch. `actions/checkout` takes the commit of the run's event,
  which is older if the run was dispatched while another one worked and had to wait for it:
  such a run is not modelled, only the refusal of its push (`FailPush`).
- `EntryLasts` speaks of the instants requested, up to `Ttl` after the one an entry was
  calculated for. The row itself expires `Ttl` after it is written, which DepartureCache
  has as expiry at any time.
- In Schedule a trip stops once per `stop_sequence`, the key of `stop_times`, and the
  clocks of a time zone do not jump over a whole day.
- In DepartureCache two imports of a file do not begin within the same second: `UpdatedAt`
  has that resolution and is all that tells feeds with equal CRCs apart.

- In Endpoints Cloudflare's cache serves an entry for at most its max-age; a request takes
  at most a tick from its first query to its last write (workers are limited to 30 s after
  the answer), and bindings do not change. Columns of `/data` are TEXT, the two bounds of a
  range have equally many colons (`a:b:c` is refused, and a date with a time of another
  form may be split elsewhere), and values have no `%` or `_`, which LIKE reads as
  wildcards.

## 6. Disagreements found

- **Two or three writes per row.** The code reserves three writes per row
  (`processor.rs:25`). `README.md:201` says two, `README.md:205` derives 49,499 rows from
  it, and `config.rs:118-126` accepts a lease that covers a group at two writes per row.
  With such a lease no group is ever admitted and no file with rows to import completes
  (`file_import_small_lease`); with 12 instead of 8 the same run passes.
- **Skipping a feed that is not there.** If the version of a complete import is not
  recorded, and the origin then serves the previous feed again, the 304 to the old ETag
  makes `download_feed` skip the provider although the tables hold the other feed
  (`provider_sync_withdrawn`): the check asks only that every row of `import_progress` is
  complete.
- **Redeploying a rotation.** The workflow's step "Auto-Commit and Redeploy on Rotation"
  (`run_importer.yml:66`) pushes before it deploys, and decides by `git diff`. If the
  deployment fails, the next run sees no difference and does not deploy: the importer
  fills the new database and the worker queries the retired one (`rotation_redeploy`).

Differences between documents and code that need no run: `README.md:283` says that a map
"is cached for five minutes" and that a request without `route_id` returns the whole
network, where `map/mod.rs` sends `max-age=86400` (line 238) and answers 400 (line 81);
`README.md` names `MAX_ROWS` the limit of `/data` and `/sql`, `lib.rs:19` reads
`WORKER_SQL_MAX_ROWS`. An empty `include=` makes a SELECT without columns, which D1
refuses (status 500 in `Status`).

Known and not stated as a property: `/map` may put a route's shapes and stops together from
before and after an import and keep them for a day; `Fresh` bounds their age only. A file that is half imported and then disappears from
the feed keeps its provider incomplete for ever, so that departures bypass their cache and every 304
is followed by a download; rows that a feed drops stay in the tables (`README.md:209`).

## 7. Plan

Done, in this order: WriteBudget, DailyLedger, FileImport, ProviderSync, DepartureCache,
Schedule, Workflow, Rotation, DataQuery and Endpoints, and the proofs of section 4: every
safety property of the runs that pass is a theorem, except `DataAnswer`. Next would be a
round trip for DataQuery: that `ParseFilterItems` gives back the items of what `Written`
makes of a list of conditions, with the folds rewritten as recursive functions.

## 8. Not modelled

`/sql` passes one SELECT to D1 and keeps nothing. GeoJSON is made of rows in one pass.
Retries (`execute_query_body`) apply to SELECTs only, give back their permit before they
wait, and delay a read; requests that write are sent once, which the models rely on. Of the
configuration the checks that relate two settings are assumptions of the models; reading
the environment, generating schemas, migrations and the deployment scripts are sequential
and keep no state.
