# Formal models of DriverDNA

DriverDNA imports a driver's telemetry laps, measures them against a frozen
map of the track's corners, and derives from the measurements what to tell the
driver. This directory models the parts of it that keep state and that run
concurrently or may be interrupted: TLA+ modules, TLC configurations, and
theorems checked by TLAPS. Source paths below are relative to
`src/driverdna/` unless they begin with `ui/src/` or `docs/`.

Run from this directory:

    tlc -workers 2 -config MCEras.cfg MCEras      # any cfg with its module
    tlapm ErasProofs.tla

## 1. The system

One SQLite or PostgreSQL store holds every account's rows; every row carries
its owner. Raw traces lie beside it as files. The server opens a connection
per request or per background thread; commands open their own. There is no
lock above the store's transactions, so each operation that is more than one
transaction interleaves with every other one.

| Component | State | Operations | What makes it correct |
|---|---|---|---|
| Era partition (`coaching/eras.py`) | `tendency_eras`, `tendency_era_laps`, `driver_tendency_settings` | `refresh_eras`, `set_era_size` | a lap is in one era; closed eras are full, frozen, and summarised from their own laps |
| Tendency projection (`coaching/eras.py`) | `driver_tendencies` | `refresh_tendencies`, `read_tendencies` | the state is what the eras say; history (`first_seen_era`) is kept |
| Lap and trace store (`db.py`, `blobs.py`, `pipeline.py`) | `laps`, `lap_samples_legacy`, `<lap_pk>.npz`, `<lap_pk>.evicted` | `import_lap`, `enforce_retention`, `drain_legacy_blobs`, `backfill_blobs` | nothing counted twice; a trace is that of its lap; only old traces go |
| Driver payload (`ui/api.py`, `db.py`, `ui/src/useDriverPayload.js`) | `driver_payload_cache`, the page's `_cache`, hook state | `GET /api/driver`, invalidation, mount, unmount | one request at a time, no stale answer taken for a new one, loading ends |
| Import pipeline, corner maps (`pipeline.py`, `corners/`, `db.py`) | corner maps, windows, observations, phase times, classes, candidates | `import_parsed_lap`, `rebuild_cohort_map`, admission | a map is decided by the driver's own laps; a rebuild repairs what a crash left; an observation keeps its corner |
| Garage61 sync (`garage61/`, `ui/api.py`) | `garage61_tokens`, `garage61_sync_state`, `laps` | `sync_driver`, `POST /api/sync`, uploads beside it | nobody else's laps; nothing that was due is missed; nothing is stored twice; a sync ends |
| Configuration (`config.py`) | the TOML file, `config_history` | `propose`, `apply`, `revert` | the history explains the file, and a change keeps what it explains |
| Chat (`chat/session.py`, `ui/api.py`, `ui/src/views/chat.jsx`) | live sessions, staged proposals, the page | `ask_stream`, staging, confirmation by position, eviction, restart | what is applied is what was shown, once; a turn ends |
| Accounts (`ui/auth.py`, `ui/api.py`) | `users`, `garage61_tokens`, `password_resets`, cookies, the throttle | registration, three sign-ins, link, disconnect, reset, log-out | an account per address; one live session per account; a reset spends the links of before |
| Attribution (`attribution/`, queries of `db.py`) | none: a computation over the corpus | baselines, findings against self, principle and reference, cumulative loss | own laps only, of the scope asked for; excluded references do not count |
| Driver model (`model/`) | none | component scores, confidence, trend, history, reading | missing evidence neither lowers nor lifts a score; chart and trend agree |
| Coaching (`coaching/engine.py`, `ontology.py`, `rollup.py`, `payload.py`) | none | gates, bands, faults, strengths, selection, rollup | never praise and blame for the same thing; one voice per piece of evidence |
| Detectors (`metrics/detectors.py`) and thresholds (`config.py`) | none | the verdicts of a corner | no verdict without its input |
| Ingest, metrics, segmentation, incidents, reports, migrations | none of their own | numerical and textual code | section 7 |

How they interact. An upload, a sync or a command imports laps (`import_lap`,
then measuring) and then enforces retention. `GET /api/driver` looks in its
cache and otherwise starts a thread; the thread builds the payload, and in
doing so refreshes the eras and then the projection. The chat applies
configuration changes, which move the gates that decide what an open era
shows. The page asks for the payload, and drops what it has when it uploads,
syncs or is signed out. What is imported becomes the corpus from which
attribution, the driver model and coaching are computed anew at each reading;
an era's facts are coaching's over the laps of the era.

What is hard. The reads of `refresh_eras` come before its transaction. A lap's
row, its trace and its measurements are committed one after another. Two
caches stand one in front of the other and are invalidated at different
moments. A map is rebuilt corner by corner while laps are measured against
it. Garage61's pages move while they are read. A page confirms proposals by
their position. Sign-in looks an account up in one transaction and inserts it
in another. Faults and strengths are decided by two pieces of code that must be
complements, and four pages present them. Every worker may die between two
steps. The list with source lines is
`hazards` in `PROJECT.json`; a hazard without a property has a note.

## 2. Modules

| Module | What it is |
|---|---|
| `EraBlocks` | abstract specification: dated laps cut into append-only blocks |
| `Eras` | `refresh_eras` step by step, with the rest of the program beside it |
| `*Proofs` | inductive invariants and theorems of `Eras`, `LapStore`, `CornerMap`, `Sync`, `Chat` (with `ConfigStore`), `Tendency` and `Coaching` (with what it extends); `ServerProofs` has those of `Accounts` and `DriverPayload`: section 5 |
| `Tendency` | `refresh_tendencies` for one principle, and the state partitions |
| `LapStore` | rows, traces, tombstones and legacy traces of one account |
| `DriverPayload` | server cache, request threads, page cache, hook |
| `Stats` | median, order statistics, distance |
| `CornerMap` | importing and measuring laps, rebuilding the map of a cohort, admission, classes |
| `Sync` | syncs of several accounts against Garage61 |
| `ConfigStore` | the configuration file and its history |
| `Chat` | extends `ConfigStore`: sessions, turns, staged proposals, the page |
| `Accounts` | accounts, sessions, links, the throttle |
| `Taxonomy` | static tables: metrics, techniques, fundamentals, principles and their gates |
| `Thresholds` | defaults of `config.py`, the thresholds in force, the detectors |
| `Attribution` | extends `Thresholds`: the corpus, its queries, baselines and findings |
| `Scoring` | extends `Attribution`: scores, confidence, trend, history, reading |
| `Coaching` | extends `Scoring`: gates, faults, strengths, presentation; the corpus that grows |
| `MC*` | constants for TLC that a `.cfg` cannot write |

Mutant definitions stand directly before the definition they vary and no
specification uses them; a comment says what would be wrong with the code.

`DriverPayload` names its actions, invariants and specification with a prefix
(`PayloadInit`, `PayloadNext`, `PayloadSpec`, ...) so that one module can extend
it together with `Accounts`: the two are the server's, and share their proofs'
module.

### Eras

State and code: `date[l]` and `measured` are the rows of `laps` and whether
their observations are stored; `eras` is `tendency_eras` joined with
`tendency_era_laps` as committed, and `work` the same inside an open
transaction; `writer` holds the store's write lock. `sizeRead`, `todo`,
`openEra`, `nextEra`, `count`, `known` are the local variables `setting_size`,
`unassigned`, `open_era`, `next_index`, `counts[...]` and `lap_cohorts`.

`ReadSetting`, `ReadDated`, `ReadAssigned`, `ReadRows` are the SELECTs before
the transaction, each against the store of that moment. (The rows and their
lap counts are one step: they are one pair of SELECTs, and nothing but another
refresh writes either.) `Begin` enters the transaction; `OpenEra`, `PlaceLap`
and `CloseEra` are the branches of the loop; `Commit` publishes; `Backfill` is
the second transaction. `Raise` is what the store refuses: a lock that another
refresh holds for too long (`LockTimeout`) and a primary key that another
refresh has taken (`KeyConflict`). `Fail` is a crash or an exception anywhere.
`StoreLap`, `MeasureLap` and `SetEraSize` are the rest of the program; a
refresh reads whatever laps are stored, measured or not, and a lap whose import
died stays unmeasured. `EraBlocks` sees `Cuts(eras)`: the committed eras without
their summaries. `stale` and `ready` are history: whom a commit has overtaken
since he read, and which laps were measured when a refresh read their cohorts.

One constant names an assumption rather than a bound. `Overlap = FALSE`: no two
refreshes of a driver run at once, which the code does not ensure. The stated
rules of the partition are checked with it and without it. What fails without
it (`LapsInOneEra`) is shown by `MCErasRace.cfg`, and what holds all the same is
`LapsPlacedOnce`, `SummariesComplete` and `RefreshTerminates`.

### Tendency

One principle. `closed` and `open` are the facts (band, strength, whether the
gates could run) of the eras; `EraRecord` is what a summary and
`_records_from_principles` make of them; `FaultState` and `StrengthState` are
the two partitions with their strip, streak, trend and share steps. A refresh
is `ListEras`, `ComputeOpen`, `ReadStored`, `Upsert`. When another refresh has
closed the era that a refresher still holds as open, with more laps, what it
computes from the laps it listed is any of the facts. Any number of refreshers
overlap. `overtaken` and `latest` are history: who has read rows that another
has written since, and who wrote last.

`Scan` is a reference definition: what a reader who passes over the eras once,
forward, would remember. `PartitionIsForward` compares it with the code's
stripping and counting back on every sequence of eras of up to `MaxEras`.

### LapStore

`rows`, `blobs`, `tombs`, `legacy` are the table and the three places a trace
or its absence is recorded. Every storage call is an action. `CheckSource`,
`CheckContent`, `InsertRow`, `PutBlob`, `Measure` are an import; `ListHeld`,
`RankHeld`, `EvictBlob`, `MarkEvicted`, `ForgetLegacy`, `EvictDone` enforce
retention; `ListLegacy`, `DrainOne`, `DropLegacy` drain; `ListNeedy`,
`Restore`, `RestoreDone` restore from CSV files. A trace is its content
fingerprint, so "the trace of its lap" is an equality. Any two operations may
overlap; `overtaken` is history, the imports that have looked for a duplicate
and whose telemetry another import has stored since. `Past` is what the
account holds at the start: laps by an older release with legacy traces, laps
copied from another machine without traces.

### DriverPayload

A payload is the number of changes committed when it was computed. `Lookup`,
`Build`, `Store`, `BuildFails` are the request's thread; `SyncEnd` deletes the
cached row, `SyncFail` and `Change` do not. `Invalidate`, `Mount`, `Render`,
`ShowCached`, `AwaitRequest`, `Request`, `Resolve`, `Reject`, `Unmount` are
`useDriverPayload.js`; `begun[r].gen` is the generation the closure of a
request captured, `begun[r].real` the generation of the cache at that moment.

`Prompt = TRUE` assumes that the effects of a render run before the next
event the page handles. React runs them soon after the render, and at once for
renders caused by clicks, but does not promise it for others. Without the
assumption `LoadingEnds` does not hold: an invalidation between a render and
its effects makes the effect begin a request with the old generation, whose
answer is dropped at line 64 and whose promise is never reset, so later effects
wait for it for ever.

### CornerMap

One cohort. `laps`, `raw` and `evicted` say which laps are stored and whose
trace is here, removed or unavailable; `map` is the frozen map with the
windows and class of each corner; `obs` are the observations with their phase
times, each recorded as the window it was measured across. A place on the
track is one of `Round` integers on a circle: `Forward` is the way from one to
another, by which a window is inverted or not and by which a corner ends where
the car comes first, and a lap has a trace from `first` to `last`, so that a
phase outside it has no time and what was stored of it stays (`TimeAt`,
`Timed`). `job[w]` is a worker's local state, and its `pc` names
the store call it makes next: an import runs `ImportLap`, `LoadMap` or
`BuildMap` and `FreezeWindows`, `LoadWindows`, `Observe` and `Measure` span by
span, then `ReadCandidates`, `Admit`, `FreezeAdmitted` and `Reclassify`; a
rebuild runs `Rebuild` (with the check of unavailable traces), then per corner
`ListObservations`, window and `Remeasure`, and `NextCorner`. `Fail` may end
either at any of these. `solo` remembers that nobody else worked meanwhile and
no trace went, which is what "undisturbed" means in the properties. The
matching, clustering, windows and hysteresis of `corners/` and
`attribution/engine.py` are operators. A cluster is a set of observation
numbers and a family of spans a function from them: the clustering goes through
the numbers in order, as the code goes through its rows, so that neither
operator needs a recursive declaration and both can be proved about.

### Sync

`cloud` is what Garage61 publishes and in what condition; `token`, `rows` and
`states` are the tables. `job[w]` is the generator of one sync. Listings are
newest first and read a page at a time, so a lap published in between moves
rows from page to page; what a sync has listed is a set of rows, each with its
place, so that a lap that was read twice is there twice, and the loop takes
the row driven earliest. `Start` is `POST /api/sync` with its choice of token;
`Break` is a lost connection or a failed measurement; `Publish`, `Connect`,
`Expire` and `Upload` are the rest of the world. `Scoped = FALSE` is a server
that ignores `drivers=me`, which the client's own filter must make up for.

### ConfigStore and Chat

`file` is the TOML file and `history` the table; a change runs `Read`,
`Truncate`, `Write` and `Record` or, when the insert raises, `RecordFails`.
`solo` is history: the change that no other has met, and the thresholds that
were as recorded when it began. A file being written is visible as empty, that is
as the defaults, to whoever reads it between `Truncate` and `Write`. `Chat` adds
live sessions, the page with what it shows and what it waits for, and the one
answer under way. A proposal is staged with a number of its own, so that what
the page `meant` by a button can be compared with what the server popped at
that position. `Lose` loses an answer, `Switch` changes the cohort while an
answer may be under way, `Evict` and `Restart` drop sessions.

### Accounts

`users`, `linked` and `resets` are tables; `cookie[b]` is what a browser holds
and `request[b]` the request it has under way, whose `pc` names the next
transaction. The three ways of signing in each look an account up, insert or
rotate its epoch, and issue a cookie. A reset looks its link up and then, in
`SetPassword`, sets the password and deletes the account's links without
looking again; `spent` is history, which link of whom has set one, and how many
requests had been asked by then. Requests and links are numbered as they are
asked for, so that a number says which came first. `Live(b)` is the check of `open_db`.
`Die` loses every request under way and the throttle's memory; `Tick` is time.

### Taxonomy, Thresholds, Attribution, Scoring, Coaching

These modules are the deterministic pipeline from what is stored of a lap to
what is said to the driver, in integers: thousandths of a second, of a metric's
unit, of a point in a hundred is ten. `laps` is the corpus, a sequence by
`lap_pk`; every query of `db.py` is an operator over a scope, a set of laps
(`lap_pks`), and a cohort, with the filters of its SQL. `Import` stores a lap
with what `Verdicts` makes of its corners (what a query lists is a family of
values by lap, as no statistic depends on the order); `Exclude` and `Include` mark a
reference lap; `Read` computes every answer anew: beliefs, findings, pages,
rollup, patterns, and the claims of eras. Ties in the code's sorts by wording
are left open where no property depends on them.

`Defaults` are the values of `config.py`. The thresholds in force are the variable
`config`, one of `Configs`, which no analysis changes; the one rule that a file is
refused for is `Loadable` (`_weights_sum_to_one`). `MCConfigs` holds `Defaults`
but for the counts, which are those of a small corpus, and for two anchors of
dispersion that it removes, so that the fallback to the unit's anchor and the
metric without any both occur.

## 3. Runs

| Run | Bounds | Shows |
|---|---|---|
| `eras` | 1 refresher, 2 dates and undated, sizes 1 and 2, 5 laps of which 2 in a closed era older than A61 | closed eras are full and frozen, `Eras` implements `EraBlocks` |
| `eras_overlap` | 2 refreshers, 1 date and undated, size 2, 3 laps of which 1 in a closed era | a second era only for a refresh that was overtaken, a summary misses no measured lap, both refreshes end |
| `lapstore` | 2 workers, 2 past laps, 4 laps, 2 cohorts, 4 contents, `Keep` = 1 | only imports that overlap store a lap twice, traces belong to their laps, only old traces go |
| `tendency` | 1 refresher, 4 closed eras, 5 facts | partition, verdict steps |
| `tendency_overlap` | 2 refreshers, 2 closed eras, 3 facts | `first_seen_era` is not too late and changes only by a refresh that was overtaken; the last refresh leaves the rows its eras give |
| `payload` | 2 requests, 1 change, 2 invalidations | one request, no old answer taken, loading ends |
| `cornermap` | 2 workers, a founder and 2 of 3 laps more, 1 rebuild, 1 fault, admission at 2 laps | own laps decide the map, an observation keeps its corner, an undisturbed rebuild repairs, classes follow speed |
| `sync` | 2 accounts, 2 syncs, 4 laps in 2 cohorts, a page of 1, a cap of 1, 1 change, 1 fault, an unscoped server | nothing foreign, nothing due missed, nothing twice, a sync ends |
| `chat` | 1 page, 1 worker, 2 keys of which 1 a table, 2 values, 2 proposals, 2 turns, 2 changes, 1 fault, 1 switch | what is applied was shown and applied once, a change leaves the history explaining what it explained before, and its own threshold; turns end |
| `accounts` | 2 browsers, 1 address, 1 driver, 2 passwords, 5 requests, 1 death, 2 moments | an account per address, one live session, a reset spends every link of before, only a driver himself loses the way to his account |
| `coaching` | 4 laps of 5 kinds (own, early, spun, undated at another track, somebody else's), 2 corners | the six properties of what the driver is told |
| `payload_stale` | as `payload` | **violation**: a page load gets an older payload |

Fourteen more configurations are not among the runs; each is a counterexample
to one property, named in section 6, and can be run like the others.

Why the bounds suffice. Eras: with sizes 1 and 2 and three new laps, an era
opens, is left half-full over a size change, fills, and a second one opens in
the same transaction; backdated and undated laps are among them; a longer
history repeats these cases. Two refreshers are the smallest overlap; with a
closed era older than A61 and two more laps each of them writes twice.
Tendency: three fired eras decide a trend, two
clearing eras a resolution, and a fourth era lets a gap or a return come
between; a fact of every kind and three bands are in `Facts`; for what
refreshers do to each other's rows two eras and three facts are enough, since
a row has one era it was first seen in and one it was last seen in. LapStore:
`Keep` = 1 with two cohorts and four laps gives laps to keep, to evict, to
restore and to drain at once; two workers are the smallest race.
DriverPayload: two requests are an aborted and a current one; two
invalidations allow an answer two generations old. CornerMap: two laps beside
the founder are what admission needs, and one rebuild that overtakes or is
overtaken by two imports, or dies in the middle, gives every kind of leftover;
the worker that follows is the repair. Sync: a page of one makes every change
move a page boundary, a cap of one leaves a cohort waiting, and two syncs may
be of one account or of two. Chat: two proposals are what positions can
confuse, and two keys let a change lose another key's; with one worker no change
meets another, which is the case `ChangeExplained` is about, and its theorem is
for any number of workers. Accounts: two browsers, one of them maybe someone else's,
and five requests are an account, two links and a reset by each, or two sign-ins
between which an account is linked, reset or left; a link that lives for one
moment may run out between its look-up and its use.
Coaching: four laps give two to each half and two readings to a dispersion;
five kinds of laps make every kind of gate fire and clear (of the seven
statistics two, of each direction of comparison the others repeat it). A probe
of the reachable states found faults and strengths of both sides of five
principles, all bands, trends improving, stable and declining, and readings
with and without a verdict.

Symmetry over workers, sources, browsers and passwords is used only in runs
whose properties are safety (`lapstore`, `cornermap`, `accounts`). All bounds
are also those at which every mutant is told from the code.

Deadlock is checked in the `eras`, `lapstore`, `tendency` and `payload` runs, where an
idle system can always do something. It is not in the others: when all laps are
imported, all requests made or all faults used up, a bounded system stops.

## 4. Fairness

Safety runs use none. `eras_overlap` has weak fairness on the steps of a
refresh that has begun, a thread of the server that keeps running, and on
nothing else: nobody has to begin a refresh, no import has to finish, and a lap
may stay unmeasured for ever. The write lock is contended there: one refresh
waits while the other is in its transaction. Its wait is over when the lock is
released, and otherwise when the store's timeout raises (`LockTimeout`, part of
the refresh's own steps; `sqlite3` and PostgreSQL both give up in the end), so
that nothing is assumed about which waiter the store serves. `payload` has weak
fairness on the server's steps of each request, on the page's handling of what
arrived and on its renders and effects; opening a page, changing something, and
losing a connection are free. `sync` has weak fairness on the work of each
thread that was started, which waits for nobody: a request to Garage61 has a
timeout. Starting, publishing and failing are free. `chat` has weak fairness on
the steps of the turns (the provider answers or its call raises) and on the
arrival of an answer; `Lose` is how an answer may also not arrive, and the page
hears of it. Asking, confirming, evicting and restarting are free.

## 5. What is proved

Each theorem holds for every value of the constants that the module's named
assumption admits. The assumptions beyond it are hypotheses of the theorem and
are written in the second column.

| Theorem | Holds | Statement |
|---|---|---|
| `ErasProofs!TypeCorrect` | always | `[]TypeOK` |
| `LapsPlacedOnceEver` | always | `LapsPlacedOnce`: a second era for a lap only from a refresh that another has overtaken |
| `ClosedMeansFull` | `~Overlap` | closed eras are full; at most the last is open, neither empty nor full |
| `SummariesCompleteEver` | always | `SummariesComplete`: a summary is of its era's laps alone and misses none that was measured when its refresh read the cohorts |
| `FrozenStaysFrozen` | `~Overlap` | no step changes a closed era but to add slices |
| `ImplementsBlocks` | `~Overlap` | `Eras` implements `EraBlocks` |
| `LapStoreProofs!TypeCorrect` | always | `[]TypeOK` |
| `TracesStayHome` | always | `[]TracesBelong` |
| `OnlyRacesDoubleCountEver` | always | `OnlyRacesDoubleCount`: telemetry is stored twice only by imports that overlap |
| `NewestTracesStay` | always | `OnlyOldTracesGo` |
| `ServerProofs!AccountsTypeCorrect` | always | `[]TypeOK` |
| `AddressesUnique` | always | `[]OneAccountPerEmail` |
| `SessionsExclusive` | always | `[]OneLiveSession` |
| `ResetSpendsLinksEver` | always | `ResetSpendsLinks`: after a reset, a link of before sets a password only for a request that had arrived |
| `OnlyHeLocksHimselfOutEver` | always | `OnlyHeLocksHimselfOut`: only a disconnection by his own account, or a death before his token is stored, hides a driver's account from him |
| `NothingForeignEver` | always | `[]NothingForeign` of `Sync` |
| `StoredOnceEver` | always | `[]StoredOnce` |
| `RecordsAddUpEver` | always | `[]RecordsAddUp` |
| `NothingDueMissedEver` | `OneAccountEach` | `[]NothingDueMissed` |
| `ChatProofs!TypeCorrect` | always | every variable of `Chat` and `ConfigStore` keeps its type |
| `ChangeExplainedEver` | always | `ChangeExplained`, for changes from the page and beside it |
| `AppliedOnceEver` | always | `[]AppliedOnce` |
| `ConfirmedAsShownEver` | always | `[]ConfirmedAsShown` |
| `TendencyProofs!TypeCorrect` | always | `[]TypeOK` |
| `VerdictStepsEver` | always | `VerdictSteps` |
| `FirstSeenIsFirstEver`, `OnlyOvertakenRewriteEver`, `ProjectionCurrentEver` | always | the rows of `driver_tendencies`, for any number of refreshers that overlap |
| `ServerProofs!PayloadTypeCorrect` | always | `[]TypeOK` |
| `OneOpenRequestEver` | always | `[]OneOpenRequest`, with or without `Prompt` |
| `ThisGenerationOnlyEver` | always | `ThisGenerationOnly`, with or without `Prompt` |
| `PartitionIsForwardEver` | always | `[]PartitionIsForward`, for histories of any length |
| `CornerMapProofs!TypeCorrect` | always | `[]TypeOK` |
| `SelfDecidesEver` | always | `[]SelfDecides` |
| `ObservationKeepsCornerEver` | always | `ObservationKeepsCorner` |
| `RebuildRepairsEver` | always | `RebuildRepairs` |
| `ClassFollowsSpeedEver` | always | `ClassFollowsSpeed` |
| `OneVoiceEver`, `EvidenceInScopeEver`, `TrendIsSeriesEver` | always | the pages, the rollup and the chart of `Coaching` |
| `OneVerdictEver` | always | `[]OneVerdict` |
| `ScoreAmongComponentsEver` | `Positive`, `Fenced` | `[]ScoreAmongComponents` |
| `ReferencesTeachNothingEver` | always | `ReferencesTeachNothing` |

The hypotheses. `~Overlap` and `OneAccountEach` exclude what the code does not
exclude and what section 6 shows to fail: two refreshes of a driver at once,
two accounts of one Garage61 driver. The three theorems that need `~Overlap`
are about the rules of the partition under imports, resizing and deaths between
any two steps of a refresh; what overlapping refreshes do is in
`LapsPlacedOnceEver` and `SummariesCompleteEver`, which need no hypothesis.
`Positive` says that every weight of a score is above
zero, as the defaults are; the code requires only that they add up to one, and
with a weight of zero its mean may divide by zero. `Fenced` says that a lap is
no outlier when it is as far from the median as half of the laps are
(`outlier_mad_k` of 1 at least; it is 3.5 by default). The code takes any
number, and with a smaller one `screen_outliers` may leave `baseline` an empty
list, of which it takes the first (`attribution/engine.py:200-207`).

Outside `Coaching`, none of the safety properties but three (`OneAccountPerEmail`, `StoredOnce`,
`NothingForeign`, inductive beside the types) is inductive. What a step does depends
on what its worker read some steps ago, so every invariant says what the
local variables at each program counter still mean. TLC has accepted each of
the formulas named below as an invariant of the instance of its run.

**Eras.** `SInv` is for refreshes that overlap. `Seen` says what each of them
knows: until another commits (`stale`), the laps it has to place are in no
committed era; in its transaction nobody else writes (`Lock`), so that a lap it
places doubles nothing that was not doubled before, unless it was stale when it
began; its open era is one that it has not closed; and the laps that were
measured when it read the cohorts have a cohort and stay measured (`Complete`),
which is why no summary it freezes misses them, whatever laps others have put
into its era. A step of one refresh leaves what the others know alone
(`OthersKnow`), a commit by making them stale.

For one refresh at a time `IInv`: `Cut` says that a sequence of eras is well cut: disjoint,
made of usable laps, full when closed, open at most at the end; it holds of
`eras` and, inside a transaction, of `work`. `Partial` adds, for `eras`, that
the open era is neither empty nor full; `work` may break it for the step
between placing the last lap of an era and closing it. `Reader` says what each
program counter entitles the refresher to believe: `todo` is disjoint from the
assigned laps, `openEra`, `nextEra` and `count` are those of `eras` or `work`,
`known` covers every lap it may place. Since no other refresh runs, only a
refresher's own steps change `eras`, and these facts survive the other actions.
For the refinement `Walks` adds how far a transaction has got: the eras it
found have only grown, those it opened have the size it read, and the laps it
has placed so far are in order and before all it has left. A new lap gets a number above
every other, which keeps this while imports go on (`StoreKeepsWalk`); the lap
placed next is the first of those left and the open era is the last
(`PlaceKeepsWalk`). `BlocksNext` then maps each step: storing a lap is
`Import`, a commit is `Extend` of the batch `InSome(work) \ InSome(eras)`
(`CommitExtends`), and every other step leaves `Cuts(eras)` alone, the backfill
too since it changes slices only.

**LapStore.** `Typed` gives each worker a lap and a row at the steps that use
them. `Belonging`: a worker about to write a trace holds the content of the
row it inserted. `Searched`: what an import is about to insert is not there yet,
unless another has overtaken it; an insertion overtakes every other import of
the same content. `Retaining` is what the action property needs: what
maintenance has ranked as old is old still when it comes to evict it, although imports,
restores and other maintenance have gone on meanwhile; that holds because
traces that go are old themselves, so that the newest of those above a trace
which is expendable has enough newer ones that stay (`StaysExpendable`).

**Accounts.** Every request has a number; `Numbered`: a request's epoch is its
own and no cookie has it, and no two cookies share one. Two browsers that both pass the check
of the epoch would have one epoch. `AddressesUnique` rests on the unique index
alone; the look-up before an insertion is not needed. `Spent`: of each reset that
was, every link its account still has was asked for later, and every request
with an older one arrived earlier. That holds because a reset deletes all links
of the account in the step that sets the password, and whoever is under way at
that moment has a lower number than whoever comes. `Owned`: a token, stored or
about to be, is of the driver its account was made for, so that storing one
never takes another driver's away.

**Sync.** `Sound` types the jobs and says that a job's laps are its driver's.
`Adding`: what a job has counted as new is stored and measured, and two
workers never measure one row. `NothingLost`: each lap that is due is known,
skipped, in the listing, or on a page still to come. The heart is that a
listing read newest first can only be pushed back: places count newer rows, so
a publication never moves a row past the reader (`PlaceGrows`, `UnreadStays`),
and a page that is not the last ends where the next one begins (`NextRow`,
`ReadPageKeeps`). The look-up by source label finds laps of any account; under
`OneAccountEach` a lap of this driver that it finds is this account's
(`StoredIsKnown`).

**Chat.** `Chronicle` is about the change that no other has met (`solo`): every
other worker is idle, and for its own threshold and each that was explained
when it began, what it has read, is about to write or has written is what the
history will say once its row is there (`After`). A second change that begins,
a death and an insert that raises end it. `Single`: a staged
number is in one list, with one worker, or in one row of the history, and in
one place only. `Faithful`: while nothing is lost and no cohort switched, the page's list is
an initial part of the session's, and stays so when a confirmed proposal is
taken out of both (`PopFits`) or a turn adds to one (`TurnFits`). That initial
part, not equality, is what makes a position mean the same on both sides.

**Tendency.** `TypeOK` alone is not inductive: `Listing` adds that an era a
refresh holds as open is the next one. `VerdictSteps` is a theorem about
sequences of records, with a lemma for each kind of era (`ThinStep`,
`ClearingStep`, `FiredStep`); each compares the latest fault, the runs and the
trend of a history with those of the history and one era more. For the rows: `Views`, what a
refresh has read of the eras, however old; `LooksBack`, no stored row and none
that was read and may be written back is first seen after an era that showed
the pattern; `Fresh`, who has not been overtaken has the rows as they are;
`Told`, the rows are those that the refresh which wrote last gives.

**DriverPayload.** `Tracked`: the page's promise is the request that is open,
or the one of this generation that was answered; an open request is the
promise; the generation in a closure never exceeds the cache's. The last is
why the comparison at line 64 with the generation of the render, not of the
cache, suffices.

**CornerMap.** `IInv` has three parts. `Typed`, `Observed` and `SelfDecides` are
about the store. `Works` says of each worker what it relies on at each of its
steps (`Relies`): the corners whose numbers it read still exist, a lap that
founds or freezes is the driver's own, what it is about to measure are
observations of its corner, and the candidates it read are without a corner as
long as no corner was added. `Grows` is what no step of anybody undoes (laps and
observations stay, the map does not shrink, an observation gets a corner only
when it had none and the map grew), and carries `Works` of one worker over the
steps of all the others. That clause about candidates is what makes an
observation keep its corner: two admissions may hold the same ones, and the
second finds its numbers taken (`UNIQUE` in the code) because the first added a
corner.

`Alone` is what a worker that nobody overtook may conclude. For the classes
(`Fits`): the corners below its counter have one that fits. For a rebuild
(`Tidy`): every observation whose turn is over (`Due`) is measured across the
window of its corner or has no time because its trace is gone (`Mended`); one
that was just admitted and has not been measured has no times at all (`Blank`),
which is what lets an admission leave out a lap without its trace; and the
corners are walked in ascending order with the windows just set (`Ready`).
Traces may go meanwhile: that only makes a missing time a permitted one.

Below the steps are lemmas about order statistics (a median lies between two of
its values, so a corner lies within what was driven), matching (a span gets a
corner that was seen, or none), clusters (disjoint, of the numbers they were
given, on enough of the driver's own laps where they are kept) and hysteresis
(a class fits the median that gave it). No order of the speed bands is assumed,
since `config.py` checks none.

**Coaching.** Every property is of the answer the driver was last told. Each
is proved of the answer that any corpus gives, from `Recorded` (a lap is never
removed, only reference laps are excluded), and is then kept by every step,
which tells that answer or tells nothing. `OneVoice` goes through the four
pages; `OneVerdict` through the four kinds of gates, whose floors leave no room
between or across (`NotBothSides`); `TrendIsSeries` is that two buckets are the
two halves, an odd lap going to the same one (`TwoChunks`).

A verdict compares numbers and a score weighs them, so that what is computed of
a corpus has to be shown a number. `Recorded` says that times and readings
are. A value picked by rank out of a finite family is one of its values
(`KthIsOne`: the least number that k values do not exceed is one of them),
so medians, deviations and percentiles are numbers; a sum of numbers is one
(`SumIn`); the tables are finite (`FundamentalNames`, `PooledNames`,
`CohortsFinite`), and what is divided by is not zero, because nothing is
computed of an empty table, a dispersion needs an anchor (`HasDispersion`) and
a ceiling that is not positive scores zero (`Under`). That some lap is always
left by the outlier screen (`CleanLeavesSome`) is where `Fenced` is needed.

`ReferencesTeachNothing` compares two answers. `Extends` says that a step
leaves the thresholds and the laps there are as they were and adds nothing of
the driver's; under it each query, statistic, score and claim is, after the
step, what it was before (the lemmas `...Same`, one per operator, from `Own` up
to `Pages` and `Over`; a statistic's evidence, which is collected over all
laps, is why `Alike` relates two scopes). The invariant `StillTrue` says that
an answer remains the answer while nothing of the driver's is added to what it
was given of.

Facts about the least or greatest number of a set are proved from the
library's well-foundedness of the subset order on finite sets
(`LeastNumber`), since its induction theorems take an operator as parameter
and cannot be instantiated. A recursive function on numbers, such as `Clusters`
or `Scan`, is proved about in the same way: if a fact failed at some number,
it would fail at a least one, and the function's definition there contradicts
it. (`PartitionIsOnePass` compares the code's stripping and counting back with
one forward pass like this.) So is the library's sum over a set, a recursive
function on its subsets: that there is such a function (`SumsExist`), and that
it stays among the numbers added up, each fail at a least size if at all.

Only model-checked. `RefreshTerminates`, `LoadingEnds`, `SyncEnds` and
`TurnsEnd` need fairness and ENABLED and are outside the prover. Every safety
property of a passing run is a theorem. `RecordsAddUp` is proved and in no run:
it needs no instance beside those of `StoredOnce`, with which its invariant is
proved.

## 6. Disagreements found

Of the code with a text of the repository. The first is a run; the others are
configurations outside the runs that violate the named property, to be run with
the module of their component.

1. The cached payload outlives uploads, annotations and configuration changes
   (`payload_stale`, `AnswerIsCurrent`); the hook and `docs/SPEC.md` say it is always current.
2. A complex cut in two on every lap is admitted as one corner, to which both
   spans of a lap are linked (`MCCornerMapTwice.cfg`, `OncePerCorner`); `corners/identity.py:92-94`
   says "never a double-counted observation of the same corner".
3. A driver who signed in with Garage61 and disconnects it is not found again,
   and the insertion of his account fails on its address
   (`MCAccountsLockout.cfg`, `DriversCanReturn`); `ui/api.py:842` says "create/find a user by the G61 id".
4. Overlapping refreshes place a lap in two eras (`MCErasRace.cfg`,
   `LapsInOneEra`); the era docstring says "set once, never re-cut".
5. Overlapping imports of the same telemetry under two names store it twice
   (`MCLapStoreRace.cfg`, `NoDoubleCount`); the docstring says it is "NOT stored,
   so it can't double-count".
6. Overlapping refreshes rewrite a stored `first_seen_era` (`MCTendencyKept.cfg`,
   `FirstSeenKept`); the era docstring says an upsert "preserves" it.
7. A change whose row fails to be inserted, or whose process dies before it, is
   in force without a row (`MCChatSilent.cfg`, `HistoryExplainsFile`);
   `config.py:1140` says "nothing retunes a threshold silently".
8. Two requests that overlap use one reset link twice (`MCAccountsLink.cfg`,
   `LinkUsedOnce`); `docs/ACCOUNTS-SPEC.md:182-183` calls it single-use.
9. A reset leaves the sessions of before valid (`MCAccountsReset.cfg`,
   `ResetEndsSessions`); `docs/ACCOUNTS-SPEC.md:107-108` and 183-184 say that it
   ends them.
10. A refresh in the middle of an import freezes a summary that leaves the lap
    out (`MCErasMidImport.cfg`, `SummariesFaithful`); `coaching/eras.py:12-13`
    says it is computed from the era's laps.
11. A quiet, evaluated era does not clear a fault (`MCTendencyQuiet.cfg`,
    `QuietEvaluatedEraClears`): `docs/SPEC.md` says a principle that stopped
    firing reads dormant.
12. The row of a pattern that no longer shows stays (`MCTendencyStaleRow.cfg`,
    `NoStaleRow`); `report/payload.py` calls the read fresh.
13. A rebuild leaves the phase times of a phase the new windows no longer have
    (`MCCornerMapStale.cfg`, `NothingStale`): they are replaced only `if times`,
    and `pipeline.py:348-349` says a lap "is never left silently stale".
14. Two accounts of one Garage61 driver hide laps from each other
    (`MCSyncShared.cfg`, `NothingDueMissed`): the look-up at
    `garage61/sync.py:242-244` is not restricted to the account, and
    `sync.py:160-166` says that silently missing a lap is not cheap.
15. After a lost answer or a switch of the cohort, a confirmation applies the
    proposal that now stands at the position, which is not the one shown
    (`MCChatUnconfirmed.cfg`, `OnlyConfirmed`); `docs/UI-SPEC.md:393` says "an
    unconfirmed proposal changes nothing".

Smaller ones, read in passing and not run. `ModelConfig._weights_sum_to_one` makes every change of a single weight fail,
as changes are made one key at a time. It admits a weight of zero, with which
`_weighted_score` divides by zero where only that component has a value
(`model/scoring.py:421`; `_effective_weights` guards the same total). A value that is a table can be changed and
not reverted. The confidence of a belief is the mean of four equal terms, where
`config.py:576-595` speaks of a volume half and a breadth half. `_severity`
measures a statistic against `dispersion_band_major`, where its docstring says
its own kind's `major` floor. The written report (`coaching/report.py:71`)
selects without the strengths, so that a weak voice may speak there where a
page keeps it silent. The evidence of a statistic is collected without the
era's laps (`coaching/engine.py:436-439`); `EvidenceInScope` leaves it out.

## 7. Not modelled

Parsing a CSV, segmenting a lap, the metrics and the incident scan are
numerical code over arrays of samples; they appear as inputs, the landmarks,
times and metrics of a corner. Report and coach text, prompts and the checks on
a model's wording are text. Migrations and dialects run once, before anything
here. The command line and the endpoints that read, or write one row, start
the operations that are modelled. Standard deviations and means of floats are
integers here, rounded down: properties that would depend on rounding are not
stated.

Inside the modelled components the following is left out. Eras and Tendency:
session slices and evidence lists of a summary, per-slice states. LapStore:
copying a store, deleting an account, temporary files of a trace (replaced
atomically). CornerMap: corners that lie across the start line, whose median place would
wrap around. Sync:
progress events. Chat: tools that only read, the transcript, the provider's
protocol; a reply is grounded or not by choice. Accounts: keys of model
providers, mail, cryptography. Coaching: wording, drills, tendency annotations,
superseded fields of the configuration that no code reads. Several drivers of an
account are separate throughout, and so are owners but in `Sync`, where the
code mixes them.

## 8. Plan

What is left of proof: which of the rules of the partition beyond
`LapsPlacedOnce` and `SummariesComplete` survive two refreshes at once.

Of the model: `Tendency` composed with `Eras`, now that `Coaching` gives the
facts of an era; `LapStore` joined to `CornerMap`, so that retention takes the
traces a rebuild reads; the segmenter's state machine over a short sequence of
samples.
