# Artifact graph: models, checks and proofs

The service in `src/app` collects repositories (Bitbucket), build configurations and
builds (TeamCity) and registry manifests into one graph in PostgreSQL, serves it through
a FastAPI application and announces changes by webhook. This directory holds TLA+ modules
that model its core, the TLC configurations that check them on small instances, and
theorems that TLAPS proves for every value of the constants.

## 1. The system

| Part | State | Operations | Talks to |
|---|---|---|---|
| Scan pipeline (`service.py` `refresh`, `_save`, `_save_snapshot`; `main.py` `lifespan`, `manual_refresh`; `scheduling.py`) | tables `scans`, `nodes`, `edges`, `graph_snapshots`; `refresh_lock`; the scheduler's jobs | start-up, daily and manual refresh; fall back to the previous graph; prune histories | collection, cache invalidation, alerts, progress |
| Scan alerts (`alerts.py` `enqueue_scan_alerts`) | rows of `webhook_deliveries` | compare a closing scan with history | called inside the closing transaction |
| Webhook outbox (`alerts.py` `dispatch_webhooks`) | `webhook_deliveries` | fetch due rows, post, retry, dead-letter; the runbook's requeue | the receiver |
| Graph response cache (`graph_cache.py`, `/api/graph`) | LRU map, byte count, generation | look up, compute, store, invalidate | server threads, `_save` |
| Build history (`build_history.py`, `collectors.py` `_builds_window`, `_refresh_build`) | persistent cache entry per configuration | read changes since the last scan, ask for unfinished builds, reconcile weekly | TeamCity |
| Build inputs (`service.py` `prepare_build`, `concurrency.py`, `incremental.py`, `persistent_cache.py`) | memory and persistent caches of artifacts and logs | read the builds of a configuration in concurrent batches; keep the previous outputs as stale | TeamCity |
| Collection (`service.py` `collect_live`, `mapping_rules.py`) | source cache | list, map repositories to configurations, read and analyse sources | provider clients |
| Provider clients (`collectors.py`, `registry.py`) | HTTP clients | list in pages, find default revisions, index and read files; retry | Bitbucket, TeamCity, registries |
| Scan progress (`scan_progress.py`) | counters under a lock | start, update, finish | `/api/status` |
| Browsing (`subgraph.py`, `filters.py`, `graph_queries.py`, `graph_payload.py`) | none | pages, cursors, filters, build limits | database |
| Analysis (`graph_analysis.py`, `mapping_quality.py`, `visual_states.py`, `layout.py`) | none | impact, insights, annotations | graph |
| Snapshots (`snapshots.py`; `/api/snapshots`, `/api/timeline`, `/health/ready` of `main.py`) | none | canonical form, diff, timeline, readiness | `graph_snapshots`, `scans` |
| Lab scripts (`scripts/bootstrap`: `expand_lab.py`, `run_lab.py`, `check_lab_states.py`, `seed_live_states.py`) | what the servers hold | provision a lab, fill build histories, change settings for a while and put them back | Bitbucket, TeamCity, the service |
| UI (`web.py`) | browser state | poll, draw, page | HTTP API |
| Auth, configuration, validation, diagnosis, backup and deployment | mostly none | - | - |

`PROJECT.json` lists every part with what is and is not modelled of it.

What is hard here:

- **Three tasks, one lock, several transactions.** `refresh()` runs for the start-up, daily
  and manual tasks under an `asyncio.Lock`, in separate transactions, with a fallback in
  `except` and a closing transaction in `finally` that uses a name only some paths bind.
- **Stops at any point.** An orderly shutdown cancels tasks at their awaits; a crash may
  fall between two commits. Scan rows then stay `running`.
- **Alerts depend on history** which the same transaction prunes.
- **Readers without the lock.** The response cache computes outside its lock while a save
  commits and then invalidates.
- **At-least-once delivery** with lost answers, retries, dead letters and manual requeue.
- **Incremental reading** against a TeamCity whose builds start, finish and vanish between
  two requests, with two clocks.
- **Lists that change while they are paged**, by offsets, by links or by counting; the loops
  over Data Center's pages and over builds check that the server advances, those over
  Bitbucket Cloud's and over TeamCity's configurations do not.
- **Readers in threads.** Endpoints that are plain functions run in a thread pool, also while a
  refresh is between two commits.
- **Scripts that die half-way** and are run again, on a TeamCity where other people's builds
  start between any two calls.

Properties each part needs are the ones of section 3; `PROJECT.json` `hazards` ties them to
the lines where things can go wrong.

## 2. Modules

| Module | Models | Notes |
|---|---|---|
| `ScanHistory` | tables and bounded histories as data | a graph is what was collected and whether it is fresh, partly stale or all stale |
| `ScanRefresh` | `refresh()`, its tasks, alerts, restarts, failures | extends `ScanHistory`; one action per transaction or await |
| `AtomicScan` | abstract: a scan opens a row and later publishes or fails in one step | - |
| `ScanRefinement` | refinement mapping from `ScanRefresh` to `AtomicScan` | a task past its point of decision counts as done |
| `SnapshotDiff` | diff, timeline and the output changes of alerts | operators; `ScanRefresh` extends it |
| `HistoryReaders` | what readiness, list of snapshots and timeline tell at any moment | extends `ScanRefresh` |
| `MCScanRefresh` | model values and fault sets | - |
| `ScanRefreshProofs` | proofs about `ScanRefresh`: the tables and the graph, histories and alerts, the refinement, the readers | extends `HistoryReaders` and `ScanRefinement` |
| `GraphCache`, `MCGraphCache`, `GraphCacheProofs` | response cache, instance, proofs | threads are symmetric, keys are symmetric |
| `Outbox`, `OutboxProofs` | outbox job with receiver, restarts, requeue; proofs | - |
| `BuildHistory`, `MCBuildHistory`, `BuildHistoryProofs` | incremental history of one configuration, instance, proofs | - |
| `BuildInputs`, `BuildInputsProofs` | concurrent reading of one configuration's builds; proofs | - |
| `Providers`, `MCProviders`, `ProvidersProofs` | what a scan reads from Bitbucket and TeamCity: listings in pages, revisions, sources and their cache; instance; proofs | four listings, one loop each |
| `LabServer`, `LabTools`, `LabToolsProofs` | Bitbucket and TeamCity of the lab with the people who use them; the scripts that provision and exercise it; proofs | - |
| `ProductGraph` | the graph a scan builds from what the providers answer: links, mapping rules, status, branch of outputs | operators |
| `GraphQueries` | pages, searches (in memory and SQL), filters, build limit, issues, impact, orphans | operators, extends `ProductGraph` |
| `Browse`, `MCBrowse`, `BrowseProofs` | a reader who pages, searches and filters while scans replace the graph; instance; proofs | extends `GraphQueries` |

### ScanRefresh and the code

`pc[t]` says where task `t` is in `refresh()`: `waiting` for the lock, `loading` (its row is
committed), `collecting` (the only long await inside the lock), `saving`, `snapshotting`,
`closing`, and `staleSaving`, `staleSnapshotting` for the `except` block. The event loop is a
single thread: between two awaits no other coroutine runs, which `LoopFree` says in the guards
of what another task, a job or `manual_refresh` (a coroutine) does. Endpoints that are plain
functions run in threads and have no such guard, nor has a crash.

| Action | Code |
|---|---|
| `Boot`, `Shutdown`, `Crash` | `lifespan`; cancelled tasks; a killed process |
| `DailyFires` | cron job with `max_instances=1` |
| `ManualRequest`, `ManualSubmitted` | `POST /api/refresh` looks in the job store; the scheduler takes the job out and the executor drops it while an earlier run is unfinished |
| `Begin`, `Load` | insert the row; read the previous graph |
| `Collect`, `CollectFails` | `collect_live` returns any graph, or raises |
| `Save`, `SaveSnapshot` | replace nodes and edges; insert the snapshot and prune |
| `Except` | previous graph marked stale, or "failed" without one |
| `Finish` | end of the progress display, then final status, alerts, pruning with cascade in one transaction; for the moment between the two (`service.py:127`, `:129`) the model has no state |
| `OpeningFails`, `SavingFails`, `StaleSavingFails`, `FinishFails` | the transaction at that point rolls back and raises; in `FinishFails` also because `message` is unbound |

A graph is a content and a state (fresh, partly stale, all stale). The content is a function
from the ids of builds to the outputs shown there, which is what `SnapshotDiff` compares: an
id that is only in one graph was added or removed, outputs of a build in both may have
changed, and `_safe_output_changes` takes the latter and the former where there are outputs.
The proofs need no more of a content than that it is an element of `Contents`.

`AtomicScan` says what the tables amount to once a refresh has run its transactions, and so what
every coroutine and every later scan finds; what a thread can read between them is the subject of
`HistoryReaders`. `ScanRefinement` maps the concrete
tables to the abstract ones: while a task is in `snapshotting`, `staleSnapshotting` or
`closing`, its remaining transactions are counted as done. That mapping is only right
because an orderly shutdown cannot fall between them. After a crash between two commits the
graph is newer than its snapshot and its scan never closes, so neither the refinement nor
`ReadersAgree` is claimed under crashes; `NewestScanDescribesGraph` is.

`HistoryReaders` adds no state: the three endpoints are plain functions that FastAPI runs in
threads and that read one table once each, so every state of `ScanRefresh` is one they may read.
Between the commits of a refresh they do not all speak of the same graph: the snapshots follow
the graph by one commit, the status by two. `Told` is the graph a table written that late tells of,
the one before the scan as long as it is not written; `ReadersAgree` says that each reply tells
of that graph, so of the served one or of the one just replaced, and never of a third.

### GraphCache, Outbox, BuildHistory

`GraphCache` counts committed graphs; a reply is the pair of versions its two queries saw.
`Hit`, `Miss` and `Store` are the two critical sections, `QueryNodes` and `QueryEdges` run
without the lock, `Commit` and `Invalidate` are `_save`. `version` advances before the
generation does: the window in between is a state of the model. `Restart` empties the memory
and forgets a pending invalidation with it. An entry may be treated as expired at any lookup,
which covers every TTL.

`Outbox` has one action per outcome of a POST: `Success`, `Retryable` (408, 425, 429, 5xx),
`Refused`, `TransportError` (the receiver may have processed it) and `Undecodable` (an httpx
error that is no `TransportError`). `TimePasses` is the backoff without its length. The
receiver, which counts how often it has processed each event (`received`), and the operator's
`Requeue` are outside `src`, modelled from how the code and the runbook use them.

`BuildHistory` has one configuration; TeamCity queues, starts, finishes and deletes builds at
any moment between two requests of a scan (`QueryBuilds` and `QueryQueue` once for each page, one
`Ask` per unfinished build, `Put`), and a `Fail` ends a scan anywhere. Dates are on TeamCity's clock,
which is `skew` apart from the service's. The listing is in the order of starting, newest first, and
a page is the builds at the positions after the last one read; a build that starts moves the others
back, so one may be read twice, a build that is deleted moves them up, so one may be skipped.
The code forgets such a build until a later listing shows it, which may be the next full reading;
the history variable `missed` names these builds and nothing else reads it. The queue moves in any
way between its pages, so a page is any part of it. `TEAMCITY_BUILD_LIMIT` is 0: with a limit
`incremental_builds` returns at line 19, keeps nothing and reads nothing in part.

`BuildInputs` has the builds of one configuration: `List`, then batches of tasks
(`StartBatch`, `EndBatch`) that look in both caches before they await (`SkipUnfinished`,
`MemoryHit`, `PersistentHit`, `Miss`), read artifacts and log (`ReadArtifacts`, `ReadLog`),
fall back to the previous graph (`Unavailable`) or fail the batch (`Raises`, `Abort`). Tasks
interleave at their awaits; between the failure of one and the cancellation the others may
still finish and fill the caches. A scan that fails elsewhere marks the graph stale. A build
that TeamCity deletes before its artifacts are listed is an error. What is read after that may be
less than the build put out, and the code neither notices nor marks it: a log beyond 5,000,000 bytes
is cut (`LongLogs`, `Whole`), 404 for a content and 404 or 409 for the log count as empty whatever the
reason (`LogMissing`). Each is cached and shown as fresh like a full reading. (A content that is too large is
marked as such by the code and counts as read.)

### Providers

One listing of Bitbucket Data Center, Bitbucket Cloud, TeamCity's configurations or
TeamCity's builds (`kind`) is read page by page; `LastPage` and `Repeats` are what the four
loops differ in. The server answers any number of entries up to the page size. In Data Center
each repository of a page is asked for its default branch and this one is looked for in the
pages of branches (`DefaultBranch`, `BranchPage`); in Cloud the page brings the commit, or does not
(`hashes`). Then the sources of one configuration are read: from the cache if an earlier scan
stored them under the same revisions, else by index (`Index`, Data Center) or path by path,
where 404 means that there is no file (`Text`). `Fails` is an error that is retried up to
`Attempts` times, except for file texts, `Refused` one that is not; either ends the scan or,
for sources, leaves the configuration without them. Upstream entries appear and vanish,
branches are pushed and deleted between any two requests (`Appear`, `Vanish`, `Push`,
`DropBranch`), and a `stuck` server repeats the same page with the same link, for every kind of
listing. Data Center's loop and that of builds notice (`Repeats`); nothing does for Bitbucket Cloud's
`next` and for the `nextHref` of configurations (`_project_build_types`), which such a server
keeps reading for ever. `past` is a history variable:
what was listed all the time, how many entries vanished, and the commits at the beginning.

### LabServer and LabTools

A script is the sequence `todo` of the HTTP calls it still has to make; preflight, main part
and cleanup (`finally`) are its phases. `Raised` says what an exception does at each point:
the main part goes to its cleanup if the script has one, `check_lab_states.py` attempts every
cleanup, `seed_live_states.py` only survives errors of cancelling. A call may fail without
effect (`CallFails`), take effect and lose its answer (`Answered`), or be the last one before the script
is killed (`Killed`); then a script is run again. Facts of entities (`have`) stand for what
expand_lab compares by its description markers and settings. People queue builds of
configurations that are not paused, the one agent starts and finishes builds between any two
calls, and TeamCity may answer a request to queue with an identical build that waits already,
of whoever queued it. The script cannot tell: it cancels what answered its requests. So a build that
somebody queues between the idle check of `check_lab_states.py` and its request is cancelled
with the script's, although the docstring (lines 5 and 6) and `docs/lab-acceptance.md:256` of the
repository speak only of builds this invocation created. `EarlierBuildsStay` claims what is left: no
build that was there when the script began is stopped. That is the work of the idle check, two
requests with builds starting between them; `seed_live_states.py` has none and nothing is claimed of it.
The script's polling of one condition (`_wait_build` after a DELETE or a stop,
`check_lab_states.py:112` and `:118`, the refresh of the service) is part of the call before it, so a
missing wait or deadline there would not be noticed; those of the main part are `Await`.
`seed_live_states.py` lets a build of a third configuration fail; here it is the one that is
paused afterwards, which makes its cleanup overlap more.

### ProductGraph, GraphQueries, Browse

`CollectLive` turns a *world* (the repositories listed, the VCS roots of each configuration
or that it cannot be read, the builds with outputs) into nodes and links, as `collect_live`
does; `Annotated` adds what `refresh` computes before it saves. A graph of an earlier version
(`Legacy`) has no explicit mappings. `GraphQueries` keeps the two ways to a search page apart:
`SelectVisiblePage` works on all nodes, `RepositorySearch` loads rows by joins, limits builds
in SQL and selects again; `GraphReply` is the endpoint that chooses, filters and limits.
Ids carry their kind as a prefix in the code, so the five kinds are disjoint sets here.
Labels are abstracted to one order, of which a list takes the elements it needs (`InOrder`), and to the sets of nodes that a query matches (SQL `lower`
and Python `casefold` agree on them), cursors to offsets, and the facts about a build to
"has outputs", "failed" and "old".

`Browse` has a reader: `Ask` for the first page, `More` by the cursor of the last answer,
`Scan` in between. `Ask` waits for a graph without an answer, which leaves no answer out: it
does not depend on earlier ones.

Two things the code does are modelled and not claimed away. `ConnectedLineage` does not
descend through nodes found above another match, so a search that matches a project and one
of its configurations shows less than the project alone. And a filter by image judges a
configuration by all its builds while the build limit, applied last, may drop the build that
made it match.

## 3. What is checked

| Run | Instance | Shows |
|---|---|---|
| `scan_hostile` | 3 scans, 2 contents, limits 2 and 2, restarts, crashes, failing transactions | types; the running scan keeps its row; the newest finished row and its snapshot describe the graph; progress is honest; no failure empties the graph; the lock is always passed on |
| `scan_restart` | 5 scans, 3 contents, limits 4 and 3, orderly restarts | the pipeline implements `AtomicScan`; newest snapshot, readiness and timeline each tell of the graph served or, between two commits, of the one it replaced; alerts of degraded episodes alternate with those of recovery, whatever was pruned; changes of outputs are announced exactly when there are some; histories stay bounded |
| `graph_cache` | 2 threads, 3 keys, sizes within 3 bytes, 2 entries, 2 saves | cached replies are current between saves; no reply is older than a save that had returned; the byte count and the LRU order are exact |
| `outbox` | 4 rows, batches of 2, 2 attempts, a restart, a requeue, one garbled receiver that is last | the attempts of a row, restarts and requeues account for all the receiver got; pending means an attempt is left; the batch only holds pending rows; answered deliveries settle |
| `build_history` | 2 builds on pages of 1, look-back 2, overlap 1, reconcile 2, TeamCity's clock up to the overlap behind, 2 time units | no started build is forgotten but one a deletion moved between two pages, until it is listed again; no build is reported active which TeamCity knew as ended; deleted builds go within a reconciliation period |
| `browse` | 5 repositories in 3 projects (one unassigned), 2 TeamCity projects, 3 configurations, 3 builds, 3 rules; 48 worlds, also as older graphs; 3 queries, 8 filters; pages of 2, one repository per project, one build per configuration | pages of one graph list each entry once; the SQL page is the page in memory; nobody borrows the configurations of a sibling; filters on builds see the whole history; colours, statuses, orphans and impact agree |
| `build_inputs` | 3 builds, one with a long log, 2 at a time, a memory cache of 1 | what is fresh was read to the end of what TeamCity answered; outputs once shown stay with the build while it is in the graph, until another such reading; requests stay within the limit and end with their batch |
| `providers` | 4 kinds of listing, 3 entries and one that can appear, 2 projects with two entries each at most, pages of 2, 2 attempts, 2 changes upstream, 2 scans | a listing misses no more entries than vanished while it was read; a repository has no commit only if it had none or branches were deleted; sources, read or cached, are those of the revisions in the graph; reading ends, if need be by the checks of Data Center's and the builds' loops |
| `lab` | 2 configurations, 3 builds, one of them somebody's, 2 runs of scripts | what can be built is not half configured; a run of `expand_lab.py` that ends completes the plan, after any interruption of others; a cleanup without error has put everything back; one request per configuration in the queue; `check_lab_states.py` stops no build that was there before it; every script ends |

Three runs end in the violation they are there to show, each of a sentence of the documentation:

- `scan_manual_dropped` (`AcceptedRefreshScans`): a manual refresh accepted while another one
  collects is dropped by the executor and creates no scan.
- `scan_recovery_unannounced` (`RecoveryAnnounced`): after degraded, interrupted, success no
  `scan.recovered` is sent, since the interrupted row is the one compared with.
- `outbox_blocked` (`AnsweredDeliveriesSettle`): one undecodable response keeps all later
  deliveries from being posted.

Some properties exempt a case that the code does get wrong or leaves open, each named in the
comment above the property: logs that are cut or missing and still count as read
(`FreshWasReadToTheEnd`, `KnownOutputsKept`), a TeamCity
project created without its description, which the next run refuses (`RerunCompletes`), the links of Bitbucket Cloud and
of TeamCity's configurations that are followed without a check (`ScanEnds`), entries and builds moved across a page boundary by one that
vanished (`ListingMissesOnlyMoved`, `StartedBuildsKnown`), a build somebody queues that TeamCity
merges with a script's request (`EarlierBuildsStay`).

`TypeOK` is checked in `scan_hostile`. It is proved for `ScanRefresh`, `GraphCache`, `BuildHistory`,
`Outbox`, `BuildInputs`, `LabTools` and `Browse`; the one of each other module documents its state.

### Why the bounds are enough

Histories of two or three rows against three or four scans prune in every run. Two contents
tell "changed" from "unchanged". Three scans are degraded, recovered and interrupted in every
order; five with three snapshots kept give an alert a history to be wrong about, with one
build that comes, changes its outputs and goes. Two saves let a thread compute
across an invalidation and across two; three keys against two entries and three bytes evict by
either limit and by several entries at once. Two attempts have a first and a last one. Three builds
against batches of two and a cache of one make a second batch and evictions. Three entries on pages of two have a boundary for a vanishing
one to move another across, and the second change can put one back; two scans let the
second find what the first stored. Two runs of scripts let each one find what any other left. Five repositories with pages of two
make first, middle and last pages, one repository each project hides, and one without a
project; a shared TeamCity project has configurations of both, of one and of no repository. Two builds on
pages of one let the deletion of the first move the second past the place read; with two time units
and a reconciliation period of two a full reading, an incremental one and the next full one fit.
A TeamCity clock ahead of the service's
dates builds later, which only brings them into the overlap; the instance has it behind, the proof covers both. Bounds that only cut the
state space (`MaxScans`, `MaxVersion`, `MaxEvents`, `MaxRequeues`, `MaxRestarts`, `MaxTime`)
are named in the modules and appear only in guards.

### Fairness

`ScanRefresh` assumes weak fairness of each task's steps and of the scheduler taking its job:
the event loop runs ready tasks, every upstream call has an httpx timeout, a transaction ends
one way or the other. A waiting task's steps are enabled when it heads the queue, which is
FIFO in `asyncio.Lock`, so weak fairness suffices. Nobody is obliged to ask for scans, to
restart, or to crash. `Outbox` assumes that time passes, that the job runs each minute and
that a POST ends; no fairness makes a receiver accept. `Providers` assumes that a request ends, since httpx has
a timeout for it, `LabTools` that the script makes its next call and that its deadline passes;
no build has to start or finish. `GraphCache`, `BuildHistory`, `BuildInputs` and `Browse` state
safety only.

Deadlock is checked in every run; `ScanRefresh` and `Outbox` have an explicit `Quiescent` stutter
and `Providers` and `LabTools` one called `Quiet`, enabled only when nothing is left to do.

## 4. What is proved

All proofs hold for any contents, limits, numbers of scans, rows, threads, keys, builds and sizes, from
the assumptions named in the modules (limits are positive, `Empty` is not a content, garbled
rows are rows, sizes are positive, repositories and files are finitely many, a listing names each
entry once, ids of different kinds differ, the orders of ids and of builds name each one once, and
what the providers answer is about known repositories and builds).

**Scan pipeline** (`ScanRefreshProofs`). The listed properties are not inductive: that a scan
closing as "success" describes the graph depends on what its task knew three transactions
before. `TaskInv` writes that down, point by point: in the block the task heads the lock
queue and its row is `nextId - 1` and running; while `saving` it carries a collected graph;
while `staleSaving` a non-empty one marked stale; after `Save` the graph equals it; at
`closing` the snapshot equals the graph and the status follows from it, unless it is "failed"
or unbound. `NoFutureRows` makes the newest row and snapshot safe from their own pruning
(`OwnSnapshotKept`, `ClosedRows`), and
`RoomKept` says that the bound on scans leaves a row for each waiting task. `OthersInactive`
(only the head of the queue is in the block) reduces each step to its own task, so
`BlockStepInv`, `EnterInv` and `LeaveInv` treat the lock once, and one lemma per action
remains. From the invariant follow `TypeOK`, `RunningScanKept`, `ProgressHonest`,
`NewestScanDescribesGraph` and the action property `UsableGraphKept`, with all faults
allowed.

**Histories, alerts, readers** (`ScanRefreshProofs`). `HistoryInv` adds to that invariant what the past
looks like, still under any fault. `RowsInv`: the rows kept are the newest ones, the row before a
running one included, so pruning only takes from the old end; `HistoryIsBounded` follows.
`AlertsInv`: a degraded alert belongs to a degraded or pruned row, and in a stretch of closed rows
that an announced degradation begins, without a recovery, every row is degraded and not announced
again. It needs `FallbackInv`, that a scan after a degraded one has a graph to fall back to and so
does not fail. `OutputsInv` speaks of consecutive successes that are both kept: the next success
compares with the newest one that is left.

The refinement and the readers hold for orderly restarts only (`Orderly`: the faults are at most
restarts; with crashes both are false, as section 2 says). `ScansTakeEffectAtOnce` takes the step
of each action to one of `AtomicScan` or to a stutter: `Begin` opens a row; `Save`, of a collected or of the
previous graph, publishes; a failed collection without a previous graph fails; every other step
is a stutter, its effect counted already (`OrderlyInv`: what a task holds as the previous graph is
still the graph). `PublishedInv` says of the mapped tables that the graph is the newest snapshot; it
is an invariant of `AtomicScan`. Between two runs of transactions the mapped tables are the concrete
ones. Inside a run `StoryInv` carries on what they told before it: until the snapshot is written
the old one is the newest and is what the task holds as the previous graph, until the status is
written readiness follows from the old rows, which `Begin` and pruning do not disturb. Together they
give `ReadersDoAgree` for every state, those between two commits included.

**Outbox** (`OutboxProofs`). `AttemptsAccountForReceipts`, `PendingHasAttemptLeft` and `BatchIsPending`
are inductive together with the types, with `UnbornUntouched` (nothing was received of a row not yet
written) and with `InFlightLeftBatch`: a row has left the batch
when it is posted, so settling it leaves the batch pending. A requeue sets the attempts to 0 and forgets no more than
`MaxAttempts` of them, by the types.

**Response cache** (`GraphCacheProofs`). A thread's reads are `Recent` as long as its
generation is the current one, and never older than `since`; generations only grow until a
restart, which ends every thread. Hence what `Store` accepts is current, and every reply
follows the saves that had returned. `AccountInv` is the accounting: the LRU order lists the keys
that are kept, each once (`Ordered`), and the byte count is the sum of their sizes. The sum is a
fold; that its recursive equation has a solution, whose value does not depend on the element
picked first, is shown by taking a smallest counterexample (`LeastNumber`). Eviction drops a prefix of the order, the shortest that
gets back within both limits; `Popped` relates its bytes to the sum, which gives `SizeIsAccounted`.

**Build history** (`BuildHistoryProofs`). `EntryInv` says what a stored history is good for at any
later time: builds that started before its watermark, less the skew, and inside the look-back are in
it with their dates unless they are `missed`, and what it shows was there at the last full reading. It survives everything TeamCity does, since
states only advance. While a listing is read, each build that started before the scan has been read, is missed, or stands
at a `Position` beyond the pages read: a deletion moves builds up by one place, and those that cross
the place read are just `MovedUp`; a build that starts moves none of them up. A scan inherits what its
stored history had missed and drops what its pages show. `UpdatesInv` and `AskedInv` say what a scan knows of each build after each of
its requests, against `scan.begun`, TeamCity as the scan found it. The three properties follow for any
look-back, overlap, reconciliation period and skew up to the overlap.

**Build inputs** (`BuildInputsProofs`). Data is `Sound` for a build when it is one of its `Readings`: what a
reading gets that TeamCity answered to its end, whole, cut or less. That both caches, the nodes of
finished tasks and those gathered so far are sound is inductive with the types, and gives
`FreshWasReadToTheEnd`; it fails as soon as artifacts are cached before the log was read or a failed
task counts as done. `BatchBounded` and the
counting lemma `BatchSize` (the builds that fewer than `Concurrency` others come before are no more
than `Concurrency`) give `RequestsBounded`. For the action property `KnownOutputsKept` the
invariant also says that a scan under way would lose no outputs (`ScanKeeps`): the graph stays
as it was when the scan began, only ended builds have outputs, and a build the scan takes for
a running one had none then.

**Lab scripts** (`LabToolsProofs`). The state of a script is the sequence of calls it still has to
make, so the types say which calls each phase makes (`CallsOf`), and the other properties follow from
what is still in the sequence. `Kinds` reduces every step to a few kinds: the script ends, a call
that changes nothing they speak of, one fact read, one written, a phase begun. `ConfigInv` then says
that no configuration is half configured and active (`Sound`), that what preflight saw is an entity as a whole
(`SeenInv`), that `expand_lab.py` still writes whatever is missing, each configuration's
parts before its activation and an activation after each pause (`ExpandInv`), and that a temporary
change differs from what was seen by what its cleanup still restores (`ChangeInv`). `CancelInv`
does the same for the builds a cleanup still has to stop. `EarlierInv` gives `EarlierBuildsStay`: a script that goes on
after its idle check has seen no build running and then none queued, so none of the earlier ones waits
any more (`QueueLeft`), and since TeamCity answers a request only with a new build or one that waits,
what answered was queued later. `RequestInv` for the requests of
`run_lab.py`: each configuration is judged right after its queue was counted, and nobody else of
the script queues in between. `HalfConfiguredIsPaused` needs no assumption on how a run ended: a
killed script, a lost answer and a failed call are steps like others.

**Provider clients** (`ProvidersProofs`). A property of what a scan has read follows from what it has
still to read. For listings (`MissInv`): every entry that was listed all the time has been read, is
still to come, or belongs to a set no larger than the number of entries that vanished. To come
means a `Rank` in its project beyond the offset of the next request, so the proof is about how ranks
change: an entry that appears moves others away from the offset (`RankAfterInsert`), one that
vanishes moves at most one across it (`RankAfterRemove`), and a page holds all ranks up to the next
offset (`PageCovers`). For revisions (`RevisionInv`): while branches are paged through, the default branch
lies beyond the offset, had no commit, or a branch was deleted. For sources (`SourceInv`): each file is read, to
be read, or of a repository still asked for, whose index holds its tree up to the offset;
`StoredInv` says the same of a cached entry and the revisions it is stored under. What a project lists
(`Entries`) is a recursive function; that it has a solution is shown by a smallest counterexample.
The proof found two mistakes of the model which the bounds of its run had hidden: the index of a
repository was begun at the last offset of the listing, and the cases of `BranchPage` overlapped.
The model now does what the code does, and the run has a project with a second entry.

**Browsing** (`BrowseProofs`). `BrowseInv` is small: the graph is `Collected`, the last answer is a
`GraphReply` to the saved graph, and while no scan has intervened the pages seen are the first ones
of the sorted candidates, up to the cursor (`Reached`); `PagesPartition` follows. The work is in the operators.

`Collected` says what a saved graph satisfies whatever the providers answered and whichever version
saved it: links only run along the chain project, repository, TeamCity project, configuration, build;
each configuration is in its place; a configuration's owners are repositories of the graph linked to
its TeamCity project, and such a link has an owner behind it; status and branch are those of the graph. From it
follow `ColourIsImpact` and `MappingFactsAgree`, by computing branch, status and impact of each
kind of node in terms of `Owners` (`OutputBranchIs`, `StatusIs`, `RepositoryImpactIs`); what is below a
configuration, a walk in the model, is one step to its builds because the chain ends there.

`Shown(g, R, limit)` describes the page around the repositories `R` by a formula. `Around` in memory
and the rows of the joins in SQL are both equal to it, the latter with the build limit, and a search
among these rows finds what it finds in the whole graph. That the second selection
takes the same page needs that sorting a page gives that page: the
elements of `InOrder` are those of the set in the order's order, and a list in this order is determined by
its elements (`AscendingIsUnique`, by a smallest counterexample), hence `SortedPage`. What is left between the
two is the older builds: `Trimmed` relates a page with the newest builds of each configuration
to the page with all of them; filters that do not look at builds keep this relation and the
final limit makes both equal, while SQL loads all builds for a filter that does. That is
`SqlSearchAgrees`. `OwnConfigurationsOnly` and `MatchingHistoryShown` are read off `Shown` as filters and limit
narrow it. Of the walk of a general search (`ConnectedLineage`) the proofs only use that it is a
set of nodes: the two properties about repositories' pages do not speak of it.

Only model-checked: liveness, which is out of the prover's reach. Every invariant and action property of the
passing runs and the refinement are stated by a theorem.

## 5. What is not modelled

Text is not: scripts, logs, URLs, YAML, SBOM contents and rendering are data without structure
here. Authentication, settings and response headers hold no state a scan depends on. The
browser's script keeps a stack of cursors and draws what arrives last; it shares nothing with the
service but its requests. Demo data and the deployment scripts prepare environments; of the lab's
scripts, `bootstrap.py` and `bootstrap_cloud.py` are one pass of creating calls, `validate_lab.py`
compares texts, and `teamcity_builds.py` keeps one build per configuration active as
`run_lab.py` does. Inside the modelled
parts: the length of backoffs and TTLs (any length), payloads and signatures, counters and
percentages of the progress display, the canonical form and hash of a snapshot, the registry
client, an explicit list of configuration ids, and the database's own isolation beyond what the two queries of
`/api/graph` can see.

## 6. Plan

1. Done: scan pipeline with its abstract specification and its readers, response cache, outbox, build
   history, build inputs, browsing with mapping and impact, provider clients with sources, diff
   and timeline, lab scripts.
   Proofs of every safety property that a run checks, and of the refinement.
2. If room is left: the configuration loop of `collect_live` with manifests; backup and restore;
   the browser's polling.
