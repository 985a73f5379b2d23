# Formal verification of recon-platform

TLA+ specifications of `recon-platform`, TLC configurations that model-check
them on small instances, and theorems about them that the TLA+ proof system
checks.  The program is an asyncio server (`recon serve`) with a web interface,
a REST API and a command line; it runs *scans* of an engagement: a sequence of
modules in the phases osint, passive and active, with a human checkpoint before
the active phase, a kill switch, hard timeouts, resumption after pauses and
crashes, and a request pace limited by the engagement's Rules of Engagement
(RoE).  Everything that is hard in it is concurrency in one event loop, state
split between database rows and process memory, and restarts in between.

## 1. Inventory

| Component | Source | State | Operations | Talks to | Hard because | Correct when |
|---|---|---|---|---|---|---|
| Scan orchestrator | `orchestrator/scans.py`, `models/scanrun.py` | rows `ScanRun`, `ScanModuleRun`; `_handles`, `_tasks`, the local set `completed` | start, resume, sign off, cancel, execute, shutdown, reap_orphans | modules, bus, correlation, kill switch | awaits between reading and writing a row, a finally block that touches shared memory, crashes between two commits | passive first, one driver, no orphan, nothing lost or run twice, terminal states kept |
| Kill switch | `orchestrator/killswitch.py` | one flag in memory | engage, reset | polled by start, resume, the executor's loop, `check_alive` | fires at any await | with the orchestrator |
| Request pacing | `net/rate_limit.py`, `net/backoff.py` | bucket, lock, window of outcomes, cool-down | acquire, update_rate, record | HTTP client of a run, shared by its modules | retuned while a coroutine sleeps inside the lock; cancellation | ceiling kept, nobody hangs, rate recovers |
| HTTP client | `net/http_client.py` | redirect chain, semaphore, audit rows | request, acquire_slot | scope, pacing, audit | a redirect leaves the scope; one audit row for each hop | no request out of scope without the override |
| Event bus | `orchestrator/events.py` | `_subs` (bounded queues), `_recent` (replay) | publish, subscribe, unsubscribe | orchestrator; WebSocket and `--wait` clients | replay beside live events, full queues, stale events | no gap, no swap, waiters leave |
| Command line | `cli/app.py`, `cli/client.py` | none | start, resume, checkpoint, status, `--wait`, `--yes-active` | the service in process, or REST | follow-up calls after a launch | as the bus |
| Module context | `modules/base.py` | batch of unsaved rows, coverage | add_asset, add_evidence, flush, check_alive, mark_* | every module | partial batches and a rollback on timeout | what was flushed stays, coverage adds up |
| Module registry | `modules/registry.py` | none | resolve_order | orchestrator | sorting by phase beside dependencies | a dependency comes before its dependant |
| Scope and RoE | `core/scope.py`, `core/roe.py` | none | classify, resolve | HTTP client, targets, correlation | precedence of exclusions | exclusion wins |
| Target resolution | `modules/_targets.py` | none | resolve | active modules | in-scope, live, deduplicated | only permitted targets |
| Correlation | `correlation/engine.py`, `models/asset.py` | assets, relationships, attributes | correlate | orchestrator (checkpoint and end), scan_diff | two runs of one engagement at once; sets iterated | independent of the order, idempotent |
| Scan diff | `modules/active/scan_diff.py`, `models/snapshot.py` | snapshots | run | correlation | the baseline after a resume | a delta to an earlier run |
| Audit log | `core/audit.py` | append-only rows | record | HTTP client, context | dropped with a rolled-back batch | a row for every request |
| Engagements | `orchestrator/engagements.py` | engagement row and all below | create, archive, purge | orchestrator | purge beside a running scan | nothing half deleted |
| Authentication | `orchestrator/auth.py`, `tokens.py`, `core/security.py` | users, sessions, tokens | set-up, login, logout, revoke | web, REST | check then insert at set-up | one first administrator |
| CVE index | `orchestrator/cve_index.py` | index tables | refresh, lookup | cve_correlate | pagination, merge over old records | what a complete refresh says |
| Active modules | `modules/active` | evidence, audit rows, an external tool | run | targets, context, client, `run_command` | cut off anywhere between audit, launch and parsing | nothing out of scope, every action audited |
| Passive modules | `modules/passive` | evidence; frontier of the crawler and of the recursion | run | context, client, DNS | gathered coroutines, circuit breakers, budgets | what is recorded was asked for and answered |
| OSINT modules | `modules/osint` | evidence, clone directories | run | context, third parties, git | sources that fail one by one, shared blobs | what sources told, once and attributed |
| Artifact store | `artifacts/store.py` | files | put, get | modules | temporary name shared by writers | content matches its name |
| Processes, analyst, reporting, web, database | see `PROJECT.json` | mostly none | - | - | I/O and formatting | - |

Interactions.  A request handler calls `ScanService`, which commits a row and
creates a task.  The task alternates commits (other tasks can see and overwrite
rows: sqlite, `expire_on_commit=False`, so the ORM writes back what a session
loaded, last writer wins) with module code, which uses the HTTP client and so
the shared bucket.  Rows are committed first, events published afterwards.
Clients poll rows and read events.  A restart forgets handles, tasks, the kill
switch and the bus, and `reap_orphans` repairs rows before the first request.

The hazards that follow from this are listed, each at its line, under
`hazards` in `PROJECT.json`, with the property that covers it or what is missing.

## 2. What models what

| Modules | Model | Checked in |
|---|---|---|
| `ScanRun`, `RunLifecycle` | one run: executors, requests, restarts; its abstract life cycle | `MCScanRun` |
| `RequestPacing` | token bucket, back-off, connections | `MCRequestPacing` |
| `EventStream` | bus of one run and its readers | `MCEventStream` |
| `ModuleSession` | requests, audit rows, evidence and the database session of a run's modules | `MCModuleSession` |
| `ModuleWork`, `TargetResolution`, `ActiveModules`, `NameDiscovery`, `WebModules`, `OsintModules`, composed by `ScanModules` | scope, known facts, targets and the bodies of twenty modules | `MCPlatform` |
| `Correlation`, `ScanDiff`, `Crawl`, `GitSecrets`, `Accounts`, `CveIndex` | one component each | `MCPlatform` |
| `Ordering` | the order-keeping loops that `Crawl` and `GitSecrets` have in common | - |
| `ScanRunProofs`, `RequestPacingProofs`, `EventStreamProofs`, `ModuleSessionProofs` | theorems about the module of that name | - |
| `ScanModulesProofs` | theorems about the module bodies | - |
| `RecordsProofs` | theorems about `ScanDiff`, `Correlation`, `CveIndex`, `Accounts` | - |
| `WalkProofs` | theorems about `Crawl`, `GitSecrets` | - |
| `PlatformProofs` | theorems about `MCPlatform`, from those of its components | - |

The models meet at named abstractions.  `ScanRun` takes a module as one of its
outcomes; `ModuleSession` opens that module up, down to requests, rows and
commits, and takes what the module asks for as free choices; `ModuleWork` and
its extensions say which requests and rows a given module makes, and take a
request as the set of hosts contacted and a row as recorded at once.
`RequestPacing` is the one call in which a request of `ModuleSession` waits.
`Correlation` folds the rows that modules leave, and `ScanDiff` compares what
correlation and port_scan have made known.

### ScanRun (with RunLifecycle, MCScanRun, ScanRunProofs)

One run of `scans.py`.  The rows are `status`, `activeConfirmed`,
`modulesCompleted`, `modStatus`, `skipReason`; process memory is `proc`,
`killSwitch`, `handle` (the entry of `_handles`), and for each executor slot
`pc`, `at` (the position in `ordered`) and `completed`.  `req` and `seen` are the
requests being served.  A crash keeps the rows and forgets the rest.

| Actions | Code |
|---|---|
| `StartScan`, `ResumeRead`, `ResumeCommit`, `Launch`, `PreAuthorise` | start_scan, resume_scan (read and write are two steps, an await apart), _launch, `_preauthorize_active` of the CLI and REST |
| `CancelScan`, `EngageKillSwitch`, `ResetKillSwitch` | cancel_scan, the kill switch |
| `Load`, `PauseAtHead`, `SkipCompleted`, `HoldActive`, `AwaitCheckpoint`, `StartModule`, `Finish` | the loop of _execute_inner and its helpers |
| `ModuleReturns`, `ModuleFails`, `ModuleTimesOut`, `ModuleCancelled`, `PauseAfterModule`, `AppendCompleted` | _run_module and each of its except branches |
| `TimeoutWriteLost` | _force_module_failed, whose write fails and is suppressed: the row stays RUNNING and the loop goes on |
| `Raises`, `FailRun`, `FailRunLost`, `Close` | an exception out of _execute_inner (the append of a finished module included), its handler, that handler's own write failing, the awaits before the finally block and the block itself |
| `Shutdown`, `CutOff`, `Stop` | shutdown, which cancels the tasks that outlast its ten seconds; exit or crash |
| `ReapOrphans`, `ReapFails` | start-up, and a start-up whose reap_orphans raises: `main.py` logs that and serves |

Atomicity: a step goes from one await at which another task can observe or
change what it depends on to the next.  A decision is merged with the write that
follows it where no other task's step in between makes a difference; correlation
is merged with the end of the run; the load of the module's session is merged
with the row becoming RUNNING.  A helper that opens a session, reads a row and
commits is one step; `resume_scan` is not, because what it read is checked
by the caller across an await: it is the two steps `ResumeRead` and
`ResumeCommit`, and `Launch` is a third.  A module is abstracted by its
outcomes: it returns (its row untouched, or marked SKIPPED with or without the
reason `zero_eligible_targets`), raises, times out or is cancelled.  The hard
timeout of a module is modelled by its effect, at any moment.

Three writes may fail for good, and none of them is assumed away: that of a
time-out, that of FAILED at the end of a run, and the whole of reap_orphans.
Two history variables remember them: `lost` has the modules whose time-out is
not in their row, `stranded` says that the end of a RUNNING run is not in its row.
`NoOrphanedRun`, `RunningRowOwned` and `RunStops` hold but for a stranded run;
`CheckpointAfterPassive`, `CompletedCoversAll` and `SignOffInformed` count a lost
module as over (`Over`), which is what the loop does with it.  What the documents
promise without these exceptions is not so in the code; two findings say it.

`RunLifecycle` is the abstract specification: status, sign-off and the list of
completed modules with the moves an operator may rely on.  `ScanRun` instantiates
it (`Lifecycle`) and `KeepsLifecycle` is checked as a property and proved.

### RequestPacing (with MCRequestPacing, RequestPacingProofs)

The token bucket, the back-off and the order in which a request passes both.
Time is counted in ticks, tokens in units; durations are kept relative to now,
so the clock itself is not a variable.  `queue` is the asyncio lock of the
bucket: its head holds the lock, also while it sleeps (`nap`).  `Grant` and
`Doze` are the two outcomes of one turn of the loop in `acquire`; `Leaves` is
what follows: a request reads the cool-down, a raw connection (`acquire_slot`)
does not.  `Record` is `BackoffController.record` with the `update_rate` that
its caller makes of the result, which always happen in one step, so `rate` stands
for both attributes.  `Abandon` is the cancellation of a coroutine by the hard
timeout of its module, wherever it waits.  Halving and the recovery factor 1.4 are
rounded up to a whole unit.  `elapsed` saturates at one second, where the bucket
is full whatever its rate.  A cool-down is at most 15 s, so that the limit of 30 s
on the sleep never binds and is left out; the counter of trips is left out.
`ceiling` is a history variable: the level of a bucket refilled at the RoE's
own rate, from which the same grants are taken.

### EventStream (with MCEventStream, EventStreamProofs)

The bus of one run and its readers: `--wait` clients, who leave on a stop
event, and dashboards, who do not.  `publish` has no await and is one step.
A stop is two steps, `Halt` (the commit) and `SayStop` (the event, awaits
later).  A restart forgets the bus and publishes nothing.  `mark`, `taken` and
`lost` are history variables: how far the run was at the subscription, the last
event taken, and whether the bus dropped or forgot an event for this reader.

### ModuleSession (with MCModuleSession, ModuleSessionProofs)

What the coroutines of a module do to the HTTP client and to the module's one
database session, and what `_run_one_module` does with that session in each of
its branches.  A coroutine (`worker`) is idle, at the scope gate, in flight, or
about to record what it found.  `Send`, `Blocked`, `Answer`, `RequestFails` and
`Redirect` are `_single_request` and the loop of `request` around it, one hop at
a time; each adds its audit row through `Audit`, whose outcomes are those of
`add` and `_tick`: the row joins the batch (`AddOk`), the write fails and spoils
the session (`Fail`) and the row goes to the fallback log (`AuditInModule`); between
two modules (`AuditAlone`) the client writes the row through a session of its own,
or to the fallback log.  A request begins at a target or at a public service
(`ThirdParty`) and keeps that `is_target` over its redirects, which lead anywhere:
a hop of a public service's answer is not classified, whatever it leads to.
`FetchTimeout` is the time limit that a source has of its own.
`AddEvidence` and `StrayEvidence` are `add_evidence` of a live module and of a
coroutine that outlived it: the latter fills the batch of the old context and
commits it when it is full, and begins further requests until a `check_alive` of
its own stops it; `StrayFails` is an exception that nobody reads.  `Returns`, `ModuleFails`, `WriteFails`,
`ModuleCancelled`, `ModuleTimeout` and `HardTimeout` are the branches of
`_run_one_module`, `RunFails` an exception out of one of them, the handler's commit on a
spoilt session included; `Cancel` and
`Deadline` are what `check_alive` will raise for.  A time limit may cancel the task
in the middle of a write (`Tear`): the session is spoilt as by a failed write and
what it held is lost; `torn` counts these.  A module whose `gather` raised
leaves its other coroutines running: they go on with the shared client while the
next module runs.

### Module bodies: ModuleWork, TargetResolution, ActiveModules, NameDiscovery, WebModules, OsintModules, ScanModules (with ScanModulesProofs)

`ModuleWork` holds what every body uses: `Classify` (`ScopeManager.classify`
with its precedence; of a network, which `is_safe_target` lets through up to 256
addresses, `NetworkOf` is the address it is classified by), `MayTouch` (`scoped_targets`) beside `MayRequest` (the
client's gate, which an override opens for everything), `Known` and
`KnownAssets`, and the ways a body ends (`BodyReturns`, `BodyStops` at a
`check_alive`, `BodyCut` anywhere).  A behaviour learns up to `MaxFacts` facts
- evidence of this or an earlier run, correlated assets - and then runs one
module over them.  `todo` is what its loop has left, `seen` what it remembers,
`touched` the hosts contacted past or through the client, `audited` its audit
rows, `noted` its evidence, `tool` the external process.

| Module | Source | Actions |
|---|---|---|
| `TargetResolution` | `_targets.py` | `Resolution` is `resolve_targets` as a function of the facts: candidates, trust, exclusion, one candidate kept for each value in each of the two stores (`BestOf`), uncovered networks |
| `ActiveModules` | port_scan, dir_fuzz, exposure_checks, dns_axfr, subdomain_brute | audit, launch, wait and parse of a tool, or output that cannot be parsed; exposure checks path by path and then GraphQL; name servers one by one, each asked, audited and recorded in three steps; wildcard, batches and audit row of a brute force |
| `NameDiscovery` | dns, ct_subdomains, subdomain_recurse, subdomain_permute, subdomain_takeover, internetdb, email_security | queries type by type with the circuit breaker; rounds, seeds and pivots; wildcard answers of each apex; the mta-sts host of a domain (`MtaStsOf`) |
| `WebModules` | probe_http, http_analyzer, tech_fingerprint, js_analyzer | gathered probes that may outlive their module; https before http, and row after row of what answered; the TLS handshake past the client, its row and its audit row |
| `OsintModules` | passive_subdomains and its sources, passive_urls, wayback, github_org | sources one by one, budget, cap, emission by domain; corroboration of an account |

`ScanModules` is the specification `WorkSpec` of all of them: facts are learned,
an override may be given, then one module runs.

`DnsElsewhere` is another run of the process that uses the same module
singleton and so the same counters.  What a parser finds in an answer is a
choice over what it may find, and what `filter_soft_404` keeps of the answers of a
root any choice among them.  Steps are cut at the awaits a property can see: rows
that http_analyzer writes about one answer, the records of one granted zone, and
the lookups that tell which apexes are zones, are one step each.  `AddressOf`, what
port_scan's own lookup finds, leads into no excluded network in the instance; what
the evidence of a run says of addresses does.

### Correlation (with RecordsProofs)

`KeysOf`, `HintsOf`, `Parents`, `Interest`, `ScopeOf`, `Confidence` translate the
routing and scoring of rows, `Upsert` the merge with an existing asset, `Fold`
and `EdgesOf` the whole of `correlate` as a function of the rows and the graph
it reads.  A correlation is two steps, `CorrBegin` (what it reads before its
first write) and `CorrCommit`, since SQLite starts a transaction with the first
write; `CorrAbort` is the unique constraint, or the end of its process.
Rows are in the order of their random ids, so `AddRow` inserts anywhere.

### ScanDiff (with RecordsProofs)

Three runs read the signatures, read the latest snapshot, write delta and
snapshot, and emit evidence, with a commit wherever the batch is full
(`Committed`).  `DiffFails` is a stop or an exception, where the handler flushes
the batch; `DiffDies` is the end of the process or a failed write, which lose it.

### Crawl (with Ordering, WalkProofs)

The breadth-first walk: `CrawlPass` is the series of early `continue`s,
`CrawlPage` and `CrawlFails` the fetch, `Enqueued` what `_enqueue` adds.  Each
initial state is another web.  A site's order of links is kept because the
limits make it matter: `Followed` are the places of the links to follow, and
`Ascending` (module `Ordering`) takes them from the top of the page down.

### GitSecrets (with Ordering, WalkProofs)

Clone, log, commit after commit and blob after blob, with a failure or a
time-out at each process, and the directory removed in the `finally`.
`Collect` and `Rows` are loops that leave some of a list out and keep its order;
both take the places they keep with `Ascending`.  The history of a repository
and the row of each secret are kept in the order they are read.  A commit is the
list of its paths with their blobs; of a merge git lists none.  `Scannable` leaves
out what `_read_blobs` and the walk do: blobs over 10 MB (`Outsized`) and binary
ones.  A blob stands for all its matches: that one text may give several rows is left out.

### Accounts (with RecordsProofs)

A request reads (`SetupCheck`, `LoginVerify`, `Resolve`, `ChangeVerify`) and
later writes (`SetupInsert`, `LoginStart`, `Touch`, `ChangeCommit`): two of them
interleave in between.  A password is a number, its hash the same number.
`newest`, `closed` and `clashed` are history variables.

### CveIndex (with RecordsProofs)

`RefreshKev`, `RefreshPage`, `RefreshMerge`, `RefreshFlush` are one refresh over
a feed that may change between them (`FeedChanges`), beside another refresh.
`CveLoad`, `CveMatch`, `CveLibraries`, `OsvLookup` are cve_correlate.  Merge and
flush are two steps; as `session.merge` flushes on the way, the code leaves less room
between them than the model.  The row of `CVEIndexMeta`, which nothing here reads, is left out.

### MCPlatform (with PlatformProofs)

The components from `Correlation` to `CveIndex`, and the module bodies, share no
state in the models.  `focus` picks one in the initial state and the others
rest, so the state space is the sum of the components' and not their product;
an invariant over the variables of one component is checked on exactly the
states that the component has alone.  What they share in the program - the
session and the client - is `ModuleSession`'s and `RequestPacing`'s.

## 3. What is checked

Each passing run holds for the instance given; all reachable states are explored.

**scan_run_safety** - three modules of which one is active, two executors, one
request at a time, crash, shutdown, cancel and kill switch everywhere.  It shows
`PassiveFirst` (no active module leaves PENDING before the sign-off),
`NoOrphanedRun` (a RUNNING run has somebody who ends that state),
`SingleDriver`, `CheckpointAfterPassive`, `CompletedCoversAll` (COMPLETED means
every module is over), `ResumeListTrue` (the list a resume skips by and the
module rows, written in two transactions, agree), `RunningRowOwned`; the action
properties `RecordedNotRerun` and `SignOffInformed`; and that the whole
implements `RunLifecycle`, in which terminal states are final.  The three failing
writes of section 2 may happen at every step.  Executor slots are reused, so the number of
pauses, resumes, crashes and cancellations is unbounded: two slots are a closing
executor and its successor, three modules are two that are carried over and one
behind the checkpoint.  The two executor slots are interchangeable, hence the
symmetry set (a safety run only).

**scan_run_live** - two modules, fairness.  `RunStops`: a RUNNING run of a live
process comes to a stop, unless the write that would end it fails.  `CancelConsumed`: a cancelled handle does not stay.

**request_pacing** - two coroutines and one connection (so that they queue at
the lock and at the semaphore), a bucket of two ticks a second, rates of 2 to 6
units with a token of 4, a cool-down of 3 ticks, a window of 4 outcomes:
small enough to fill, to trip, to reach the floor and to recover.  `WithinCeiling`:
a bucket of the RoE's rate would have granted every request too.
`HealthyNeverSlows`: healthy answers cannot trip the back-off on old distress.
`AcquireReturns`: nobody hangs.  `RecoversToCeiling`: after distress, healthy
answers bring the rate back to the ceiling.

**event_stream** - a waiting client and a dashboard, a replay of 2 and queues of
3 events so that both overflow, 5 events in all (`MaxEvents`, the one bound on
a behaviour's length: it is enough for a replay that has been trimmed, a full
queue, a stop, a resume and another stop).  `NoGap`, `MarkTellsHistory`,
`WaitEnds`.

**module_session** - two coroutines to a module, batches of two rows, one failing
write, torn writes wherever a time limit falls.  `focus` in `MCModuleSession` picks
one of two questions in the initial state.  About *rows*: two modules one after the
other, three requests of public services, which no redirect changes; a batch
that fills in the middle of a request, a coroutine that outlives its module into the
next one and goes on there, and a fault in each kind of write all happen.  About
*hops*: two requests of one module and of what outlives it, in chains of up to two
redirects between a target in scope, one out of it and a public service; no second
module runs.  `ScopeGate`: no request begun as one to a target
contacts anything out of scope.  `AuditComplete` (every request sent or refused
has its row, is on its way to it, or is accounted for), `CompletedKeepsAll` (a
module reported COMPLETED lost nothing) and `LossBounded` (a write that failed or was
torn costs one batch).  The two coroutines are interchangeable (symmetry).

**platform** - the other components, one focus at a time.

| Focus | Instance | Properties |
|---|---|---|
| correlation | seven possible rows of one host from several sources, three written in every order, two correlations | `GraphSettles`, `ConfidenceEarned`, `ExcludedNotOffered` |
| diff | three signatures, three runs (a run, one that reads what it wrote, one beside it), batches of three | `DeltaChain` |
| modules | twenty bodies over every two facts each reads, with and without the override; seven hosts of one apex, one of them a network, two addresses, an excluded host and an excluded address, two name servers, two paths | `TargetsAccounted`, `ScopeKept`, `ActionsAudited`, `PassiveTold` |
| crawl | 36 webs of six URLs, each from four lists of seeds, depth 2, four pages, three of a host, so that each limit binds | `CrawlCovers` |
| git | three orders of repositories, three histories: a secret that moves, one first seen at a fixture path, one twice in a commit, a merge, a binary and one too big | `SecretsFound` |
| accounts | two users, two requests at a time, three sessions, sessions that expire at the next tick | `SessionsEnd` |
| cve | two CVEs, two feeds, pages of two that may come short, two refreshers, three changes or refreshes | `CvesTold` |

`Reads` names the kinds of facts each module looks at: started over others it
behaves as without them, so these starts are left out.  The bound of two
facts is enough for every clash of two sources over one value.  `PassiveTold` is
the conjunction of `DiscoveriesGrounded`, `ProbesTold` and `OsintTold`, the
properties of the three families of modules.  `ActionsAudited` bounds what is
without an audit row at every moment of a zone transfer or a brute force, not only
at the end: at most the one name server or apex at hand.  `ProbesTold` says the same
of the rows of a probe: a URL without its liveness row is of a coroutine that is
still at it, or that was cut there.  `CrawlCovers` exempts any URL that was visited
and passed over because its host was at its limit or its seed came later.
`PlatformTypeOK` is the type
invariant of the component in focus.

module_session and platform allow deadlock (`CHECK_DEADLOCK FALSE`): the modules of a run are over
at some time, a walk ends, and the bounded components use up their inputs.

### Disagreements between the code and its documents

Six runs violate one property each, which states what a document or comment
says; `findings` in `PROJECT.json` quotes the line.

| Run | What TLC shows |
|---|---|
| scan_run_handle_lost | the finally block of a closing executor pops the handle that a resume re-armed: the resumed executor cannot be cancelled any more |
| scan_run_double_resume | two resume requests both read PAUSED and both launch: a recorded module runs again |
| scan_run_skip_relabel | a module that ran in this run and found no input is relabelled "ran in an earlier scan run" |
| scan_run_failure | a flush error of one module fails the whole run and leaves its row RUNNING |
| request_pacing_hang | after trips, a floor below one token a second makes a bucket that never holds a token: `acquire` hangs |
| event_stream_stale | `--wait` after a resume leaves on the old stop event of the replay |

Because of the second, the safety run and eight of the theorems about `ScanRun`
are about requests that are served one at a time; the other theorems hold for any
number.

Other disagreements were met while the modules were written; each is listed
under `findings` with the quoted line, and where a property holds only beside
such a case, the property names it: a time-out, a FAILED run or a reaping that could
not be written (`lost` and `stranded` in `ScanRun`), redirects of a public service's
answer that are never classified (`r.target` in `ScopeGate`), a host at an excluded
address that its RoE row keeps eligible (`TargetsAccounted` asks for an eligible name,
not address), lookups without an audit row (`Unaudited` in `ActiveModules` has none), a
resolver given up over another run's counters (`"elsewhere"` in `DiscoveriesGrounded`),
version ranges whose end is
included, findings that never reach a snapshot, excluded hosts contacted under the
override, overlapping set-ups and logins, correlations that overlap, the
dependency check of the registry, the inputs of internetdb, liveness rows of
earlier runs, DNS outages read as dangling names, empty certificates.

### Fairness

`ScanRun`: weak fairness of each executor and of each request in progress,
which is the event loop resuming what is ready, with `asyncio.wait_for` cutting
off a module that does not return.  Nothing obliges an operator to act, a
process to crash or to restart; hence the condition "the process is up" in
`RunStops`.  `RequestPacing`: weak fairness of time, of the holder of the lock,
of sleepers and of answers (httpx has a timeout); strong fairness of
`Connect`, as asyncio's semaphore serves its waiters in turn.  `EventStream`: weak
fairness of the event that follows a committed stop, of a client's subscription
and of its reading; the run itself, restarts and disconnections are not fair.
`ModuleSession` and the components of `MCPlatform` have safety properties only.

### Assumptions of the models

- One server process owns the database, except for `cve refresh`, which
  `CveIndex` runs twice at a time; the purge of an engagement with a running scan
  is not modelled.
- A replay and its end mark fit into a queue (100 and 500 in the code):
  `StreamAssumption`.
- `lost` exempts a waiter from `WaitEnds`: a stop event dropped at a full queue,
  or a restart between a client's request and its subscription, leaves it waiting
  until the run is resumed and stops again, or it disconnects.

- A failed write is a database that stays locked: the session is spoilt until it
  is rolled back, as SQLAlchemy does it; `MaxFaults` bounds how often.  Torn writes
  need no bound: each ends its module or spoils its session.
- Parsers return a choice over what they may find; hashing is injective; a
  process that was left behind ends by itself.
- `Resolution` models addresses and host names; the `zero_eligible_targets` end of
  port_scan exists in `ActiveModules` and is unreachable in the instance, whose RoE
  always names a host.

## 4. What is proved

For every value of the constants that the named assumptions allow:

| Module | Theorem | Statement |
|---|---|---|
| ScanRunProofs | `TypeCorrect` | `Spec => []TypeOK` |
| | `PassiveFirstHolds` | `Spec => []PassiveFirst`, any number of concurrent requests |
| | `NoOrphanedRunHolds` | `Spec => []NoOrphanedRun`, any number of concurrent requests |
| | `SingleDriverHolds` | `Spec => []SingleDriver` under `OneAtATime` (one request slot) |
| | `ImplementsLifecycle` | `Spec => Lifecycle!Spec` under `OneAtATime` |
| | `CheckpointAfterPassiveHolds`, `CompletedCoversAllHolds`, `ResumeListTrueHolds`, `RunningRowOwnedHolds` | the invariant of that name, under `OneAtATime` |
| | `RecordedNotRerunHolds`, `SignOffInformedHolds` | the action property of that name, under `OneAtATime` |
| RequestPacingProofs | `TypeCorrect`, `WithinCeilingHolds` | `Spec => []TypeOK`, `Spec => []WithinCeiling` |
| | `HealthyNeverSlowsHolds` | `Spec => HealthyNeverSlows` |
| EventStreamProofs | `TypeCorrect`, `NoGapHolds`, `MarkTellsHistoryHolds` | the three invariants of the bus |
| ModuleSessionProofs | `TypeCorrect`, `ScopeGateHolds`, `CompletedKeepsAllHolds`, `LossBoundedHolds`, `AuditCompleteHolds` | the five invariants of requests and rows |
| RecordsProofs | `DiffTypes`, `DeltasChain` | `DiffSpec => []DiffTypeOK`, `DiffSpec => []DeltaChain` |
| | `CorrTypes`, `GraphsSettle`, `ConfidenceIsEarned`, `ExcludedStays` | `CorrSpec => []P` for `CorrTypeOK`, `GraphSettles`, `ConfidenceEarned`, `ExcludedNotOffered` |
| | `CveTypes`, `CvesAreTold` | `CveSpec => []CveTypeOK`, `CveSpec => []CvesTold` |
| | `AccTypes`, `SessionsEndHolds` | `AccSpec => []AccTypeOK`, `AccSpec => []SessionsEnd` |
| ScanModulesProofs | `ScopeIsKept`, `TargetsAreAccounted`, `ActionsAreAudited`, `PassiveIsTold` | `WorkSpec => []P` for `ScopeKept`, `TargetsAccounted`, `ActionsAudited`, `PassiveTold` |
| WalkProofs | `CrawlTypes`, `CrawlCoversAll` | `CrawlSpec => []CrawlTypeOK`, `CrawlSpec => []CrawlCovers` |
| | `GitTypes`, `SecretsAreFound` | `GitSpec => []GitTypeOK`, `GitSpec => []SecretsFound` |
| PlatformProofs | `PlatformRunsAll` | `Spec` of MCPlatform implies the specification of each of its seven components |
| | `PlatformTypes`, `PlatformKeepsAll` | `Spec => []PlatformTypeOK`, and the twelve invariants of the components together |

The arguments.

*ScanRun.*  `PassiveFirst` alone is not inductive: an executor inside an active
module, or about to append it, must already have the sign-off behind it;
`SignedOff` adds that for rows, for the list of completed modules and for program
counters, and uses that the sign-off is never taken back.  `NoOrphanedRun` is
inductive together with the types: whoever takes the run out of the hands of its
last executor also writes its status, or is remembered as `stranded`, or the server
is going down (`CutOff`).  `SingleDriver` needs `OneOwner`: executors
that drive, requests that hold a resume, and the status RUNNING exclude or imply
one another; this fails with two requests, which is the finding
scan_run_double_resume.  The refinement maps every step to a step or a stutter of
`RunLifecycle`.  The coverage properties need `Accounted`: an executor's local
copy `completed` differs from the committed list by the modules it has passed
itself, and all it has passed are over by their row or lost to a failed write of
their time-out (`Walked`); `OneOwner` keeps every other
executor from changing that under it.

*RequestPacing.*  `WithinCeiling` needs `BucketInv`: what the bucket holds, topped
up with the time since its last refill *at the ceiling's rate*, never exceeds the
ceiling bucket.  Credit at the ceiling's rate is what survives a retuning in the
middle of a sleep; the actual rate would not be inductive.  `HealthyNeverSlows`
needs `Weighed`: a window that is not empty has been found fit, because a trip
empties it; then one more healthy outcome, though it may push a healthy one
out at the far end, cannot make it unfit - the one place where the proof counts.

*EventStream.*  `StreamInv` says of each reader either that the end mark is at a
place s of its queue with history in front of it and live events behind, or that it
has been taken and only live events are left; together with `Replay`, which says
that the replay buffer is a suffix of what was published.  The sequence numbers
are then arithmetic on places.

*ModuleSession.*  `ScopeGate` is inductive with the types alone: the gate is
passed at every hop in the step that sends, under the `is_target` it began with.  Rows need `RowsInv`: an open
session has lost nothing of its module (`Tallied`), a spoilt one holds nothing
(`Settled`), and no session holds more than a batch (`InBatch`), which is what
bounds the loss of one write that fails or is torn.  `AuditComplete` is then a balance that each
action keeps.

*Accounts.*  `AccInv`: what a request has read still licenses what it will write
(`Informed`), and a session that is not revoked is of the newest password
*whether it has expired or not* (`Sound`); without the last words an expired
session could come back, since a request in flight moves its expiry.

*ScanDiff.*  `DeltaChain` speaks of what is committed; a run that is half way has
part of it in its session.  `DiffInv` says of each run (`Kept`) that the two
together make up what it did so far: from the delta on, the delta leads from the
baseline it read - which stays where it is, since snapshots are only appended -
to the signatures it will write (`Leads`), and each difference is told, held or
still to be written.  A commit in the middle of the batch moves rows from one
side to the other, and a death drops the held side before anything refers to it.

*Correlation.*  The fold is proved about without induction over the rows:
scores are maxima over sets of rows, edges and attachments are unions, so
`Covers` (an asset has all that these rows say of it) is kept by `Upsert`, key by key.
`CorrInv` needs that what a correlation read is not more than was earned *then*
(`Reading`): sources only grow, so it is not more when it is written, however
stale.  Without a race the assets are still as read, which gives `Settled`.

*CveIndex.*  `CveInv` counts what a refresh has fetched by place: an undisturbed
one has all that is listed up to `start` of its band, and with the last page,
which is short or ends at the total, all of the band.  `MatchInv` says of the
matching that a service is still to be looked at or its affecting CVEs are told, unless its rows are
full (`TopN`); the index it loaded is the one that was sound at that time.

*Module bodies.*  Five invariants over one specification, one for each question.
`ScopeInv`: what is left to do is already allowed, since bodies filter when they
collect and not when they contact.  `AuditInv`: what is started is audited, what is
left is not yet claimed; of a zone transfer each pair of domain and server is yet
to come, or was asked, and of those asked all but the one at hand are audited
(`AxfrAudited`, and `BruteAudited` of apexes); a server that is claimed to have refused
is not to come again.  `NamesInv`: a
DNSKEY is asked only of a name with a record; every pivot leads by pivots to a name
known before.  `ProbesInv` says of each host by itself (`HostInv`) that it is to be probed, in the
hands of one coroutine, or told of - never two of them - and which of its rows are
there follows from what that coroutine does next; so a cut may fall anywhere.  `OsintInv`: a source is to be asked, or asked and then
answered or in an error row.  A step of one module keeps the others' invariants
since it notes, audits and contacts under its own name (`Logged`).
`TargetsAreAccounted` needs no state: it is a theorem about `Resolution` as an
operator, for every set of facts.

*Crawl.*  `CrawlCovers` is about what was read; `CrawlInv` adds the queue
(`InOrder`): sorted by depth, spanning at most two depths, never behind what was
read.  From it follows that a page is read at its least depth: a page further up
that links to it would have queued it earlier.  `Read` says of each link that
is followed that it was seen to or waits one level down - not merely that it is
somewhere in the queue, for then it could be read too deep to be followed up.
`Bounded` says why a URL that was taken was not read.

*GitSecrets.*  `SecretsFound` speaks of whole histories; `Recorded` says the same
of the commits before the one at hand, and `Progress` that the blobs seen are
exactly those of these commits.  A commit then adds one row for each secret whose
first occurrence is in it (`CommitRecorded`).  The rows of other repositories do
not touch it, which needs that a repository comes once (`OneEach`): the list is
without repeats and nothing is known of a repository before its turn.

*MCPlatform.*  Each step moves one component and leaves the variables of the
others alone (`OneMoves`), so a behaviour is a behaviour of every component, and
what is proved of a component holds of the whole.

The assumptions are the named `ASSUME`s of the modules, which TLC evaluates in the
runs: sizes and limits are natural numbers, some of them positive, sets that are
counted are finite, constants are functions on what they are applied to.  The few that say
more state facts of the program: `DNSKEY` is not among the record types asked by
default (`DiscoveryAssumption`, `dns.py`), an apex is not again a host below an
apex (`CorrAssumption`), the replay and its mark fit a queue (`StreamAssumption`).

Attempts at these proofs changed the models.  `ScopeKept` and `TargetsAccounted`
had said that no host which the RoE does not match is ever a target; `_targets.py`
does admit one to port_scan when its A record leads into an in-scope network.
TLC had not seen it because no such fact was among the instance's; there is one
now, and the properties name the case.  Where a
definition chose an arbitrary order, it was rewritten so that it can be
reasoned about: queries are sets with an order, pages are counted by place, loops
that filter a list are `Ascending`.

Every safety property that a passing run checks is proved.  Only model-checked is
what needs fairness (`RunStops`, `CancelConsumed`, `AcquireReturns`,
`RecoversToCeiling`, `WaitEnds`) - liveness and ENABLED are out of the prover's
reach - and the six disagreements above, which are counterexamples.

## 5. Not modelled

- **Search engines, RDAP, organisation certificates, cloud buckets** (`osint/search.py`,
  `rdap.py`, `ct_org.py`, `cloud_assets.py`): one query for each item and a parser.
- **The order of modules** (`registry.resolve_order`): a sort of a static table.
- **The RoE document** (`core/roe.py`, `web/roe_form.py`): validation of one text;
  the models take its content as constants.
- **Targets of the type url** in `resolve_targets`: string forms.
- **Engagements**: creation, archive and purge are one transaction each; a purge
  beside a running scan has no documented outcome.
- **API tokens**: a row written once and revoked once.
- **Artifact store**: writers of one name write the same bytes.
- **Analyst, reporting, pages and forms**: read-only queries and rendering.
- **Parsers, hashing, processes**: input and output without state to get wrong
  between two steps; what they may return is a choice in the models.
