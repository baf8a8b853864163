# SafeRoute in TLA+

SafeRoute plans routes over a road network whose segments carry a risk that
comes from incident reports. This directory models the parts of it in which
something runs beside something else, or computes something that is hard to
test: TLA+ modules translated from the TypeScript under `src/`, TLC
configurations that check them on small instances, and TLAPS proofs of the
properties that matter most. `PROJECT.json` lists, for every definition, the
lines of source it stands for.

## 1. The system

An API process (Express, WebSocket gateway), a worker process (two BullMQ
workers), PostgreSQL with PostGIS, Redis, and a web client (Next.js).

| Component | State | Operations | Talks to |
|---|---|---|---|
| Incident reports (`modules/incidents`) | `incident_reports`, `report_confirmations` | create, evaluate, moderate; read one, nearby | commits a row, then adds a job to the queue |
| Job queue, worker (`infrastructure/jobs`, `worker.ts`) | jobs, attempts, up to 4 refresh jobs and one maintenance job at a time | refresh one report's risk; the periodic sweep | safety intelligence, route cache, realtime publisher |
| Incident maintenance | none | expire due reports, refresh these and all active ones | as above |
| Safety intelligence (`modules/safety`) | `road_segments.dynamic_*`, `segment_risk_sources`, `confidence_score` | refreshIncident | PostgreSQL, one statement or transaction per call |
| Route cache (`route-cache.ts`) | a version counter and entries with a TTL in Redis | get, set, invalidateGraph | Redis |
| Route service, engine (`modules/routes`, `routing-engine`) | none between requests | calculate: cache, load the graph, A* per preference | cache, PostgreSQL |
| Sessions (`modules/auth`) | `auth_sessions` | register, login, refresh (rotation), logout; revocation of all | PostgreSQL transactions with row locks |
| Realtime gateway, publisher | connections, heartbeat marks, counts per address, a gauge | start, close, upgrade, broadcast, heartbeat | Redis channel, browsers |
| Web client: page and hook | routes shown and suggested, requests under way, the WebSocket | search, compare, swap, accept, dismiss; react to safety events; reconnect | API, gateway |
| Users (`modules/users`, `auth.service.ts`) | `users`, unique by address | register | PostgreSQL, then the sessions |
| Schema migrations (`migrate.ts`) | `schema_migrations`, an advisory lock | apply each file once, before the server or worker starts | PostgreSQL |
| Process lifecycle (`server.ts`, `worker.ts`) | open requests and jobs, pools | start, serve, shut down under a deadline | everything that has to be closed |
| Request observability (`middleware/request-observability.ts`) | gauge of requests in flight | count a request in, and out at `finish` or `close` | HTTP server |
| Health, other metrics, middleware, configuration, map | see section 8 | | |

How they interact: a report is committed by the API, a job of the worker turns
it into risk of the segments nearby, increments the cache's version so that new
route requests miss, and publishes an event; the gateway passes the event to
every browser, whose page asks for its routes again and suggests another one if
the safest path changed.

What is hard about it:

- *Staleness.* Nothing is held between two database or Redis calls. A refresh
  lists a segment's reports and replaces its risk later; the route cache reads
  its version before the lookup and again before the store; the page's event
  handler uses the routes of the render that created it.
- *Partial failure and retry.* A commit and the `queue.add` after it; a
  `Promise.all` of which one member rejects while the others go on writing; the
  maintenance job, whose retry does not see what its first attempt expired.
- *Locks.* Token rotation and the revocation of all sessions wait for each
  other's rows at READ COMMITTED, and may deadlock.
- *Several processes.* Containers start together and migrate; each may be killed
  in the middle of a transaction; a shutdown waits for requests whose client may
  never finish, under a deadline that the worker does not have.
- *Limits.* Connections are counted up at one event and down at another,
  whichever of several ways a connection ends.
- *Algorithms.* A* with a queue that keeps stale entries, on a hand-written
  heap, with a heuristic the data need not respect.

`PROJECT.json`, "hazards", lists each at its line with the properties that would
catch it going wrong.

## 2. Modules

| Module | Models | Proofs |
|---|---|---|
| `RiskPipeline` | incident service, queue, worker, sweep, `refreshIncident` | `RiskPipelineProofs` |
| `RouteCache` | the cache protocol of `RouteService.calculate` and the worker's increments | `RouteCacheProofs` |
| `SessionStore` | abstract: tokens issued, exchanged and revoked, one step each | |
| `Sessions` | `SessionRepository` and `AuthService` over PostgreSQL's row locks; implements `SessionStore` | `SessionsProofs` |
| `RouteSearch` | graph loading, `aStar`, edge costs, `RouteEngine.calculate` for each preference | `RouteSearchProofs`, `RouteWaysProofs` |
| `MinPriorityQueue`, `QueuedSearch` | the binary heap as functions on sequences; `RouteSearch` running on it; implements `RouteSearch` | `QueuedSearchProofs` |
| `RealtimeGateway` | the WebSocket gateway and the Redis subscription | |
| `RoutePage` | the page's state and handlers and the hook's socket | |
| `Realtime` | composes the two: one gateway, the page, other clients | `RealtimeProofs` |
| `Community` | abstract: accounts, reports, decisions and their counts, one step for each operation | `PlatformProofs` |
| `Deployment` | the containers: `migrate.ts`, start, shutdown, crash | `PlatformProofs` |
| `ApiHandlers` | registration, report and decision handlers, statement by statement | |
| `Platform` | composes the two: handlers and jobs run in the containers; implements `Community` | `PlatformProofs` |
| `MC*` | instances for TLC | |

Constants are the sets and limits of the code (`Concurrency`, `MaxAttempts`,
`MaxConnections`, ...) and the bounds of the check, which say "bound" where they
are declared. Operators called *Mutant* are plausible slips in the code; no
specification uses them. Each is there to show that a property would notice: put
in the place of the definition it varies, it makes TLC refute that property.

### RiskPipeline

One step per database, queue or Redis call. `Create`, `Evaluate` and `Moderate`
commit and leave a handler (`requests`) that has still to `Enqueue`. `StartJob`
takes a job when fewer than `Concurrency` run. `ReadContext`, `WriteConfidence`,
`FindSegments` are the first three calls of `refreshIncident`; then each segment
is a task that does `ListReports` and `ReplaceRisk` by itself, and `AllSettled`
is the `Promise.all`. A task that fails rejects the job at once (`TaskFails`) and
leaves its siblings running as orphans, which may fail in their turn
(`OrphanFails`) without anybody noticing. `Reject` is BullMQ's retry. `WorkerCrash`
is a process that dies with everything in memory: BullMQ finds its jobs stalled and
hands them out again, `MaxStalledCount` times (its default, 1, since `worker.ts` sets
none) beside the attempts; a job that stalls once more is failed (`GivenUp`). The
sweep's `ExpireDueReports` commits before any segment is refreshed.

Two variables are history only: `lost`, the reports whose refresh a failure dropped,
and `muted`, the segments whose increment or event a failure dropped. They name the
exceptions of `Accounted` and `EveryChangeIsAnnounced`; no guard reads them.

An assessment stands for a score by what it is computed from: status and number
of evaluations. Severity, place and roads do not change after the insert, so
which segments are near a report is a constant. Left out: time decay of scores,
clocks that differ, a second worker process, and jobs that BullMQ takes for stalled
while their process lives.

### RouteCache

A result is represented by the number of commits of road weights behind it.
`CommitWeights` and `InvalidateGraph` are the worker's two steps, `GiveUp` a
refresh whose last attempt fails in between. A request goes through `ReadKey`,
`Hit` or `Miss`, `Load`, `ReadKey` again and `Store`; Redis may fail at each call.

### Sessions

The statements of `rotate` are steps of a transaction: `Select` (FOR UPDATE)
takes the row's lock or waits; a row that is not live leads to `RevokeAll`, whose
UPDATE finds the rows that are live in its snapshot and then visits each
(`Revoke`), waiting for its lock and looking at its newest version; otherwise
`Update` and, for a rotation, `Insert`. Writes are private until `Commit`. `Fail`
is a rollback at any step; `DeadlockAbort` is PostgreSQL ending a cycle of waits.
The sessions are those of one user. `SessionStore` is what a client may rely on:
`Issue`, `Exchange` and `Revoke` in one step each. The refinement mapping is the
identity on the committed rows; transactions, locks, waits and rollbacks are
hidden, and every step other than a commit or a single UPDATE is a stutter.

### RouteSearch, MinPriorityQueue, QueuedSearch

Each iteration of a loop of `aStar` is a step: `SkipStale` or `Expand` an entry
of least priority, `Relax` one edge, `Trace` one edge back. Which of several
least entries is next, and the order of edges (that of rows without ORDER BY),
are open. Risks are integers in tenths and costs a hundred times the code's, so
that weights like 0.9 are exact; rounding errors of floating point are left out.
`QueuedSearch` adds the heap: every step of the search runs `enqueue` or
`dequeue` as written and takes what the heap yields. It implements `RouteSearch`,
which may take any least entry, with what is in the heap for `open`
(`ImplementsSearch`).

### RealtimeGateway, RoutePage, Realtime

The gateway's handlers are atomic, as in Node. Between them come the events they
wait for: the close of a terminated connection, a pong, a buffer that drains, the
subscription breaking with what is on its way. The page's requests are answered
in any order or fail; a safety event is handled in three steps with two awaits
between them. An answer is represented by the query it answers. The composition
joins the page's socket with the gateway's connection for it; the page learns of
an opened or lost connection in a later step than the gateway. Message texts,
the length of delays and what is drawn are left out.

### Deployment, ApiHandlers, Community, Platform

`Deployment` is a container: `migrate()` statement by statement (`AcquireLock`,
`Check` at the head of the loop, `RunScript`, `Commit`, `Unlock`), then the
program, then `shutdown()` as the sequence of what it awaits (`RealtimeClosed`,
`Drained`, `PoolsClosed`), the server's `Deadline`, the worker's second signal,
and `Crash`. A script is one unit because it runs in a transaction; files are
numbers in the order of their names. A statement may reject (`MigrationFails`),
also so that the COMMIT took effect and its answer was lost.

`ApiHandlers` is what a request does after its head has arrived: `Receive` (the
body, which may never be complete), then the statements of `register`, `create`,
`evaluate`, `moderate` or the sweep's UPDATE. Inserts and counts of a decision are
private until `CommitDecision`; `SelectReport` holds the report's row, and the
other handlers wait for it. `ExpireReports` is one UPDATE of all due rows and waits
for each of them. `ClientLeaves` lets the handler run on. Of a
transaction that fails the ROLLBACK is a step too.

`Platform` puts handlers into containers: a server takes requests until its
drain is over (`TakesRequests`; after `server.close()` only on connections that
are still open, which are not modelled, so that more may come than in the
program), `Drains` says what `server.close()` and `worker.close()` wait for,
`PoolsIdle` what `pool.end()` waits for, and when a process is gone so are its
handlers, transactions and gauge (`Gone`). `Community` is what the stored data
promise: `Register`, `Report`, `Decide`, `Moderate`, `Expire` (of a set) in one
step each; the mapping is the identity on committed rows.

## 3. Runs

| Run | Question | Instance |
|---|---|---|
| `pipeline_safety` | is every forgotten change one that a failure explains, and every replaced segment still announced? | 1 report, 2 segments, a job and the sweep, 2 changes, 1 failure |
| `pipeline_live` | does the sweep repair every segment that has active reports, and their confidence, and do due reports expire? | 1 report, 1 segment, 2 attempts, 1 redelivery, 2 changes, 2 failures |
| `pipeline_rejected` | does a rejected report end up with no risk? **refuted** | 1 report, 2 jobs, no failure |
| `pipeline_expired` | does an expired one, once every job has finished and the maintenance job has run again after a failure? **refuted** | 1 report, 1 failure |
| `cache` | are answers as new as the last increment announced; do stale results end? | 2 requests, 2 commits, 1 increment |
| `cache_stale` | can an old value be returned after the increment? **refuted (it can)** | 2 requests, 2 commits, 2 increments |
| `sessions` | is a token exchanged once, do revocations stay, does a replay end what it saw, is every refresh answered, and do the transactions implement `SessionStore`? | 2 refreshes at a time, 3 tokens |
| `sessions_replay` | does a replay end all active sessions? **refuted** | 2 refreshes, 4 tokens |
| `search` | are routes optimal and consistent, does the heap do what A* needs, does every step get on? | 6 roads, every assignment of length, risk and distance |
| `realtime` | are limits exact, broadcasts complete, dead clients removed; does the page get back in and settle? | page and 2 clients, 1 place in all and 1 per address, 2 events |
| `platform` | is the schema applied once and in order, do the handlers implement `Community`, does every start, shutdown and request end? | a server and a worker, images with 2 and 1 files, 2 requests at a time |
| `realtime_choice` | is it always the user who replaces the routes of a trip? **refuted** | as above, 2 trips, 2 searches at a time |

What the five refuting runs show, each against a sentence of the repository's
README (quoted in "findings"):

- *A rejected report can keep its risk for ever* (README line 124). A job lists a
  segment before the moderation, another lists and replaces after it, and the
  first replaces last; `replaceSegmentRisk` locks the row only after the list was
  read. With no active report nearby nothing visits the segment again.
- *So can an expired one* (lines 124, 130). A report has been refreshed and its
  job is done; it comes due, the sweep's UPDATE marks it, and the sweep's next call
  fails. The run that follows does its UPDATE again, which returns no row, and lists
  no such report: nothing is left that would visit the segment.
- *A cached value can outlive its version* (line 132): `set` reads the version
  again, so a result computed before the increment is filed after it.
- *A replay does not end every active session* (line 91): a rotation in progress
  carries a session past the `revokeAll`.
- *A safety event can replace the routes of another trip without a choice*
  (line 144): the answer of a search arrives during the handler's awaits.

The properties of the passing runs are the versions of these promises that do
hold, with the exception spelled out: `Accounted` names the failures that lose a
refresh, `EveryChangeIsAnnounced` those that drop an announcement,
`FreshUnlessOvertaken` the one kind of entry that may be stale,
`ReplayRevokesWhatItSaw` the sessions a replay does end.

### Bounds, and why they suffice

- *Pipeline.* A job and the sweep on one segment are enough for every race between
  a listing and a replacement (two jobs are in `pipeline_rejected`, and any number
  in the theorems). In `pipeline_safety` two segments give a task that fails beside
  one that goes on, and one failure of any kind with no second attempt loses what it
  can. In `pipeline_live` two failures exhaust a job's two attempts, or make it
  stall once more than it is handed out again. Two changes put one after the listing
  of the other's refresh. Siblings that go on beside a retry of their own job are in
  the theorems only.
- *Cache.* Two requests, so that one finds what the other stored; two commits
  around one increment. The liveness run has one increment: which versions are
  stale does not depend on how many there were.
- *Sessions.* Two transactions with three tokens of one user give both roles of
  each conflict (rotation against replay, replay against replay) and the deadlock, in
  which a replay wants the row that the other was sent and holds one the other wants.
  A refresh is given a new token only if its own is not revoked already, since
  otherwise the new one is never stored.
- *Search.* The diamond has a node reached first by a dearer way, an edge in both
  directions, a direct road, ties, an unreachable origin, and queues long enough
  for an inner heap entry with two children. Crow-flight distances 0 and 1 make
  the heuristic consistent in some graphs and not in others.
- *Realtime.* One place makes every second request one at the limit; the page
  shares its address with one client and not with the other, so the two limits
  differ. Two events and a buffer of one give a client that is too slow. In
  `realtime` there is one query and one search at a time; `realtime_choice` has
  two of each.
- *Platform.* Two containers with images of different age: one finds applied what
  it has, or has more to apply. Failures, signals, crashes and restarts are not
  bounded. Each of the two places takes its own set of requests, so that together
  they give every pair that shares a row (two registrations of an address, two
  decisions of one user, a decision beside a moderation or the sweep) without its
  mirror image. One report by another author, and one address. An author's decision
  on the own report, a DISPUTE, decisions of two users and the expiry of several
  reports by one UPDATE are not offered in the run, which is as long as it may be:
  for these there is the theorem `Implements`, and for the counts `CountsStayCorrect`.

`CHECK_DEADLOCK FALSE` is used only for `Realtime`: there the page may be closed,
the gateway shut down and no event be left to publish.

### Fairness

- *Pipeline:* weak fairness of every handler, job, task and of the sweep: Node's
  event loop, BullMQ's polling, the repeatable job. Not of users, failures or of
  time passing an expiry date. Failures are finitely many by the bound, which is
  what "transient" means.
- *Cache:* only the TTL. A result that is not stored again goes some day; each
  kind of result (version, query, weights) has its own condition, so that storing
  others does not stand for its removal.
- *Sessions:* weak fairness of a transaction's own steps, strong fairness of
  getting a lock that is free again and again: PostgreSQL queues waiters.
- *Search:* the loops run on.
- *Platform:* strong fairness of a container's migration and of a handler's
  statements, because PostgreSQL serves those who wait for a lock in turn and
  answers or rejects what it is sent (the pools set `statement_timeout`); weak
  fairness of what `shutdown()` awaits once it can resolve, and of the deadline's
  timer. Nothing about clients: neither that they send their body nor that they leave.
- *Realtime:* the heartbeat's interval, the close events of ended connections,
  the answer to the page's upgrade, delivery to the page, the settling of its
  requests (`fetch` answers or fails) and its reconnect timer. Nothing about
  Redis, users or other clients.

## 4. Properties

`TypeOK` of each module also states how its variables hang together (which job
states have a report, that a transaction holds the lock of each row it wrote).
The others:

- `Accounted`: if the newest listing of a segment does not show a report as it now
  is, someone will still list that segment because of it, or a failure that
  history names dropped the refresh. `EveryChangeIsAnnounced`: every replaced
  segment still has an increment after it, and an event after that, from a refresh
  that is under way or will be tried again; or it is `muted`: the last attempt of
  its job or the sweep stopped before these, or the task that replaces it runs on
  after its `Promise.all` has rejected. Routes over a muted segment are right
  again after the next increment or the TTL of the cache. `SegmentsConverge`,
  `ActiveConfidenceConverges`, `DueReportsExpire`: the sweep heals what raced or
  failed, also a confidence that was computed from a report as it was and stored
  over a newer one.
- `FreshUnlessOvertaken`, `StaleResultsEnd` for the cache.
- `OneSuccessor`: a token is exchanged at most once, and exactly when its row says
  ROTATED. `RevocationIsFinal`, `ReplayRevokesWhatItSaw`, `RefreshEnds`,
  `ImplementsStore`.
- `Optimal`: a route exists whenever there is a way, and is cheapest wherever no
  road is shorter than the straight line (the seed data has one that is); the
  reference (`Ways`) tries every way that visits no node twice. `AddsUp`: the edges
  of a route cost what it is said to cost, even where the heuristic overestimates.
  `Tradeoff`: the safer profile's route is no less safe, in sum and on average.
  `ExploredOnce`: with straight roads no node is expanded twice. `GetsOn`: every
  step leaves less to do (`Remaining`): a phase is done with, a cost falls, an entry
  leaves the queue, an edge is tried. `Answered` is what follows under fairness.
  `YieldsLeast` and `ImplementsSearch` for the heap.
- `Bounded`: counts per address and the gauge equal the connections that exist,
  within both limits. `NoGaps`: what an open connection has still to read is the
  end of the sequence of broadcasts since it was accepted: none skipped, none
  twice. `VanishedAreRemoved`, `PageReturns`, `PageSettles`.
- `SchemaInOrder`, `RunsOnItsSchema`, `NobodyAppliesTwice`: whatever starts
  together and wherever processes die, each file takes effect once and in order,
  exactly those are recorded, nobody serves on less than its image's schema, and
  nobody applies, or collides with, what another applied (a wait for the lock may
  still end by `statement_timeout`, and the container then fails).
  `ImplementsCommunity`: one account for an address, one decision of a user,
  counts that are those of the decisions. `GaugeExact`,
  `NobodyWaitsOnClosedPools`, `EveryMoveEnds`, `EveryRequestEnds`.

## 5. What is proved

For any number of reports, jobs, segments, requests, tokens, clients, containers and
road nodes, from the
assumptions on constants named in the modules (sets and functions of the right
type, "none" values that are not members, limits that are natural numbers):

| Theorem | Statement | Argument |
|---|---|---|
| `TypeCorrect` | `RiskPipeline`: `[]TypeOK` | inductive as it stands; the work is in `Reject`, which differs for jobs and the sweep, and in `WorkerCrash` |
| `NothingForgotten` | `[]Accounted` | with `SweepClean`: outside its loop the sweep has no expired report left. A step keeps the account of a report and segment if whoever was to list the segment still is (`AccountKept`); a rejection moves the report to another attempt or to `lost` |
| `ChangesAnnounced` | `[]EveryChangeIsAnnounced` | with `OrphansMuted`: a task whose owner no longer awaits it works on a segment that is muted, so whoever else replaces a segment has its increment still to come. An attempt that rejects waits to do all of it again, or mutes what it owed (`RejectKeepsAnnounced`); a stalled job likewise |
| `CacheTypeCorrect` | `RouteCache`: `[]TypeOK` | |
| `Freshness` | `[]FreshUnlessOvertaken` | `CacheInv`: later versions announce newer weights; every result is as new as the version it was loaded at; what a request read is no older than its arrival |
| `SessionsTypeCorrect`, `Exchange`, `Finality`, `ReplayRevocation` | `[]TypeOK`, `[]OneSuccessor`, `RevocationIsFinal`, `ReplayRevokesWhatItSaw` | `IInv`: past its SELECT a transaction holds its token's row (`HoldsToken`), rows it wrote are still live for all others (`ReadsStand`), only the token sent is exchanged and the new one belongs to one refresh (`RotatesItsToken`, `NextReserved`), and what a `revokeAll` found is to be visited, written by it, or revoked by somebody else (`SeenAccounted`) |
| `Implements` (`SessionsProofs`) | `ImplementsStore` | with `OneKind`: what a transaction has written is either its own token expired or exchanged, or any rows revoked, never both; so a commit is one step of the store (`CommitSimulates`) and the rest stutter |
| `SchemaCorrect` | `Deployment`: types, `SchemaInOrder`, `RunsOnItsSchema`, and the lock's holder applies alone | `DeploymentInv`: past the lock a container holds it (`LoopIsLocked`), the files before the one it is at are recorded (`PassedIsRecorded`), so a script in progress is the next one |
| `ContainersDeploy`, `SchemaStaysCorrect` | `Platform` implements `Deployment`, and `[]ApiInv` | each step of `Platform` is one of `Deployment` or leaves its variables alone; the schema's properties follow from `SchemaCorrect` |
| `AppliedByOne` | `[]NobodyAppliesTwice` of `Platform` | from `DeploymentInv`: between the check and the record of a file the lock is held, so nobody else records it |
| `TypeCorrect`, `Implements` (`PlatformProofs`) | `[]TypeOK`, `ImplementsCommunity` | `ApiInv`: a handler is at a statement of its own request (`Fits`), one that may commit a decision holds the row, is not the reporter and has not decided (`Decides`), a report number belongs to one creation (`Creates`). The unique index decides between registrations |
| `CountsStayCorrect`, `AccountsStayUnique` | of `Platform`: stored counts are the numbers of decisions, one account for an address | inductive in `Community`, with its types, and carried over by `Implements` |
| `GaugeCorrect`, `ClosedPoolsAreUnused` | `[]GaugeExact`, `[]NobodyWaitsOnClosedPools` | cardinality of the handlers whose client waits; the drain is awaited before the pools, and nobody new is taken after it |
| `RealtimeTypeCorrect`, `LimitsHold`, `NothingSkipped` | `Realtime`: `[]TypeOK`, `[]Bounded`, `[]NoGaps` | `GatewayInv`: counts equal the cardinalities of the connections, per address and in all (`Counted`); what was sent and what is expected are in turn (`AllInTurn`); buffers are short (`Short`) |
| `SearchTypeCorrect` | `RouteSearch`: `[]TypeOK` | `SearchInv`: what is queued has a cost, at which or above which it is queued |
| `NoNodeTwice` | `[]ExploredOnce` | for some set E of as many nodes as were expanded, what the queue holds of them is stale and the last was expanded at the greatest estimate (`Expanded`), so that with a consistent heuristic no edge improves one of them |
| `RoutesAddUp` | `[]AddsUp`, for any network | `WayInv`: the nodes reached make a tree by the edges they were found by (`Tree`). A node that was improved after others were found from it waits in the queue before all of these; while its tree is at work, what waits outside has no lower estimate, and once something outside is expanded nothing inside waits with a lower one (`Before`, `AtWork`, `OnTheWay`). So the way back from the destination passes no node that waits, and its edges cost what is left to add |
| `RoutesOptimal` | `[]Optimal` | the reference is a recursive function, shown to exist by induction over how many nodes are left to visit (`WaysDefined`); what holds of a way's end and is kept by an edge put before it holds of every way (`WaysInduction`). So, from any node reached, no way costs less than what waits at least (`LowerBound`), and when the queue is empty there is none (`NoWay`) |
| `RoutesTradeOff` | `[]Tradeoff` | each route is one of the ways and, by the weights of its own profile, no dearer than the other's (`Answer`); the rest is arithmetic of two linear costs |
| `SearchGetsOn`, `NothingRemainsForEver` | `GetsOn`; `LessRemains` is well-founded | each action lessens one component of `Remaining` and leaves those before it; costs only fall, and there are finitely many nodes. Together: no calculation takes steps for ever |
| `HeapYieldsLeast` | `QueuedSearch`: `[]YieldsLeast` | `bubbleUp` and `sinkDown` are followed by the index they have come to, with the entry there the only one out of order (`Rising`, `Sinking`); `HeapInv`: the array is ordered, free of duplicates, and holds what is in `open` |
| `QueuedRoutes`, `HeapIsAQueue` | all of the above of the search with the heap; `ImplementsSearch` | with `HeapInv` its every step is one of `RouteSearch` on the same variables, and on what is in the heap |

None of the safety invariants is inductive alone: `OneSuccessor`, for example, depends
on the lock that keeps a row live between the SELECT that read it and the commit
that replaces it. Each proof has a lemma or a step per action.

The theorems about the search need of its constants that nodes and segments are
finitely many. Inductions (over nodes left to visit, positions in the heap, costs)
are over sets of numbers (`Induction`, `Minimum`), because the provers cannot
instantiate the library's theorems about predicates.

Only model-checked: every liveness property, since the provers handle neither
fairness nor ENABLED here. Of `Answered` the part that is not about scheduling is
proved (`SearchGetsOn`, `NothingRemainsForEver`).

## 6. Correspondence with the code

`PROJECT.json`, "map", gives file, lines and symbol of each definition. Names are
the code's where TLA+ allows (`aStar`'s `costFromOrigin`, `previousEdge`, the
gateway's `connectionsByIp`, `isAlive`). Externals are modelled from how the code
uses them: PostgreSQL's waits and deadlocks, Redis losing and restoring a
subscription, WebSocket buffers, clients that vanish.

## 7. Plan

What is left, most useful first:

1. *The cache* against an abstract one (an answer is some weights no older than the
   arrival, or overtaken), as was done for the sessions.
2. *A second worker process* in `RiskPipeline`, and the pipeline's commits taken
   from `Platform` instead of from steps of its own.
3. *Formulas* of confidence, decay and aggregated risk over bounded inputs: their
   ranges, and that more confirmations never lower a score.

## 8. Not modelled

- Of the lifecycle: how the shell of a container passes a signal on while
  `migrate.js` runs (a kill at any statement is modelled), a ROLLBACK that is itself
  rejected (the session ends then, which `Gone` covers for a process), Redis
  reconnecting by itself.
- What the page misses while it is disconnected: nothing in the repository promises
  that it catches up.
- The formulas of confidence, decay and risk are abstracted to their inputs, since
  no property here depends on their values; floating point is left out.
- Health checks only read. Metrics other than the two gauges (connections, requests
  in flight) only grow.
- Rate limiting, validation and error formatting belong to libraries and keep no
  state of the program; the models' inputs are those that validation lets through.
- Passwords, access tokens and cookies are calls of libraries; a new refresh token
  is assumed never to repeat one (`Fresh`).
- The map, layout and dialogs of the web client draw and keep nothing.
- Seed data, indexes, container files, the load test.

## 9. Running

    tlc -workers 2 -config Sessions.cfg MCSessions.tla
    tlapm SessionsProofs.tla

Each `.cfg` goes with the `MC` module of the same prefix. The longest runs take a
few minutes on two cores.
