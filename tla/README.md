# Verification of VantageEdge

VantageEdge is a multi-tenant API gateway: a *control plane* writes tenants,
origins, routes and API keys into PostgreSQL, a *gateway* reads them for every
request and proxies the request to an origin. This directory holds TLA+ models of
that program, the TLC configurations that check them on small instances, and
proofs of their main properties that TLAPS checks for every instance. The source
paths below are those of the repository (`src/...`).

## Inventory

| Component | State | Operations | Module | Status |
|---|---|---|---|---|
| Configuration store: `migrations/*.sql`, `internal/repository` | rows of tenants, origins, routes, api_keys | INSERT, UPDATE, DELETE with their constraints and cascades; the lookups | `ConfigStore` | modelled but for the statements that no running code executes |
| Control plane: `internal/controlplane`, `cmd/control-plane` | per request: resolved tenant, the row in memory, the answer | every handler that changes state, and the lists | `ControlPlane` | modelled |
| Gateway router: `internal/gateway/router`, `cmd/gateway` | per request: tenant, origin, address, answer | extractTenant, FindMatchingRoute, Origin.GetByID, proxyRequest | `Gateway`, `Routing` | modelled |
| Migrator: `cmd/migrator`, `docker-compose.yml` | schema_migrations, the schema; per process: what it read, its place | up, crash, restart | `Migrator` | modelled |
| Sliding window: `internal/ratelimit/slidingwindow` | list of timings | Allow, AllowN, GetRemainingRequests, Reset | `SlidingWindow`, `WindowLimit` | modelled |
| Token bucket: `internal/ratelimit/tokenbucket` | level, time of last refill | Allow, AllowN, GetAvailableTokens, Reset | `TokenBucket` | modelled |
| Rate limit middleware: `gateway/middleware/ratelimit.go` | counter per address | Middleware, cleanup goroutine | `FixedWindow` | modelled |
| Response cache: `gateway/middleware/cache.go` | entries with expiry | Get, Set, cleanup goroutine | `ResponseCache`, `ExpiringMap` | modelled |
| Load balancers: `internal/loadbalancer/{leastconn,roundrobin,consistenthash}` | counts of connections, a counter, a hash ring | SelectOrigin, Increment/DecrementConnections, Reset, AddOrigin, RemoveOrigin | `LeastConn`, `RoundRobin`, `ConsistentHash` | modelled |
| Health checker: `internal/loadbalancer/healthcheck.go` | status per origin; per loop: its round, its ticker | Start, Stop, checks and their writes, GetHealthyOrigins | `HealthChecker` | modelled |
| AuthService: `controlplane/service/auth.go` | users, tenants; per call: what it read | SyncUser, SyncTenant | `AuthSync` | modelled (no handler calls it) |
| Metrics: `internal/observability/metrics.go` | counters and maps; what a reader holds | RecordRequest, GetMetrics, Reset | `Metrics` | modelled but for TimingSample |
| Models: `internal/models/models.go` | none | StringArray: Value, Scan | `StringArray` | StringArray modelled, JSONB not; the rows are those of `ConfigStore` and `AuthSync` |
| Auth middleware, JWT, Clerk, API key validation, Redis client, tracing, config, logger, pool, `gateway/proxy` | none or I/O only | | | not modelled |

How they interact. The control plane and the gateway are two processes that share
nothing but the database; each runs a goroutine per HTTP request, and no handler
uses a transaction, so any statement of anyone runs between two statements of a
handler. The migrator runs before them, and may be started several times. The
limiters, the cache, the balancers, the health checker and the metrics are libraries with
a mutex each, some with a goroutine of their own; the router of this commit wires none
of them in. `GetHealthyOrigins` of the health checker returns the list that a balancer
chooses from.

What is hard, and what makes each component correct:

* **Gateway.** Three lookups and then the proxy; the configuration changes in
  between. A request must go where the configuration of *its* tenant says; it must
  not be told "not found" about a route that was there all along, nor
  "unavailable" unless the origin is gone; it must be answered when the database fails.
* **Control plane.** `resolveTenantID` looks up and then inserts; an update reads and
  then writes back; statements are refused, fail, or commit without an
  acknowledgement. The answer must tell what happened, a row must go to the tenant
  asked for, one Clerk ID must not get two workspaces, an update must not clear
  what it does not name, every request must be answered.
* **Store.** Cascades run through origins to routes of other tenants; unique values
  are freed and taken again. References and uniqueness must hold, a deleted row
  must not come back, an owner must not change.
* **Migrator.** Crash, failure or lost acknowledgement at any statement, two
  processes at once. Schema and record must agree, versions be applied in order and
  success mean completeness; a lost race must be curable by a restart.
* **Limiters.** The limit must hold in every window however calls are spaced, no
  answer may depend on what was forgotten, tokens must be neither gained nor lost.
* **Cache.** A goroutine deletes expired entries while they are renewed. Nobody may notice
  it, and nothing expired may stay for long.
* **Balancers.** A choice and its count are two calls, Reset forgets open connections, a
  counter wraps, hashes collide and origins are added twice. Counts must stay within the
  open connections, turns must be even between two Resets, a ring must, but for collisions,
  depend on its origins only, and it must move only the requests it has to.
* **Health checker.** Checks run without the lock and are written later, several loops write
  one status, Stop may come between two rounds or before Start. Every loop must end, and
  traffic must follow the health of the origins.
* **AuthService.** Two inserts without a transaction, calls for one user that race. Whoever is
  told "ok" must have a user in a tenant, and all calls of one Clerk user the same one.
* **Metrics, StringArray.** Totals and maps must agree, also across Reset (the average
  does not; see Findings); the words written to an array column must be those that are
  read (the code keeps to this for words in ASCII only).

`PROJECT.json` lists every hazard at its line with the properties aimed at it, the
runs, the definitions with the source lines they stand for, and for every property
a plausible bug (written next to the definition it changes as "Mutant") that breaks
it under the run's own configuration.

## Modules

**`ConfigStore`** holds the four tables, one operator per SQL statement, and
`StoreNext`, any statement of anyone. A table maps every UUID that will ever be drawn
to `Unused`, a row or `Deleted` (a UUID is never drawn twice, so a deleted id stays
deleted). UNIQUE, REFERENCES, CHECK and ON DELETE CASCADE are guards and effects
of the statements. `InsertRoute` ignores `active` and `UpdateRouteRow` the policy
columns, because the SQL does not name them; statements on a row that is gone
succeed with no effect. Columns that nothing decides on are left out, and
`LIKE` is the relation `Like` between paths and patterns.

**`Routing`** is the abstract specification of the gateway: the route is *chosen in
one step* among the live routes of the tenant that the host names, with the highest
priority. **`Gateway`** is the handler: `Receive`, `ExtractTenant`, `FindRoute`,
`GetOrigin`, `ProxyRequest`, `Upstream` are the lines of `handleRequest` in
order, one step per statement; `LookupFails` is the database error of a lookup, which
the code answers like "not found"; `Reconfigure` is any statement of the control plane.
`always` is a history variable: the routes that served the request ever since it
arrived. `RoutingSpec` is the refinement (`INSTANCE Routing WITH stage <- ...`).

**`ControlPlane`** serves the requests in `Jobs` on `Slots` goroutines. `Accept` is the
parsing before the first statement, `Resolve`/`LookupFails`/`CreateWorkspace` are
`resolveTenantID`, `Read` the first half of an update; one action per operation for
the statement that has the effect, with its outcomes `Committed` (the acknowledgement
possibly lost), `Refused`, `StatementFails`. It implements `ConfigStore` (`StoreSpec`,
checked of the workspaces and proved of all): the arbitrary statements that the gateway is checked
against include all that the handlers really execute.

**`System`** is both servers on one database: it extends `ControlPlane`, instantiates `Gateway`
with variables of its own, and has the handlers' statements where `Gateway` has `Reconfigure`. A step
is one of a handler (the gateway's history follows) or one of a request in the gateway.

**`Clock`, `WindowLimit`, `SlidingWindow`, `TokenBucket`, `FixedWindow`.** Every method
of a limiter holds its mutex throughout and is one step; time is a counter that ticks
between steps. `WindowLimit` says what a window limiter promises in terms of the log
of *all* admissions; `SlidingWindow`, which drops old timings at some calls and not
at others, implements it. `spent` and `passed` are history variables. `TickerChannel` of
`Clock` is the channel of a `time.Ticker`: it holds one tick and drops those that find it
full. The cleanup goroutine of `FixedWindow` takes a tick up to `MaxLag` late.

**`ExpiringMap`, `ResponseCache`.** The abstract map never deletes anything and answers with
the last value up to and including its expiry; the cache, whose goroutine takes a tick up to
`CleanupLag` late and deletes, implements it. `stored` is what the map would hold.

**`LeastConn`** is the balancer with its callers, who select, count in and count out in
separate calls. `forgotten`, `among` and `races` record what the promises are relative to:
the connections that Reset forgot, and the counts that changed since a choice.
**`RoundRobin`** has a counter of `-MaxInt-1..MaxInt`, Go's `%` and the panic of a negative index.
**`ConsistentHash`** holds the sorted slice of keys as the number of times that each hash
occurs in it: that is all its search and its rebuild depend on. Hashes are given
(`HashesOf`), so that two origins can share one; who has a shared hash depends on the order of the
calls. Selection is an operator, as it changes nothing; its caller may pass a list without the
origin that a key belongs to, and then the key goes to the first of the list.

**`HealthChecker`** has a goroutine per Start; a check reads the origin (`CheckHealth`) and a
later step takes the lock and writes (`WriteStatus`). `SelectTick` and `SelectStop` are the
branches of the select, whose choice is random when both are ready. `up` is the outside.

**`AuthSync`** extends `ConfigStore` with the users table and the calls SyncUser and SyncTenant,
statement by statement; `made` and `failed` say which tenants SyncUser created and which of
those belong to a call that returned an error. `Elsewhere` is any other statement on tenants,
with the cascade to users.

**`Metrics`** keeps the average as the fraction it is computed from. `snapshot` is what the latest
reader holds: `shared` says that its maps are the live ones. **`StringArray`** has the two
conversions of the code and, marked external, what PostgreSQL does with the text (`ArrayIn`,
`ArrayOut`); a string is a sequence of letters, commas and quotes. Value joins the elements
without quotes, so one with a comma or quotes, or an empty one, is split, stripped or refused on
its way. `splitArray` reads bytes and makes a string of each: a letter outside ASCII (`NonASCII`)
comes back as the letters that its bytes are (`OfBytes`), which `AsRunes` and, for a whole text,
`Recoded` say. `WordsComeBack` is therefore about words, which reach the column, about what comes
back of whatever did get into the column, and about which words come back as they were sent:
those in ASCII.

**`Migrator`** is `runMigrationsUp`, statement by statement, in several processes. A file
fails where its objects exist and waits for an open transaction that has created
them (`Held`), which is what PostgreSQL does with the `CREATE INDEX`, `TYPE` and `TRIGGER`
statements without IF NOT EXISTS of the migrations.

**`MCGateway`, `MCControlPlane`, `MCSystem`, `MCAuthSync`, `MCMigrator`, `MCLibraries`** declare model values
and the small inputs; a behaviour of `MCLibraries` uses one library (variable `library`), as
they share nothing. **`ConfigStore_proofs`, `Gateway_proofs`, `ControlPlane_proofs`,
`AuthSync_proofs`, `Migrator_proofs`, `RateLimits_proofs`** (the three limiters), **`Balancers_proofs`**
(the three balancers and the health checker) and **`Libraries_proofs`** (cache, metrics, arrays, and
the libraries side by side) hold the theorems.

## Runs

| Run | Configuration | Shows | Distinct states |
|---|---|---|---|
| gateway | `MCGateway.cfg` | refinement of `Routing`; `NoSpuriousNotFound`, `UnavailableMeansOriginDeleted`; integrity and row life cycle of the store | 44,763 |
| gateway_live | `MCGatewayLive.cfg` | a request that a route keeps serving reaches the origin's address | 37,744 |
| workspaces | `MCWorkspaces.cfg` | tenants, workspaces and keys: answers tell effects, one workspace per Clerk ID, creates go to the tenant asked for, updates leave other fields alone; `StoreSpec` | 303,642 |
| routes | `MCRoutes.cfg` | origins and routes with missing and invalid fields: every request is answered | 70,455 |
| libraries | `MCLibraries.cfg` | what each limiter enforces, the sliding window implements its log, the cache its map; what the balancers, the health checker and the metrics promise; lists of words reach their column, and exactly those in ASCII come back from it as sent | 137,671 |
| auth_sync | `MCAuthSync.cfg` | an orphan tenant means an error, synced users are one | 178,116 |
| migrator | `MCMigrator.cfg` | schema and record under crashes and races; every run ends | 36,166 |
| isolation | `MCIsolation.cfg` | finding 1, with both servers | violated |
| workspace_race | `MCWorkspaceRace.cfg` | finding 2 | violated |
| route_answer | `MCRouteAnswer.cfg` | finding 3 | violated |
| compose | `MCCompose.cfg` | finding 4 | violated |
| metrics_snapshot | `MCMetrics.cfg` | finding 5 | violated |

**Bounds, and why they are enough.**
*Gateway:* two tenants, two origins, two routes, two subdomains and two patterns
let a subdomain move to another tenant, a route compete with another one of another
priority, and a route point to another tenant's origin, all between two lookups of
one request. Requests do not interact (they only read the store), so one request is
enough for safety; the liveness run has two, with fewer rows and a URL that does not
parse. Symmetry is used for safety only, over ids and subdomains.
*Control plane:* two slots give every interleaving of two requests; each slot serves one
request after another, so a third acts in the pauses of the first. `Room` accepts a
request that may insert only while an id is left, so that no handler is stuck for want
of an id that the database would have. One Clerk ID and two tenant ids: a workspace
is created, deleted and created again.
*Both servers:* one handler and one request, two tenants, one origin and one route: enough for the
route of one tenant to name the origin of the other.
*Libraries:* `MaxTime = 7` is more than two windows, or cleanup intervals, of 3; cleanups up to 1
late. Batches of -1, 0, 2, 3 around a maximum of 2; amounts 0, 1, 3 around a capacity of 2; the
fixed window with a limit of 1 and two keys. The cache has two keys, two bodies and lives of 0
and 2, so that an entry expires before, at and after a cleanup. Three callers over two origins
let one caller choose while two others count in and out. The counter has `MaxInt = 7` and 18
selections, so that it wraps (at 8) and comes back to 0. In the ring `o2` and `o3` share a hash,
`o1` collides with nobody, and a hash can occur three times in the keys; the lists that callers pass are with and without the origin that
is added. Two health loops
over overlapping lists, one with an origin that has no health path. Two recorded requests
between two Resets of the metrics. Histories that only grow (timings, recorded requests,
selections, occurrences) are what these bounds cut.
*AuthService:* two calls, so every interleaving of two, one after another; three tenants and two
users, as each call can create one of each and leave a tenant behind; one Clerk user, since calls
for different ones share only the subdomains that two tenants draw from. Symmetry over calls and ids.
*StringArray:* strings of up to three of a letter, a letter outside ASCII of two bytes, a comma and
a quote, arrays of up to two: an element that is empty, quoted, or half quoted, before and after another one. Braces, spaces,
NULL and backslashes, which also mean something to PostgreSQL, are left out.
*Migrator:* two processes, three migrations (first, middle, last), three starts each.

`CHECK_DEADLOCK FALSE` only where the system really may stop: the clock stops at
`MaxTime`, migrators have no starts left, and an array is written once.

**Fairness.** Weak fairness of the handlers of the gateway and the control plane: a
goroutine is scheduled, and `database/sql` returns rows or an error (in the control
plane `middleware.Timeout` cancels the context after 60 seconds). Weak fairness of a
running migrator: the process is scheduled and the server answers. In the health checker weak
fairness of the checks (the client has a timeout), their writes, the ticker and the tick branch
of the select, and strong fairness of its stop branch: Go's select picks at random among the
ready branches, so a branch that is ready again and again is taken in the end, while with weak
fairness a ticker as fast as the rounds would keep a loop alive for good. Nothing is assumed
of clients, of origins (`Upstream` is not fair: the proxy's transport waits
without a limit), of whether origins come up, of calls of Start and Stop, of restarts or of the control plane's statements.

## Findings

1. **`OriginOfOwnTenant`** (`router.go:64`, in `System`: the trace consists of answered requests to the
   two servers). The origin is looked up by id alone, and neither
   `CreateRoute` nor the schema asks that a route's origin belong to its tenant: a request
   of one tenant is proxied to another tenant's origin, against "Isolated configurations
   per tenant" (README.md:237).
2. **`ResolveFindsTenant`** (`handlers.go:44`). Two first requests of one Clerk ID interleave
   between the lookup and the insert; the second is refused although the tenant exists by
   then, against "looks up or creates the tenant" (`handlers.go:21`).
3. **`RouteAnswerIsStored`** (`route.go:28`). A route created inactive is stored active, and an
   update does not write the policies, while the answers show them: against "Fully
   functional for basic CRUD operations" (BACKEND_STATUS.md:179).
4. **`MigratorSucceeds`** (`docker-compose.yml:14`). The postgres container executes the migrations
   as init scripts and records no version; the migrator then fails at the first one, and the
   control plane, which waits for its success, is not started: against "Full stack runs
   with docker-compose" (BACKEND_STATUS.md:182).
5. **`SnapshotAddsUp`** (`metrics.go:97`). The maps that GetMetrics returns are the live ones: they
   change with the next request while the totals next to them do not, against "GetMetrics
   returns a snapshot of current metrics" (`metrics.go:75`). `TotalsAgree` says what a reader can
   rely on: the maps are never behind the totals.

Met while modelling, without a run of their own. *Reset* of the metrics leaves `avgLatencyMs` as it
was (`metrics.go:112-118`), against "Reset clears all metrics" (`metrics.go:103`): until the next request
the average of before the Reset is reported. `TotalsAgree` therefore asks for the average only once
there is a latency again, and for cleared sums and extremes until then. *splitArray* turns each byte
of a letter outside ASCII into a letter (`models.go:239`), so a scope or method with one does not
come back as it was sent; nothing in the repository promises otherwise, and `WordsComeBack` states
it as it is.

## Proofs

The theorems hold for every value of the constants that satisfies the named assumptions, which
TLC evaluates in the runs:

* *no value is a row, an id or an entry*: `TombstonesAreNotRows`, `TombstonesAreNotUsers`,
  `NullIsNoClerkOrg`, `NoArrayIsNoArray`, `GatewayAssumption`, and parts of `CacheAssumption`, `RingAssumption` and
  `LeastConnAssumption`;
* *numbers are numbers, lists are lists of the things they list*: `PrioritiesAreIntegers`,
  `ClockAssumption`, `SlidingAssumption`, `BucketAssumption`, `FixedAssumption`,
  `MigratorAssumption`, `HealthAssumption`, `MetricsAssumption`, `RoundRobinAssumption`,
  `ArrayAssumption`, `BytesAssumption` (a letter outside ASCII has at least two bytes, and each of them is
  a letter outside ASCII when taken for one), and the rest of those above;
* *what the code's inputs look like*: `NewTenantsAreActive`, `BadURLsAreURLs`, `JobOps`, `JobFields`
  and `TenantReferences` (the requests that the handlers parse), `ClerkIDsAreNotUUIDs` and
  `IDsOfTablesDiffer` (what does not parse as a UUID is a Clerk ID, and a UUID is drawn once),
  `SubdomainsOfClerkIDs` and `WorkspacesHaveAName` (what `resolveTenantID` derives).

What is proved, and along which argument:

* **Store** (`ConfigStore_proofs`): `StoreTypeCorrect`, `ForeignKeysHold`, `UniqueColumnsHold`,
  `RowLifecycleHolds`. References and uniqueness are each inductive together with the types: a
  cascade keeps references because the referring rows are found by their references, and an
  insert keeps both because its guard is evaluated in the same step.
* **Gateway** (`Gateway_proofs`): `GatewayRunsOnStore` (a gateway behaviour is one of the store, so
  the theorems above carry over), `GatewayTypeCorrect`, `NotFoundIsNeverSpurious`,
  `UnavailableIsDeleted`, `GatewayImplementsRouting`. The strengthening, `RequestInv`, is what a handler
  may rely on between its statements: the found tenant is gone or still has the request's
  subdomain, the routes that served the request all along are routes of that tenant, and a
  chosen origin is live or deleted, never unused. It is inductive because of `RowLifecycle`. The
  refinement needs `UniqueColumns`: the tenant found earlier is the one the host names now, if
  it still has a route.
* **Control plane** (`ControlPlane_proofs`): `CPRunsOnStore` (every step of a handler is a statement
  of the store or leaves it alone, so the store's theorems hold of the control plane, and what
  the gateway is proved against includes all that the handlers do), `CPTypeCorrect`,
  `AnswersTellEffects`, `WorkspacesAreShared`, `CreatedForTheRightTenant`, `UpdatesKeepOtherFields`. The
  strengthening, `CPInv`, is `Progress` (a request has written nothing before the statement of
  its operation but the workspace that it created on the way) and `WorksFor` (the tenant that was found for a
  Clerk ID still has it or is gone); the second is what keeps a row in the tenant asked for
  although the tenant is looked up in one statement and used in another.
* **Both servers** (`ControlPlane_proofs`): `SystemRunsBoth`, `SystemKeepsPromises`. A step of the composition is
  a step of one specification and a step or a stutter of the other: a handler's step is a
  statement (`CPStep`) or leaves the tables alone, and then the gateway's history does not move either
  (`Tracked`). With the theorems of both, of which `Gateway_proofs` is instantiated, what was proved
  of each alone holds of the two together. The hypotheses of `SystemKeepsPromises` are
  `GatewayAssumption` and `BadURLsAreURLs`, which `System` does not extend.
* **AuthService** (`AuthSync_proofs`): `AuthRunsOnStore`, `AuthTypeCorrect`, `OrphansComeFromErrors`,
  `OneUserPerClerkUser`. The strengthening says whose each created tenant is: a call about to insert its
  user, a user's, or that of a call that failed; and that a user which a call returned has the
  Clerk user of its request or is gone.
* **Limiters** (`RateLimits_proofs`): `SlidingTypeCorrect`, `SlidingWindowBound`, `SlidingImplementsLog`;
  `BucketTypeCorrect`, `BucketSpendBound`, `BucketLevelExact`; `FixedTypeCorrect`, `FixedAtMostTwice`. For
  the sliding window: the log is
  sorted, and a dropped admission is outside the window and stays so, hence what is kept and
  valid is exactly the log's window. For the bucket: the level is at most what the bound
  permits from any moment on, and equal to it from the moment the bucket was last full. For the
  fixed window: a tick in the channel is the last one that was due or an earlier one, and at
  most the lag old; the requests since the last cleanup are the counter, those between the last
  two at most the limit, and two cleanups are at least a period less the lag apart.
* **Balancers and health checker** (`Balancers_proofs`): `CountsAreOpen`, `ChoiceIsLeast`; `RingIsOfItsNodes`,
  `RingIsConsistent`; `RotationGivesTurns`; `HealthTypeCorrect`. Counts are inductive with the connections
  forgotten at the last Reset. Where no two origins share a hash (`NoCollisions`) the ring invariant
  leaves one ring for a set of origins (`RingOf`). The ring's consistency follows from the ring invariant, as adding
  an origin only puts hashes nearer to a key and removing one only takes away its own. The
  rotation's invariant: the positions that are one turn ahead of the others are an arc of the
  circle, which ends before the next position; and while the counter has not wrapped it is the number of
  selections since Reset. The arithmetic it needs (the remainder of a successor is the successor of the
  remainder, or 0) is a lemma of its own.
* **Cache** (`Libraries_proofs`): `CacheImplementsMap`, `CacheIsSwept`. With what is proved of the ticker's
  channel: an entry that differs from what was last stored is missing, and what was stored has expired.
* **Metrics** (`Libraries_proofs`): `MetricsAgree`. A sum over a map of counters is the size of a
  finite set of pairs, one pair for each counted request (`Counts`, `Total`), so that a request more
  is one pair more. From the first request after a Reset
  on the average lies between the extremes, because the extremes, taken as many
  times as there are latencies, bound the sum.
* **Arrays** (`Libraries_proofs`): `ArraysComeBack`. The writer, `array_in` and `splitArray` are recursions
  along a text, as is `Recoded`; each gets a lemma for one character more (`ListedOneMore`, `InOneMore`,
  `SplitOneMore`, `RecodedOneMore`), and what they do to a whole text follows by `SequencesInduction`. That
  a text comes back recoded is `RecodedText`; that it is then as sent exactly if it is in ASCII
  is `WordsInASCII`: a letter outside it comes back as two or more, so the text gets longer. The invariant
  `ArrayInv` adds that no element in a column has quotes: `array_in` takes a quote only as a sign,
  which is what lets `splitArray`, that drops every quote, return the elements.
* **Side by side** (`Libraries_proofs`): `LibrariesKeepTypes`, `LibrariesAreIndependent`. `LibraryInv` is the
  conjunction of the invariants. Those of the sliding window and the bucket bear any
  step of the shared clock; those of the fixed window and the cache, whose goroutines must see every tick, are
  kept while that library is the one in use.
* **Migrator** (`Migrator_proofs`): `MigratorTypeCorrect`, `RecordIsTheSchema`, `RecordIsAPrefix`,
  `SuccessIsComplete`, and `FailureIsALostRace` where no scripts are mounted. The strengthening is
  `Reached`: what a process has passed in the order is recorded, for good.

The library's induction theorems take an operator as a parameter, which the installed provers
cannot instantiate. Where an induction is needed it is stated of a *set*: `SetInduction` (a set that
has 0 and with every number its successor has all) follows from `LeastNumber`, the
well-foundedness of the natural numbers, and `SequencesInduction` from it.

Only model-checked: liveness (`ServedRequestReachesOrigin`, `EveryRequestAnswered`, `EveryRunEnds`,
`StopEnds`, `TrafficFollowsHealth`), which is beyond the provers under fairness. Every invariant and every
safety property of a step that a passing run checks is the statement of a theorem.

## Not modelled, and why

* `request_logs`, `users.Delete`, `api_keys.Update`/`UpdateUsage`, `origins.UpdateHealth`: no running
  code executes them. The GETs of single rows of the control plane and the calls of the
  AuthService that only read change nothing.
* Three hazards have no property. The lost update of SyncTenant (`auth.go:146`): it reads and writes
  back as UpdateTenant does, and nothing in the code promises otherwise. One counter for lists of
  different lengths (`roundrobin/balancer.go:30`): a rotation is promised only of a list that stays as it
  is, which `RotationIsEven` checks between two Resets. The average that Reset leaves behind
  (`metrics.go:112`): the code does so every time (see Findings).
* JSONB, whose conversions are those of `encoding/json`; TimingSample, a value that is only
  formatted.
* Float64 rounding in the token bucket; negative amounts, which no caller passes; batches so
  large that a sum wraps; balancers given an empty list, which they answer with an error without
  changing anything; a second Stop of the health checker, which panics in its caller.
* Bodies, headers, timeouts and the streaming of the reverse proxy; formatting and logging.
* The auth middleware (stateless), JWT, Clerk and API key validation (cryptography and calls of
  services, unused by both servers), the Redis client (a thin wrapper), tracing, configuration,
  logger and connection pool (start-up; the pool appears as statements that may fail), and
  `internal/gateway/proxy` (unused).

## Plan

First what the rest of the system serves: the store, the gateway and the control plane; then
the migrator and the limiters; then the libraries that no main uses yet, the AuthService and
the arrays. What is left:

1. The shutdown of the two servers, between SIGTERM and the last answer, with the requests in
   flight and the ten seconds they have.
2. When the router wires the libraries in: their composition with `Gateway` (a cached answer and
   a changed route, a balancer over the list of the health checker).
3. Liveness of `System`: that each server's promise of an answer survives the other needs no more than
   the two fairness assumptions, but is checked of each server alone so far.
