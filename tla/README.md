# Verification of SafeMySQLMcpServer

TLA+ models of the concurrent parts of the server, TLC runs on small instances
and machine-checked proofs for every size. Paths are relative to the repository.
`PROJECT.json` lists the runs, the source lines each definition stands for, the
hazards, the findings and the theorems.

    tlc -config MCPool.cfg MCPool        # one run
    tlapm PoolProofs.tla                 # one proof module

## 1. The system

An MCP server puts a gate in front of MySQL clusters. An HTTP request passes a
metrics middleware, a per-address rate limiter and JWT authentication, and calls
one of seven tools. The `query` tool parses the SQL text, checks it against the
security rules, rewrites unbounded writes, runs it over the database router and
the connection pool, and writes an audit entry. Two YAML files are watched and
reloaded while requests are being served.

| Component | Code | State it keeps | Operations |
|---|---|---|---|
| Connection pool | `internal/database/pool.go` | cluster name -> `managedDB` (sql.DB, reference count, closing flag); last configuration | NewPool, Get, release, UpdateConfig, Close |
| Router | `internal/database/router.go` | database -> cluster | GetDB, Query, Exec, UpdateConfig |
| Watcher, live configuration | `internal/config/watcher.go` | recorded modification times, callbacks; the current pair of files | Start, handleEvent, checkMtime, reload, Reload, Stop; Get, Update |
| Configuration files | `internal/config/config.go`, `validation.go` | none | Load, LoadSecurity, defaults |
| Process | `cmd/server/main.go` | none | start of server and watcher, SIGHUP loop, shutdown |
| Parser | `internal/security/parser.go` | none | Parse |
| Checker | `internal/security/checker.go` | rules | Check, UpdateRules |
| Rewriter | `internal/security/rewriter.go` | rules | Rewrite, UpdateRules |
| Tools | `internal/mcp/tools.go` | none between calls | query, list_databases, list_tables, search_tables, describe_table, show_create_table, explain |
| Audit logger | `internal/audit/logger.go` | writer, enabled, maximum length | Log, UpdateConfig, Close |
| Rate limiter | `internal/server/ratelimit.go` | address -> (`rate.Limiter`, last seen) | GetLimiter, cleanup, Close |
| HTTP server | `internal/server/http.go` | the components above | Start, Shutdown, UpdateConfig, middleware |
| Authentication, metrics, validation, constants, token tool | `internal/auth`, `internal/metrics`, `internal/validation`, `internal/constants`, `pkg/token` | none that another part reads | - |

How they interact:

* request goroutines call limiter -> tool -> checker/rewriter -> router -> pool
  -> database/sql, and the audit logger at the end;
* a reload runs in one of three goroutines (the fsnotify loop, the poll loop, or
  main on SIGHUP) and calls `Server.UpdateConfig`, which updates the live
  configuration, the checker, the rewriter, the pool and the audit logger, each
  under its own lock;
* `Pool.UpdateConfig` blocks its goroutine for up to 10 s while it drains;
* a cleanup goroutine deletes idle rate limiters;
* on a signal main waits up to 30 s for the requests in flight, then closes the pool,
  the limiter and the audit logger, while the watcher still runs.

What is hard: (a) `Pool.Get` against `UpdateConfig` and `Close`, and two
overlapping `UpdateConfig`s; (b) connections that are shared, keep their schema,
run out, and must be given back on each error path; (c) files written while they
are read, three goroutines that reload without a common lock, half-failed
reloads; (d) rules and limits that change inside one call; (e) a limiter that is
deleted between lookup and use; (f) results that end early, at a limit, at an error
or at a deadline; (g) a shutdown that overlaps the start of the server, requests and
reloads. What makes each part correct:

* pool: a handle goes open -> draining -> closed; Get admits to open ones only;
  no live entry has stale credentials; no marked handle is forgotten; updates end;
* router: a statement runs on the routed cluster in its own database; calls give
  their connections back and end;
* reload: the holders of configuration agree between reloads, never go back, and
  end on what is on disk;
* query tool: what is sent is the statement as admitted, and limited, by rules in
  force during the call, a call is blocked only by such rules, an
  UPDATE or DELETE of all rows is limited, the audit log agrees with the replies;
* tools: a result respects the limit and says truly whether it was cut;
* limiter: forgetting idle clients changes nothing a client can see, and no address
  gets more than its rate;
* process: seen from its clients it serves, drains, lets go and ends, and the pool is
  closed under no request without an excuse; the logger always has the writer it
  uses, what is open at the end is accounted for, and the end is reached.

## 2. Modules

| Module | Models | Composes |
|---|---|---|
| `HandleService` | abstract: what the pool promises of a handle | |
| `Pool` | `database.Pool` | refines `HandleService` |
| `PoolProofs`, `PoolRefinement` | proofs about `Pool` | |
| `Router` | `database.Router`, connections of `database/sql`, the tools as their users | extends `Pool`: its steps are steps of the composition |
| `HotReload` | `Watcher`, `ReloadableConfig`, `Server.UpdateConfig`, main's SIGHUP | |
| `Sql` | parser, checker and rewriter as functions of rules and a statement | |
| `HotReloadProofs` | proofs about `HotReload` | |
| `QueryTool` | `executeQuery`, `UpdateSecurityRules`, audit entries | extends `Sql` |
| `Tools` | the seven tools, the rows they read and what they return | extends `QueryTool`: its steps are steps of the composition |
| `RouterProofs` | proofs about `Router`, and of `Pool` under it | uses those about `Pool` |
| `QueryProofs` | proofs about `Sql` and `QueryTool` | |
| `ToolsProofs` | proofs about `Tools` | uses those about `QueryTool` |
| `GracefulStop` | abstract: what a stopping process promises its clients | |
| `Lifecycle` | `main`, `Server.Start`, `Server.Shutdown`, `Watcher.Stop`, the audit writer | extends `Pool`: its steps are steps of the composition; refines `GracefulStop` |
| `LifecycleProofs` | proofs about `Lifecycle` | uses those about `Pool` |
| `TokenBucket` | abstract: one bucket per address, never forgotten | |
| `RateLimiter` | `IPRateLimiter` and its middleware | refines `TokenBucket` |
| `RateLimiterProofs` | proofs about `RateLimiter` | |
| `MCPool`, `MCRouter`, `MCHotReload`, `MCQuery`, `MCLifecycle`, `MCRateLimiter` | values of the constants | |

An action is a stretch of code that no other goroutine can come between: a
critical section, an atomic operation, or a call into a component whose own lock
makes it one step. Operators named "Fault: ..." in their comment are plausible
bugs of the definition that follows them; nothing in the specifications uses
them, they serve to see that each property can fail.

**Pool.** A `managedDB` is a pair of cluster and generation; `clusters` is the
map, `refCount`, `closing` and `closed` are its fields, `rpc`/`held` are a
caller's place in `Get` and its local `mdb`, `upc`/`toClose`/`current` are
`UpdateConfig`'s place and locals. `MarkAndAdd` is phase 1 (pool.go:106-138, one
lock), `Released`/`TimedOut`, `CloseHandle`, `DeleteEntry` are one round of the
loop of phase 2, over the entries in any order. The four fields that are compared
are one `Setting`; `Connects` are those sql.Open accepts. `Releasing` are the
requests whose caller calls `release`: in the repository only tests do.

**Router.** `Route` and `GetDB` are `Router.GetDB` (the three steps of `Pool.Get`
under it); `TakeConn`/`NoConnLeft` are `db.Conn` (or `db.QueryContext` of the tools that
do not use `Router.Query`, kind "direct"); then `Use`, `Query`/`Exec`, `Fail`, `CloseRows`.
A search (kind "search") takes the list of databases once (`Search`) and does all this
without `Use` for each of them (`SearchNext`, in map order) until none is left or it
has enough (`SearchEnds`); each round calls `Pool.Get` again, so `SearchNext` sets
the caller's place in it back.
A handle has `MaxOpen` connections, each free or owned, with the schema it has
selected. A closed handle refuses new connections and leaves taken ones alone, as
`sql.DB.Close` does. A connection given back may be replaced by a fresh one.

**HotReload.** The contents of a file are numbered as they are written. `reload`
is `Load`, `LoadSecurity`, `Stat` and then the callback: `UpdateLive`,
`UpdateChecker`, `UpdateRewriter`, `UpdatePool`, `Drained`, `UpdateAudit`, each a
step of its own, in any of the goroutines of `Thread`. What the process is started
in is a record, `env`, chosen once from `Environments`: which contents do not parse
(`bad`) or name an audit directory that cannot be made (`noLogDir`), whether there
are events, whether polling is on, how many SIGHUPs there are, how coarse the file
times are. A write is atomic.

**Sql, QueryTool.** A statement is its kind, whether it has a WHERE, the count of
its LIMIT, and whether its text ends in a comment, because `addLimit` works on
text: what it appends to a comment is no LIMIT. `LIMIT n` is the only form of
SELECT's LIMIT. `NoRules` is a server without a security file (`rules == nil`).
The model keeps what the code does with a text that has no statement: `Parse`
returns nil, the check refuses it, and the audit entry dereferences it
(`CheckNil`, "panicked"). Server answers are free: a statement succeeds or fails.

`upc[u]` is where the reload of goroutine `u` is in `Server.UpdateConfig`, `next[u]`
the rules it installs. The event loop, the poll loop and SIGHUP run it under no common
lock, so reloads overlap: two that interleave between the checker and the rewriter
leave these with different rules until the next reload. Which rules a call may then
meet is said by history: `InForce` are the rules of each reload under way and those of
the finished ones (`settled`), except what a reload that began after them has replaced
(`replaces[u]` remembers what was settled when `u` began). It is what a register with
several writers may return. `during[q]` collects them over a call; `audited[q]` says
that the audit log was on all through it.

**Tools.** `job[q]` are the locals of a call's execute function: its tool, the place
in its loop, the limit (`max`), the databases a search has not reached, the rows the
open result set still has (`left`) and those returned (`count`). How many rows the
server has for a statement is free up to `MaxAnswer`, and each may fail to be read
(`ScanFails`) or not come (`RowsBreak`: `rows.Next` returns false because of an
error). The query tool's own steps are those of `QueryTool`; `QueryRows`, `Read` and
`ColumnsFail` put the reading of rows into its last one. `missing`, `flawed` and
`limits` are history variables.

**Lifecycle.** `main` is where main is, from the watcher's start to the end; `srv`
is `s.httpSrv` with the goroutine that called Start, `req` where a request is in the
middleware chain and its tool, `reload` where a goroutine of the watcher is in
`Server.UpdateConfig`. Pool's `Get`, `MarkAndAdd`, `Wait`, `CloseHandle`, `DeleteEntry`
and `Close` are taken over as they are, guarded by where request, reload and main
are. `writer` is `Logger.writer` (0 for nil), numbered as made; a writer's file is
in `files` from its first entry until it is closed. `CheckWriter` and `CloseWriter` are
the two unlocked reads of `Logger.Close`. Limiter and authentication let a request
through or refuse it; the limiter's own state is in `RateLimiter`. `StopPhase` and
`Excuse` are what a client can tell of all this, the variables of `GracefulStop`.

**RateLimiter.** A `rate.Limiter` is a token count and the time of its last
charge; `Level` is its refill. `GetLimiter`/`NewLimiter` run under `l.mu`,
`Allow`/`Deny` after it. Time is in ticks of one gained unit. `admitted` counts, for
`RateBound`, what an address was ever allowed.

## 3. Runs

| Run | Bounds | Shows |
|---|---|---|
| `pool` | 1 cluster, 2 settings, 2 generations, 2 requests (one releases), 2 updaters | type, `LiveMatchesConfig`, `MarkedIsOwned`, `RefsCoverUsers`, refinement of `HandleService`, `UpdateReturns`, `MarkedGetsClosed` |
| `pool_served` | 2 clusters, 3 settings (one refused), 1 updater | violation: a changed cluster is not connected again |
| `router` | 1 cluster, 2 databases, 2 routings, 2 calls (each pair of kinds), 1 connection | type, `RunsInItsDatabase`, `OnlyQueryKeepsConn`, `NoHoldAndWait`, `CallsEnd` |
| `router_leak` | as `router` | violation: rows.Close does not release Router.Query's connection |
| `reload` | three environments: events only and polling only, with 3 contents per file, bad contents and (with events) equal file times; events, polling and one SIGHUP, with 2 contents | type, `ComponentsAgree`, `NothingOverlooked`, `SettledIsCurrent`, `NeverBackwards`, `EventsConverge`, `LastWriteIsLoaded`, `PollSettles` |
| `reload_poll` | polling only, distinct file times | violation: a write during a reload is never picked up |
| `reload_routes` | events only | violation: routes are not reloaded |
| `query` | 1 call of any tool, 11 statements, 2 degenerate texts, 2 overlapping reloads, 2 rule sets (max_rows 1 and the default, 3) or none, 2 databases, 0 to 3 rows per result, tables cut at 2 | types, `BoundedWrites`, `VerdictMatchesRules`, `AuditMatches`, `WithinLimit`, `CompleteUnlessTruncated`, `TruncatedMeansMore` |
| `query_inflight` | as `query` | violation: checked under the new rules, rewritten under the old ones |
| `query_partial` | as `query` | violation: a result that broke off is a success |
| `lifecycle` | 1 cluster, 2 settings, 2 generations, 1 request, 1 reloading goroutine, 2 audit writers | type, `DrainedBeforeClose`, `ClosedAtExit`, `AuditWritable`, `CrashNeedsReload`, `NoOrphan`, `ServedUntilMarked`, refinement of `GracefulStop`, `ShutdownEnds` |
| `limiter` | 2 addresses, 2 requests, bucket of 2, 7 instants | type, `IdleIsFull`, `RateBound`, refinement of `TokenBucket` |

Why the bounds are enough to be interesting:

* `pool`: two overlapping updates of one cluster are what strands handles and
  deletes newer entries; a second generation is needed to see it. Clusters only
  meet in `toClose`; the theorems cover any number of them.
* `router`: with one connection each second call waits; two databases on it are
  what a kept schema needs. The theorems cover any number of each.
* `reload`: a write between two steps of a reload needs two contents, a failed
  reload between two good ones three. The theorems cover any environment.
* `query`: calls share no state except what reloads write, so one call is enough;
  two goroutines reload any number of times, overlapping each other and the call,
  with rules of which each admits something the other does not. The statements are
  one for each branch of parser, checker and rewriter. Goroutines and databases are
  symmetric. Results below, at and above each of the
  three limits occur, and a search that is full inside the first, at the end of the
  first and inside the second database. The theorems cover any number.
* `lifecycle`: one reload before and one after the pool is closed need two
  generations; a writer that replaces another needs two writers; one request is
  enough to outlive the 30 s. The theorems cover any number of requests, writers
  and, where the property allows it, reloading goroutines.
* `limiter`: the idle time (3) is the smallest the assumption allows for a bucket
  of 2 and a delay of 1; six ticks are an idle period and the refill before it.

`CHECK_DEADLOCK FALSE` is set where a behaviour really ends: every call is done
(`query*`), files are written a bounded number of times (`reload*`), the process is
over (`lifecycle`), time is bounded (`limiter`).

### What the violations say

* `pool_served`: `docs/concepts/hot-reload.md:67` "New connections use new
  settings". `UpdateConfig` connects only clusters without an entry; a changed
  cluster has one, which is then closed and deleted.
* `router_leak`: `router.go:108` "rows.Close() releases the conn back to pool".
  Rows of a `*sql.Conn` do not close it, and nobody else holds it.
* `reload_poll`: `hot-reload.md:114` "changes are detected automatically".
  The recorded modification time is taken after the contents.
* `reload_routes`: `hot-reload.md:43` "Routing updated immediately".
  `Server.UpdateConfig` never calls `Router.UpdateConfig`.
* `query_inflight`: `hot-reload.md:84-85` "In-flight queries continue with old
  rules", "New queries use new rules". Checker and rewriter are updated one after the
  other; a call in between is admitted by the new rules and rewritten by the old ones.
* `query_partial`: `docs/reference/error-codes.md:223` gives "Query execution exceeded
  `query_timeout`", and line 238 "Query returned more than `max_rows`", as causes of
  errors. `executeQuery` never asks `rows.Err`, and stops at `max_rows` without a mark.

### Properties worth a word

* `ImplementsService` says a request is admitted to an open handle, or to a closed
  one while the pool is being shut down. It says nothing about later: `Get` counts
  itself after the check, so an update may close the handle it just gave out.
* `NoOrphan` and `ServedUntilMarked` need a single updating goroutine, which the run
  `lifecycle` has. With two they fail: one deletes by name what the other put there.
  The watcher has up to three, without a common lock.
* `OnlyQueryKeepsConn` is exact: it names the one path that keeps a connection.
* `NoHoldAndWait` is why calls cannot block each other for ever: a connection that is
  taken belongs to a call that is using it, or to a finished `Router.Query`.
* `ComponentsAgree` and `NeverBackwards` hold where one goroutine reloads
  (`OneReloader`: events alone, polling alone or SIGHUP alone). Otherwise two reloads
  overlap, and a slow one overwrites a newer one; what remains is
  `LastWriteIsLoaded`. `EventsConverge` is `Converges` where events are the only
  trigger; polling alone does not have it (`reload_poll`). `Converges` exempts a
  write between the first load of the files and the start of the watcher (`missed`).
* `NothingOverlooked` and `SettledIsCurrent` are what `LastWriteIsLoaded` and
  `EventsConverge` promise once no event is queued: a write that falls between the two
  loads leaves an event behind, so nothing loaded before it counts as settled. The
  second takes `OneReloader`, because two goroutines may install in the wrong order.
* `VerdictMatchesRules` lets checker and rewriter follow different rules, as the code
  does (`query_inflight`, and for good after overlapping reloads), but both must have
  been in force during the call, never rules that a finished reload has replaced.
  It takes a SELECT to be sent as it was asked for, although
  `docs/reference/configuration.md:184` calls `max_limit` the "Maximum allowed LIMIT"
  (see section 6).
* `BoundedWrites` exempts texts that end in a comment and rules without a positive
  `auto_limit`: there the code sends the write unlimited.
* `AuditMatches` covers what the code logs; reads whose columns or rows cannot be
  read end without an entry, and the schema tools never write one.
* `CompleteUnlessTruncated` takes errors out (`flawed`): no tool but search_tables
  asks `rows.Err`, and that one goes on with the next database. The query tool marks
  nothing, so of it the property says that it leaves rows out only at the limit.
* `DrainedBeforeClose` promises nothing when the 30 s are over (`overdue`) or when
  Shutdown found no `s.httpSrv` because Start, in its own goroutine, had not set it
  yet (`~stopping`). Then the server begins to listen after the pool was closed.
* `ImplementsGracefulStop` has the same two excuses and adds the order: nothing is
  accepted between the signal and the closing of the pool (a server that Shutdown did
  not know goes on accepting), and an excuse comes before what it excuses.
* `RateBound` is about the sum over all the limiters an address ever had: each new one
  comes with a full burst, so it holds only because a forgotten one was full.
* `ClosedAtExit` lets go what the code leaves open: handles a reload makes after
  `Pool.Close` (the watcher is stopped last), writers `Logger.UpdateConfig` replaced
  without closing, and a file that a request reopened after Shutdown stopped waiting.
* `CrashNeedsReload`: `Logger.Close` does crash main, with a nil writer, when a
  reload turns auditing off between its two reads. Nothing else does.

## 4. Fairness

* `Pool`: an updater inside `UpdateConfig` goes on; the 10 s context bounds its
  wait. Nothing is assumed of callers: no one need release.
* `Router`: a started call goes on. `NoConnLeft` is a step it can always take
  because every tool gives its context a deadline.
* `HotReload`: main reaches `Start`, queued events are received, the ticker ticks,
  a goroutine in `reload` goes on (the drain is bounded, see `UpdateReturns`).
  Writes and SIGHUPs are not fair.
* `Lifecycle`: main goes on. Its wait for requests ends with the 30 s context
  (`Overdue` is a step it can always take), so nothing is assumed of requests, of
  reloads or of the server's goroutine; the signal need not come.
* `QueryTool`, `Tools` and `RateLimiter` are checked for safety only: that a call
  which waits for a connection ends is checked in `Router`.

## 5. Proofs

All theorems hold for every value of the constants that satisfies the named
assumptions.

**Pool** (`PoolAssumption`: `Connects` is a set of settings, finitely many
requests, at least one generation). The inductive invariant adds two parts to the
checked ones: `HeldOK` (what a caller holds is a handle) and `UpdaterOK` (an
updater's entry is among those it has left, all of those are marked, and the one it
is about to delete is closed). `RefsCoverUsers` is inductive only with the type
invariant, and the other way round: a count stays natural because a releasing user
is still counted. `EntriesAreCurrent` needs that a deletion removes entries only.
For one updater, `EntryToClose` says that an entry still to be closed is the one
its name maps to; with it the delete-by-name is safe (`NothingStranded`,
`ServiceUninterrupted`). `PoolImplementsService` adds `MadeOK`: unmade handles are
neither held, marked nor closed, and before shutdown only marked handles are closed.
`UpdatesAdvance` is what `UpdateReturns` rests on besides fairness: an updater's list
only shrinks, and an entry is waited for, closed and deleted once.

**Router** (`RouterAssumption`: the routes name clusters or none, at least one
connection, nobody calls `release`). `CallOK` says what a call may rely on at each
step: a handle of the cluster it was routed to while it waits for a connection, then
a connection of that handle that it owns, then the schema of its `USE`. `OwnOK` says
that a call owns no other connection, a finished `Router.Query` excepted. Both are
inductive because a step touches only connections the call owns
(`CallTouchesOwn`). The invariant of `Pool` is part of it: every step is one of the
pool's, except `SearchNext`, which calls `Get` again for a caller that was done
(`PoolStep`). That step preserves the invariant too, and to `HandleService` it is a
caller that leaves, so under these callers the pool stays safe (`PoolSafeInUse`), keeps
its promise (`ServiceInUse`) and, with one updater, strands and interrupts nothing
(`NothingStrandedInUse`, `UninterruptedInUse`). `CallsAdvance` is what `CallsEnd` rests on
besides fairness: a step of a started call takes a database off its list or raises
its `Place`, and no other goroutine's step moves it.

**Query tool** (`RulesAssumption`, `QueryAssumption`: rules and statements have
their types, the special values are distinct). `RulesInv` says that what the
checker and the rewriter have is in force, whichever of the overlapping reloads gave it
to them. For the rewriter that is simple, because a reload settles as it gives its rules
to the rewriter; the checker has the rules of a reload that has yet to do that, or
settled ones that no reload past the checker is about to replace (`CheckerInForce`).
`DuringInv` says that the rules in force are in `during` of every running call; `CallInv`
says what each step of a call may rely on. The bound on a write comes from
`RewriteBounds`: the rewriter's own rules, whichever they are by then, either set a
limit or have no positive `auto_limit`, and they are in `during`. `SentOK` and
`BlockedOK` keep, for `VerdictsMatch`, which rules admitted and limited a call, or
blocked it. `OneRuleSet`, which the run `query_inflight` refutes, is proved for the
calls during which one set of rules is in force (`OneRuleSetAlone`). After overlapping
reloads that need not be so even for a call that meets no reload; where reloads come
from one goroutine it is, since each leaves one set in force (`RulesAgreeAlone`). `RewriteIdempotent` and `RewriteNarrows`
are facts about the rewriter alone: it never raises or drops a limit, and changes no
verdict of the checker, so checking before rewriting is as good as checking after.

**Tools** (`ToolsAssumption`: the two default limits are positive). `ToolsImplementQuery`
shows that each step is one of `QueryTool`'s or leaves it alone, so everything above
holds with rows being read and six other tools beside it (`QuerySafeAmongTools`).
The rest is an invariant of one call, `JobOK`. Its core is `LeftOK`: an open result
set that has met no error still has all that is missing from the answer or, where
the statement has a LIMIT, one row more than fits. So a result set that is used up
leaves nothing missing, and one that has a row when the result is full proves that
there is more. `LiveInv` says that the limit a call would take now is among those
that were live during it, whatever is reloaded.

**HotReload** (`ReloadAssumption`: environments have their type and the first contents
parse). Types need `WrittenOK` (no more events are queued than contents were written)
and `LoadedOK` (what is past the two loads has parsed). `TriggerOK` says that a
goroutine is active only where its trigger exists, so with one reloading goroutine at
most one is (`OneIsAlone`); `Ordered` then says, for each place in reload, which holders
already have what is live, and that loaded contents are between those live and those
on disk. `OneReloader` is a property of the environment, and the theorems hold for
any set of environments. `EveryWriteIsRead` needs only `Caught`: once no event is queued,
the event goroutine has read what is on disk or is still about to, for the second file
or for both; other goroutines may reload meanwhile. `SettledOnDisk` adds `Settled`,
that a goroutine back from a reload has handed on what it read.

**Lifecycle** (`LifecycleAssumption`: nobody calls `release`, at least one writer).
`LifecycleUsesPool` maps each step to one of `Pool`'s or a stutter, which carries the
pool's theorems to the end of the process (`ServiceToTheEnd`, `NothingStrandedToTheEnd`,
`ServedToTheEnd`). The rest is inductive in five parts:
`StopOK` (a server Shutdown knew listens no more, and once main is past the wait no
request is left or the 30 s were over), `AuditWritable`, `CrashNeedsReload` with what
`Logger.Close` saw (`CloseOK`), and `LateOK` (the map of a closed pool has only late
handles). `NothingLeftOpen` combines `LateOK` with `NothingStrandedToTheEnd`: what is
open is in the map, what is in the map is late. `StopsGracefully` maps main's places to
the phases of `GracefulStop` (`Stages`) and each step to one of its steps or a stutter;
`StopOK` is what lets `Release` happen only without requests or with an excuse, which
is why it says that `overdue` comes after `stopping`.

**Rate limiter** (`LimiterAssumption`: `Full + MaxDelay <= Idle`, that is 2 s of
refill and the time between two statements are within the 5 minutes of cleanup).
`HeldInv` says that a request between lookup and `Allow` has its entry in the map
and was seen since; `EntryInv` that a limiter was charged at most `MaxDelay` after
`lastSeen`. So what cleanup deletes is full, and a fresh limiter is the same bucket.
`NeverMoreThanRate` is inductive with that: a request pays from the level, a tick raises
it by one at most, and replacing a full limiter by a full one changes nothing.

Every invariant, action property and refinement of a passing run is proved:
`ComponentsAgree`, `SettledIsCurrent` and `NeverBackwards` where one goroutine reloads,
which they say themselves, `NoOrphan`,
`ServedUntilMarked` and `ClosedAtExit` under `OneUpdater`, and the rest without
condition. Only model-checked: liveness, which is beyond the prover
(`UpdateReturns`, `MarkedGetsClosed`, `CallsEnd`, `EventsConverge`,
`LastWriteIsLoaded`, `PollSettles`, `ShutdownEnds`). Of these, what needs no fairness is
proved beside them: `MarkedIsOwned` for `MarkedGetsClosed`, `UpdatesAdvance`, `CallsAdvance`,
`EveryWriteIsRead`, `SettledOnDisk`, and for `ShutdownEnds` the phases of `StopsGracefully`.
That those steps are enabled, and so are taken, is left to TLC.

## 6. Not modelled

* Metrics and constants: counters nobody reads, and numbers. The constructor of the
  MCP server. The token tool, a program of its own.
* What authentication and validation decide: pure functions of one token or one
  string. That they let a call through or refuse it is modelled.
* Which address a request counts for (`getRealIP`), the text of entries and replies.
* Load's defaults, environment expansion and field checks: a load gives a version of
  the file or fails.
* The TiDB parser, fsnotify, `net/http`, `database/sql`, `rate.Limiter`, lumberjack,
  the MCP SDK: external, as the code uses them. A handler is taken to return when its
  tool call is over.
* Failures of writing an audit entry, and the rotation of the file.
* `max_limit` as a promise. `docs/guide/security-config.md:70` and 135 and
  `docs/reference/configuration.md:184` call it the maximum LIMIT; the code has the
  branch that lowers a SELECT's LIMIT to it (modelled, `CapLimit`), but `executeQuery`
  calls `Rewrite` only for the UPDATEs and DELETEs that the check marks (tools.go:426),
  so a SELECT is sent with the LIMIT it came with. The model and `VerdictMatchesRules`
  follow the code; only the rows returned are bounded, by `max_rows` (`WithinLimit`).
* EXPLAIN as text of the query tool has no type (parser.go:148), so it is refused
  although the checker has a case that allows it.

## 7. Plan

Done, in this order: `Pool` with its abstract service, `Router` over it, `HotReload`,
`Sql`, `QueryTool`, `RateLimiter`, `Lifecycle`, `Tools`, each with its proofs.

Then the abstract specification of a stopping process (`GracefulStop`), the rate bound,
the settled states of a reload, and the pool's promises under the router.

Left:

* The composition of `HotReload` with `Pool`: the three reloading goroutines as
  the pool's updaters, with the versions of the clusters as settings. What each part
  promises with more than one of them is weak (see above), so the composition would
  mainly show how the two weaknesses add up.
