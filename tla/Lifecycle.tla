----------------------------- MODULE Lifecycle ------------------------------
(***************************************************************************)
(* From the start of serving to the end of the process: main               *)
(* (cmd/server/main.go), Server.Start and Server.Shutdown                  *)
(* (internal/server/http.go), the requests in between, the reloads that    *)
(* come at any time, and the life of the audit writer                      *)
(* (internal/audit/logger.go), over the connection pool (Pool, of which    *)
(* every step here is a step).                                             *)
(*                                                                         *)
(* Updater are the goroutines of the watcher; main's own reload on SIGHUP  *)
(* is over before main sees the signal that ends it.  A request is in      *)
(* flight from the moment its connection is accepted; its handler returns  *)
(* when the tool call is over.  net/http and lumberjack are external.      *)
(***************************************************************************)
EXTENDS Pool

CONSTANT MaxWriter   \* bound: lumberjack writers made

ASSUME LifecycleAssumption ==
    /\ Releasing = {}          \* no code under src/ but tests calls Pool.release
    /\ MaxWriter \in Nat \ {0}

VARIABLES main,      \* where main is
          quit,      \* SIGINT or SIGTERM has arrived
          watching,  \* the watcher was made and started
          srv,       \* s.httpSrv and the goroutine that called Start
          stopping,  \* http.Server.Shutdown was called on s.httpSrv
          overdue,   \* it returned because its 30 s were over
          req,       \* where a request is
          reload,    \* where a reload is in Server.UpdateConfig
          enabled,   \* Logger.enabled
          writer,    \* Logger.writer, 0 for nil
          writers,   \* lumberjack writers made so far
          files,     \* the writers whose file is open
          replaced,  \* history: writers that gave way to another one
          late,      \* history: handles made after the pool was closed
          dropped    \* history: a reload dropped the writer while main closed it

serverVars == <<quit, watching, srv, stopping, overdue>>
auditVars == <<enabled, writer, writers, files, replaced>>
history == <<late, dropped>>
lifeVars == <<main, serverVars, req, reload, auditVars, history>>
allVars == <<vars, lifeVars>>

LifeTypeOK ==
    /\ main \in {"watch", "serve", "http", "wait", "pool", "audit", "auditClose", "stop",
                 "exit", "crashed"}
    /\ {quit, watching, stopping, overdue, enabled, dropped} \subseteq BOOLEAN
    /\ srv \in {"unset", "set", "listening", "failed", "closed"}
    /\ req \in [Request -> {"new", "accepted", "auth", "tool", "log", "done"}]
    /\ reload \in [Updater -> {"idle", "pool", "audit"}]
    /\ {writer, writers} \subseteq 0..MaxWriter
    /\ files \subseteq 1..MaxWriter
    /\ replaced \subseteq 1..MaxWriter
    /\ late \subseteq Handle

\* server.New has succeeded.
LifeInit ==
    /\ Init
    /\ main = "watch"
    /\ quit = FALSE /\ watching = FALSE /\ stopping = FALSE /\ overdue = FALSE
    /\ dropped = FALSE
    /\ srv = "unset"
    /\ req = [r \in Request |-> "new"]
    /\ reload = [u \in Updater |-> "idle"]
    /\ enabled \in BOOLEAN
    /\ writer = IF enabled THEN 1 ELSE 0
    /\ writers = writer
    /\ files = {} /\ replaced = {} /\ late = {}

-----------------------------------------------------------------------------
(* main, Start.                                                            *)

\* The end of main ends every goroutine.
Alive == main \notin {"exit", "crashed"}

GoMain(from, to) == main = from /\ main' = to

\* NewWatcher, which may fail, its Start, and `go srv.Start()`.
StartWatcher ==
    /\ GoMain("watch", "serve")
    /\ watching' \in BOOLEAN
    /\ UNCHANGED <<vars, quit, srv, stopping, overdue, req, reload, auditVars, history>>

\* Start makes the http.Server.
Start ==
    /\ Alive /\ main # "watch" /\ srv = "unset"
    /\ srv' = "set"
    /\ UNCHANGED <<vars, main, quit, watching, stopping, overdue, req, reload, auditVars, history>>

\* ListenAndServe; main only logs its error.
ListenAndServe ==
    /\ Alive /\ srv = "set"
    /\ srv' \in IF stopping THEN {"closed"} ELSE {"listening", "failed"}
    /\ UNCHANGED <<vars, main, quit, watching, stopping, overdue, req, reload, auditVars, history>>

Signal ==
    /\ main = "serve" /\ ~quit
    /\ quit' = TRUE
    /\ UNCHANGED <<vars, main, watching, srv, stopping, overdue, req, reload, auditVars, history>>

-----------------------------------------------------------------------------
(* Requests.                                                               *)

GoReq(r, from, to) == Alive /\ req[r] = from /\ req' = [req EXCEPT ![r] = to]

Accept(r) ==
    /\ srv = "listening"
    /\ GoReq(r, "new", "accepted")
    /\ UNCHANGED <<vars, main, serverVars, reload, auditVars, history>>

\* The request goes on, or the limiter refuses it, or it is for /health.  (Also what
\* http.Server.Shutdown does with a connection that sends nothing.)
Limit(r) ==
    /\ GoReq(r, "accepted", "auth") \/ GoReq(r, "accepted", "done")
    /\ UNCHANGED <<vars, main, serverVars, reload, auditVars, history>>

Authenticate(r) ==
    /\ GoReq(r, "auth", "tool") \/ GoReq(r, "auth", "done")
    /\ UNCHANGED <<vars, main, serverVars, reload, auditVars, history>>

\* A tool that asks the pool for a cluster.
UsePool(r) ==
    /\ Alive /\ req[r] = "tool"
    /\ Get(r)
    /\ UNCHANGED <<main, serverVars, req, reload, auditVars, history>>

\* The tool is over; only the query tool goes on to Log.
EndTool(r) ==
    /\ GoReq(r, "tool", "log") \/ GoReq(r, "tool", "done")
    /\ Finish(r) \/ (rpc[r] \in {"new", "failed"} /\ UNCHANGED vars)
    /\ UNCHANGED <<main, serverVars, reload, auditVars, history>>

\* lumberjack opens its file at the first Write, also after a Close.
Log(r) ==
    /\ GoReq(r, "log", "done")
    /\ files' = IF enabled THEN files \cup {writer} ELSE files
    /\ UNCHANGED <<vars, main, serverVars, reload, enabled, writer, writers, replaced, history>>

-----------------------------------------------------------------------------
(* Server.UpdateConfig, in a goroutine of the watcher.                     *)

Reload(u) ==
    /\ Alive /\ watching
    /\ reload[u] = "idle"
    /\ reload' = [reload EXCEPT ![u] = "pool"]
    /\ UNCHANGED <<vars, main, serverVars, req, auditVars, history>>

UpdatePool(u, new) ==
    /\ Alive /\ reload[u] = "pool"
    /\ MarkAndAdd(u, new)
    /\ reload' = [reload EXCEPT ![u] = "audit"]
    /\ late' = IF shut THEN late \cup {<<n, made[n] + 1>> : n \in Added(new)} ELSE late
    /\ UNCHANGED <<main, serverVars, req, auditVars, dropped>>

Drain(u) ==
    /\ Alive
    /\ Wait(u) \/ CloseHandle(u) \/ DeleteEntry(u)
    /\ UNCHANGED lifeVars

AfterPool(u) ==
    /\ Alive /\ reload[u] = "audit" /\ upc[u] = "idle"
    /\ reload' = [reload EXCEPT ![u] = "idle"]
    /\ UNCHANGED <<vars, main, serverVars, req, late>>

\* Logger.UpdateConfig with auditing off drops the writer.
DropWriter(u) ==
    /\ AfterPool(u)
    /\ writer' = 0
    /\ dropped' = (dropped \/ main = "auditClose")
    /\ UNCHANGED <<writers, replaced>>

\* Fault: the logger stays enabled.
DisableAuditHalf(u) ==
    /\ DropWriter(u)
    /\ files' = files \ {writer}
    /\ UNCHANGED enabled

\* Fault: the writer is not closed.
DisableAuditOpen(u) == DropWriter(u) /\ enabled' = FALSE /\ UNCHANGED files

DisableAudit(u) ==
    /\ DropWriter(u)
    /\ enabled' = FALSE
    /\ files' = files \ {writer}

\* With auditing on: the old writer is not closed.
EnableAudit(u) ==
    /\ AfterPool(u)
    /\ writers < MaxWriter
    /\ enabled' = TRUE
    /\ writer' = writers + 1 /\ writers' = writers + 1
    /\ replaced' = replaced \cup ({writer} \ {0})
    /\ UNCHANGED <<files, dropped>>

\* With auditing on, and a directory that cannot be made.
KeepAudit(u) == AfterPool(u) /\ UNCHANGED <<auditVars, dropped>>

UpdateAudit(u) == DisableAudit(u) \/ EnableAudit(u) \/ KeepAudit(u)

-----------------------------------------------------------------------------
(* Shutdown.                                                               *)

InFlight(r) == req[r] \notin {"new", "done"}

\* main leaves its loop.
Quit ==
    /\ quit /\ GoMain("serve", "http")
    /\ UNCHANGED <<vars, serverVars, req, reload, auditVars, history>>

\* Fault: pool and audit logger are closed before the requests are over.
ShutdownHttpLast ==
    /\ GoMain("http", "pool")
    /\ stopping' = (srv # "unset")
    /\ srv' = IF srv = "listening" THEN "closed" ELSE srv
    /\ UNCHANGED <<vars, quit, watching, overdue, req, reload, auditVars, history>>

\* Fault: the requests are waited for, and the server goes on listening.
ShutdownHttpListens ==
    /\ GoMain("http", IF srv = "unset" THEN "pool" ELSE "wait")
    /\ stopping' = (srv # "unset")
    /\ UNCHANGED <<vars, quit, watching, srv, overdue, req, reload, auditVars, history>>

\* s.httpSrv is still nil, or http.Server.Shutdown closes the listener.
ShutdownHttp ==
    /\ GoMain("http", IF srv = "unset" THEN "pool" ELSE "wait")
    /\ stopping' = (srv # "unset")
    /\ srv' = IF srv = "listening" THEN "closed" ELSE srv
    /\ UNCHANGED <<vars, quit, watching, overdue, req, reload, auditVars, history>>

Drained ==
    /\ GoMain("wait", "pool")
    /\ \A r \in Request : ~InFlight(r)
    /\ UNCHANGED <<vars, serverVars, req, reload, auditVars, history>>

Overdue ==
    /\ GoMain("wait", "pool")
    /\ overdue' = TRUE
    /\ UNCHANGED <<vars, quit, watching, srv, stopping, req, reload, auditVars, history>>

\* Fault: the context has no deadline.
AwaitDrained == Drained

AwaitRequests == Drained \/ Overdue

\* Fault: an error of http.Server.Shutdown ends Shutdown.
ClosePoolUnlessOverdue ==
    /\ GoMain("pool", IF overdue THEN "stop" ELSE "audit")
    /\ IF overdue THEN UNCHANGED vars ELSE Close
    /\ UNCHANGED <<serverVars, req, reload, auditVars, history>>

\* The pool, and the rate limiter (RateLimiter).
ClosePool ==
    /\ GoMain("pool", "audit")
    /\ Close
    /\ UNCHANGED <<serverVars, req, reload, auditVars, history>>

\* Fault: Logger.Close does not look whether there is a writer.
CheckWriterNot ==
    /\ GoMain("audit", "auditClose")
    /\ UNCHANGED <<vars, serverVars, req, reload, auditVars, history>>

\* Logger.Close looks at l.writer, without l.mu.
CheckWriter ==
    /\ GoMain("audit", IF writer = 0 THEN "stop" ELSE "auditClose")
    /\ UNCHANGED <<vars, serverVars, req, reload, auditVars, history>>

\* It reads l.writer again, and a nil one ends the process.
CloseWriter ==
    /\ GoMain("auditClose", IF writer = 0 THEN "crashed" ELSE "stop")
    /\ files' = files \ {writer}
    /\ UNCHANGED <<vars, serverVars, req, reload, enabled, writer, writers, replaced, history>>

\* Watcher.Stop, deferred, and the end of the process.
StopWatcher ==
    /\ GoMain("stop", "exit")
    /\ UNCHANGED <<vars, serverVars, req, reload, auditVars, history>>

-----------------------------------------------------------------------------
Serve(r) ==
    \/ Accept(r) \/ Limit(r) \/ Authenticate(r) \/ UsePool(r) \/ EndTool(r) \/ Log(r)

Update(u) ==
    \/ Reload(u) \/ (\E new \in ConfigsType : UpdatePool(u, new)) \/ Drain(u) \/ UpdateAudit(u)

Main ==
    \/ StartWatcher \/ Quit \/ ShutdownHttp \/ AwaitRequests \/ ClosePool
    \/ CheckWriter \/ CloseWriter \/ StopWatcher

LifeNext ==
    \/ Main \/ Start \/ ListenAndServe \/ Signal
    \/ \E r \in Request : Serve(r)
    \/ \E u \in Updater : Update(u)

LifeSpec == LifeInit /\ [][LifeNext]_allVars

\* main runs on; its wait for requests is bounded by the context.
LifeFairSpec == LifeSpec /\ WF_allVars(Main)

-----------------------------------------------------------------------------
(* Correctness.                                                            *)

\* "Wait for in-flight requests": when the pool is closed under a server that
\* Shutdown knew of, no request is in flight and none will be, unless the 30 s
\* were over.
DrainedBeforeClose ==
    shut /\ stopping /\ ~overdue => \A r \in Request : ~InFlight(r)

StopPhase ==
    IF ~Alive THEN "over"
    ELSE IF shut THEN "released"
    ELSE IF main \in {"wait", "pool"} THEN "draining" ELSE "serving"

\* Shutdown went past the requests at its deadline, or for want of a server.
Excuse ==
    IF overdue THEN "late"
    ELSE IF main \notin {"watch", "serve", "http"} /\ ~stopping THEN "unknown" ELSE "none"

Graceful == INSTANCE GracefulStop
    WITH phase <- StopPhase, excuse <- Excuse,
         begun <- {r \in Request : req[r] # "new"}, active <- {r \in Request : InFlight(r)}

\* "Graceful shutdown": seen from its clients, the process stops as GracefulStop
\* says, whatever its server, the reloads and the signal do meanwhile: nothing
\* is accepted while it drains, and the pool is closed under a request only
\* with one of the two excuses.
ImplementsGracefulStop == Graceful!Spec

\* "Close database connections": with one updating goroutine, a handle that is
\* open when the process ends was made by a reload after the pool was closed,
\* and the audit file is closed with the writer unless a request was still
\* under way then.
ClosedAtExit ==
    main = "exit" =>
        /\ \A d \in Handle : d[2] <= made[d[1]] /\ d \notin closed => d \in late
        /\ files \subseteq replaced \/ overdue \/ ~stopping

\* A logger that is enabled has a writer (Log calls it without a check), and a
\* file that is open is the writer's or that of a writer it replaced.
AuditWritable ==
    /\ enabled => writer # 0
    /\ files \subseteq {writer} \cup replaced

\* A nil writer crashes main at the end only when a reload turns auditing off
\* between the two times Logger.Close reads it.
CrashNeedsReload == main = "crashed" => dropped

\* The process ends after a signal, whatever requests and reloads do.
ShutdownEnds == quit ~> ~Alive
=============================================================================
