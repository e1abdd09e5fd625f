------------------------------- MODULE Router -------------------------------
(***************************************************************************)
(* database.Router (internal/database/router.go) over the pool: a tool     *)
(* call names a database, the router finds its cluster, takes a connection *)
(* of the cluster's *sql.DB, selects the database with USE and runs the    *)
(* statement.  search_tables does so for one database after the other,     *)
(* without USE.                                                            *)
(*                                                                         *)
(* database/sql is external: a handle has MaxOpen connections, each owned  *)
(* by one caller or free; a free connection keeps the schema of its last   *)
(* USE, unless the driver replaced it.  Closing a handle leaves owned      *)
(* connections alone and refuses new ones.  Every call has a deadline, so  *)
(* each operation on the server may also fail.                             *)
(***************************************************************************)
EXTENDS Pool

CONSTANTS Database,   \* names in the databases section of the configuration
          NoCluster,  \* the route of a database that is not configured
          Routes,     \* the databases sections there are over time
          Kinds,      \* what the tool calls are: the initial values of kind
          MaxOpen,    \* max_open_conns
          NoConn, NoOwner, NoSchema

ASSUME RouterAssumption ==
    /\ Releasing = {}          \* no code under src/ but tests calls Pool.release
    /\ MaxOpen \in Nat \ {0}
    /\ NoCluster \notin Cluster
    /\ Routes \subseteq [Database -> Cluster \cup {NoCluster}]
    /\ Kinds \subseteq [Request -> {"query", "exec", "direct", "search"}]
    /\ NoOwner \notin Request
    /\ NoSchema \notin Database

Conn == Handle \X (1..MaxOpen)

ASSUME NoConnAssumption == NoConn \notin Conn

VARIABLES databases,  \* r.databases: the cluster of a database
          step,       \* where a call is in Query, Exec or a tool that uses GetDB
          kind,       \* "query" (Router.Query), "exec" (Router.Exec), "direct"
                      \* (GetDB, one query), "search" (GetDB and a query in a loop)
          todo,       \* the databases a search has not come to
          database,   \* the database a call names
          target,     \* the cluster GetDB found for it
          conn,       \* the connection a call runs on
          owner,      \* who has taken a connection out of the *sql.DB
          schema      \* the database a connection has selected

callVars == <<step, kind, todo, database, target, conn>>
sqlVars == <<owner, schema>>
routerVars == <<databases, callVars, sqlVars>>
allVars == <<vars, routerVars>>

RouterTypeOK ==
    /\ databases \in [Database -> Cluster \cup {NoCluster}]
    /\ step \in [Request -> {"start", "get", "conn", "use", "run", "rows", "next", "done", "failed"}]
    /\ kind \in [Request -> {"query", "exec", "direct", "search"}]
    /\ todo \in [Request -> SUBSET Database]
    /\ database \in [Request -> Database \cup {NoSchema}]
    /\ target \in [Request -> Cluster \cup {NoCluster}]
    /\ conn \in [Request -> Conn \cup {NoConn}]
    /\ owner \in [Conn -> Request \cup {NoOwner}]
    /\ schema \in [Conn -> Database \cup {NoSchema}]

RouterInit ==
    /\ Init
    /\ databases \in Routes
    /\ step = [r \in Request |-> "start"]
    /\ kind \in Kinds
    /\ todo = [r \in Request |-> {}]
    /\ database = [r \in Request |-> NoSchema]
    /\ target = [r \in Request |-> NoCluster]
    /\ conn = [r \in Request |-> NoConn]
    /\ owner = [c \in Conn |-> NoOwner]
    /\ schema = [c \in Conn |-> NoSchema]

-----------------------------------------------------------------------------
WithUse(r) == kind[r] \in {"query", "exec"}

\* Where a call goes when a database of it is finished or cannot be had: a
\* search continues with its next one.
Over(r, how) == IF kind[r] = "search" THEN "next" ELSE how

\* GetDB, the route.
Route(r, b) ==
    /\ step[r] = "start" /\ kind[r] # "search"
    /\ database' = [database EXCEPT ![r] = b]
    /\ target' = [target EXCEPT ![r] = databases[b]]
    /\ step' = [step EXCEPT ![r] = IF databases[b] = NoCluster THEN "failed" ELSE "get"]
    /\ UNCHANGED <<vars, databases, kind, todo, conn, sqlVars>>

ListDatabases == {b \in Database : databases[b] # NoCluster}

\* executeSearchTables starts with the names the router knows then.
Search(r) ==
    /\ step[r] = "start" /\ kind[r] = "search"
    /\ todo' = [todo EXCEPT ![r] = ListDatabases]
    /\ step' = [step EXCEPT ![r] = "next"]
    /\ UNCHANGED <<vars, databases, kind, database, target, conn, sqlVars>>

\* The loop goes to another database, in map order, and skips it when it is not
\* routed any more.
SearchNext(r, b) ==
    /\ step[r] = "next" /\ b \in todo[r]
    /\ todo' = [todo EXCEPT ![r] = @ \ {b}]
    /\ database' = [database EXCEPT ![r] = b]
    /\ target' = [target EXCEPT ![r] = databases[b]]
    /\ step' = [step EXCEPT ![r] = IF databases[b] = NoCluster THEN "next" ELSE "get"]
    /\ rpc' = [rpc EXCEPT ![r] = "new"]
    /\ UNCHANGED <<mapVars, refCount, closing, closed, held, updVars, databases, kind, conn, sqlVars>>

\* The loop is over: no database is left, or the result is truncated.
SearchEnds(r) ==
    /\ step[r] = "next"
    /\ todo[r] = {} \/ database[r] # NoSchema
    /\ step' = [step EXCEPT ![r] = "done"]
    /\ UNCHANGED <<vars, databases, kind, todo, database, target, conn, sqlVars>>

\* GetDB, the steps of Pool.Get.
GetDB(r) ==
    /\ step[r] = "get"
    /\ Lookup(r, target[r]) \/ CheckClosing(r) \/ AddRef(r)
    /\ step' = [step EXCEPT ![r] = IF rpc'[r] = "failed" THEN Over(r, "failed")
                                  ELSE IF rpc'[r] = "using" THEN "conn" ELSE "get"]
    /\ UNCHANGED <<databases, kind, todo, database, target, conn, sqlVars>>

\* db.Conn, or db.QueryContext taking a connection for its rows.
TakeConn(r) ==
    /\ step[r] = "conn"
    /\ held[r] \notin closed
    /\ \E k \in 1..MaxOpen :
          /\ owner[<<held[r], k>>] = NoOwner
          /\ owner' = [owner EXCEPT ![<<held[r], k>>] = r]
          /\ conn' = [conn EXCEPT ![r] = <<held[r], k>>]
    /\ step' = [step EXCEPT ![r] = IF WithUse(r) THEN "use" ELSE "run"]
    /\ UNCHANGED <<vars, databases, kind, todo, database, target, schema>>

End(r, how) == step' = [step EXCEPT ![r] = Over(r, how)] /\ Finish(r)

\* conn.Close, or the end of direct rows.  The driver may drop the connection
\* instead of keeping it for the next caller.
GiveBack(r) ==
    /\ owner' = [owner EXCEPT ![conn[r]] = NoOwner]
    /\ schema' \in {schema, [schema EXCEPT ![conn[r]] = NoSchema]}

\* Fault: the caller waits for a connection without a deadline.
NoConnIfClosed(r) ==
    /\ step[r] = "conn" /\ held[r] \in closed
    /\ End(r, "failed")
    /\ UNCHANGED <<databases, kind, todo, database, target, conn, sqlVars>>

\* No connection: the deadline passed while waiting, the handle is closed, the
\* server does not answer, or a search has as many matches as it may return.
NoConnLeft(r) ==
    /\ step[r] = "conn"
    /\ End(r, "failed")
    /\ UNCHANGED <<databases, kind, todo, database, target, conn, sqlVars>>

\* Fault: USE names the cluster instead of the database.
UseCluster(r) ==
    /\ step[r] = "use"
    /\ step' = [step EXCEPT ![r] = "run"]
    /\ schema' = [schema EXCEPT ![conn[r]] = target[r]]
    /\ UNCHANGED <<vars, databases, kind, todo, database, target, conn, owner>>

\* Fault: USE is saved on a connection that has selected a database before.
UseIfFresh(r) ==
    /\ step[r] = "use"
    /\ step' = [step EXCEPT ![r] = "run"]
    /\ schema' = IF schema[conn[r]] = NoSchema
                 THEN [schema EXCEPT ![conn[r]] = database[r]] ELSE schema
    /\ UNCHANGED <<vars, databases, kind, todo, database, target, conn, owner>>

\* useDB.
Use(r) ==
    /\ step[r] = "use"
    /\ step' = [step EXCEPT ![r] = "run"]
    /\ schema' = [schema EXCEPT ![conn[r]] = database[r]]
    /\ UNCHANGED <<vars, databases, kind, todo, database, target, conn, owner>>

\* Fault: no conn.Close where USE fails.
FailKeepsConn(r) ==
    /\ step[r] \in {"use", "run"}
    /\ End(r, "failed")
    /\ IF step[r] = "run" THEN GiveBack(r) ELSE UNCHANGED sqlVars
    /\ UNCHANGED <<databases, kind, todo, database, target, conn>>

\* USE or the statement fails: every path closes the connection.
Fail(r) ==
    /\ step[r] \in {"use", "run"}
    /\ End(r, "failed")
    /\ GiveBack(r)
    /\ UNCHANGED <<databases, kind, todo, database, target, conn>>

\* conn.ExecContext, and the deferred Close.
Exec(r) ==
    /\ step[r] = "run" /\ kind[r] = "exec"
    /\ End(r, "done")
    /\ GiveBack(r)
    /\ UNCHANGED <<databases, kind, todo, database, target, conn>>

\* conn.QueryContext or db.QueryContext returns rows.
Query(r) ==
    /\ step[r] = "run" /\ kind[r] # "exec"
    /\ step' = [step EXCEPT ![r] = "rows"]
    /\ UNCHANGED <<vars, databases, kind, todo, database, target, conn, sqlVars>>

\* Fault: search_tables leaves its rows open until it returns.
CloseRowsLater(r) ==
    /\ step[r] = "rows"
    /\ End(r, "done")
    /\ IF kind[r] = "direct" THEN GiveBack(r) ELSE UNCHANGED sqlVars
    /\ UNCHANGED <<databases, kind, todo, database, target, conn>>

\* rows.Close gives back a connection that db.QueryContext took; the *sql.Conn
\* of Router.Query stays taken, nobody has it any more to close it.
CloseRows(r) ==
    /\ step[r] = "rows"
    /\ End(r, "done")
    /\ IF WithUse(r) THEN UNCHANGED sqlVars ELSE GiveBack(r)
    /\ UNCHANGED <<databases, kind, todo, database, target, conn>>

\* Router.UpdateConfig.
UpdateRoutes(new) ==
    /\ databases' = new
    /\ UNCHANGED <<vars, callVars, sqlVars>>

-----------------------------------------------------------------------------
Call(r) ==
    \/ \E b \in Database : Route(r, b) \/ SearchNext(r, b)
    \/ Search(r) \/ SearchEnds(r)
    \/ GetDB(r) \/ TakeConn(r) \/ NoConnLeft(r) \/ Use(r) \/ Fail(r)
    \/ Exec(r) \/ Query(r) \/ CloseRows(r)

PoolSteps ==
    /\ \/ \E u \in Updater : \/ \E new \in ConfigsType : MarkAndAdd(u, new)
                             \/ Wait(u) \/ CloseHandle(u) \/ DeleteEntry(u)
       \/ Close
    /\ UNCHANGED routerVars

RouterNext ==
    \/ \E r \in Request : Call(r)
    \/ \E new \in Routes : UpdateRoutes(new)
    \/ PoolSteps

RouterSpec == RouterInit /\ [][RouterNext]_allVars

\* A call's goroutine runs on, its context has a deadline.
RouterFairSpec == RouterSpec /\ \A r \in Request : WF_allVars(Call(r) /\ step[r] # "start")

-----------------------------------------------------------------------------
(* Correctness.                                                            *)

\* A statement runs on the cluster its database was routed to, in its own
\* database, although connections are shared by all databases of a cluster and
\* keep the schema of their previous user.
RunsInItsDatabase ==
    \A r \in Request :
        step[r] \in {"run", "rows"} =>
            /\ conn[r][1][1] = target[r]
            /\ owner[conn[r]] = r
            /\ WithUse(r) => schema[conn[r]] = database[r]

\* A call that is over has given its connection back on every path, except the
\* successful Router.Query.
OnlyQueryKeepsConn ==
    \A c \in Conn, r \in Request :
        owner[c] = r /\ step[r] \in {"done", "failed"} => kind[r] = "query" /\ step[r] = "done"

\* No call waits for a connection while it has one, so calls cannot block each
\* other for ever; a search closes the rows of one database before the next.
NoHoldAndWait ==
    \A c \in Conn, r \in Request : owner[c] = r => step[r] \notin {"get", "conn", "next"}

\* Every call ends, even when no connection is ever free again.
CallsEnd == \A r \in Request : step[r] # "start" ~> step[r] \in {"done", "failed"}

\* What the comment in Query says: rows.Close releases the connection.
QueryGivesBack ==
    \A c \in Conn, r \in Request : owner[c] = r => step[r] \notin {"done", "failed"}
=============================================================================
