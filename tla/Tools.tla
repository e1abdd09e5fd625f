------------------------------- MODULE Tools --------------------------------
(***************************************************************************)
(* The seven tools (internal/mcp/tools.go) and what they return: each call *)
(* is a call of one tool, the query tool among them, and reads the rows of *)
(* its results one by one up to a limit that a reload may change meanwhile.*)
(*                                                                         *)
(* How many rows the server has for a call is free, up to MaxAnswer; which *)
(* ones they are is data.  Reading rows may fail at any row.  The          *)
(* connections that the calls use are in Router.                           *)
(***************************************************************************)
EXTENDS QueryTool

CONSTANTS Database,        \* the databases of the routes
          MaxTables,       \* defaultMaxTables
          DefaultMaxRows,  \* defaultMaxRows
          MaxAnswer        \* bound: rows the server has in one result

ASSUME ToolsAssumption == {MaxTables, DefaultMaxRows} \subseteq Nat \ {0} /\ MaxAnswer \in Nat

VARIABLES job,      \* the locals of a call's execute function
          limits    \* history: the values of max_rows that were live during a call

toolVars == <<job, limits>>
allVars == <<vars, toolVars>>

Tool == {"query", "list_databases", "list_tables", "describe_table", "show_create_table",
         "explain", "search_tables"}

\* The tools that stop reading after a number of rows.
Limited == {"query", "list_tables", "search_tables"}

\* getMaxRows, over the live configuration: the rules a reload installs become
\* live before the checker gets them.
GetMaxRows == IF live # NoRules /\ live.maxRows > 0 THEN live.maxRows ELSE DefaultMaxRows

AtMost(n, k) == IF n < k THEN n ELSE k

Job == [tool : Tool \cup {"none"},
        step : {"new", "next", "rows", "done", "panicked"},
        max : Nat,             \* maxRows, maxTables, maxMatches
        databases : SUBSET Database,  \* those a search has not reached
        left : Nat,            \* rows the open result set has not delivered
        count : Nat,           \* rowCount, count, len(matches)
        missing : Nat,         \* rows the server has that were not returned
        truncated : BOOLEAN,
        flawed : BOOLEAN,      \* history: a row or a database could not be read
        answer : {"none", "ok", "error"}]

LocalsOK ==
    /\ job \in [Query -> Job]
    /\ limits \in [Query -> SUBSET Nat]

ToolsTypeOK == TypeOK /\ LocalsOK

NewJob == [tool |-> "none", step |-> "new", max |-> 0, databases |-> {}, left |-> 0, count |-> 0,
           missing |-> 0, truncated |-> FALSE, flawed |-> FALSE, answer |-> "none"]

ToolsInit ==
    /\ Init
    /\ job = [q \in Query |-> NewJob]
    /\ limits = [q \in Query |-> {}]

At(q, tools, step) == job[q].tool \in tools /\ job[q].step = step

\* Replace the locals of q; nothing else changes.
Becomes(q, j) == job' = [job EXCEPT ![q] = j] /\ UNCHANGED limits

\* Return from a tool other than query.
Return(q, answer) ==
    /\ Becomes(q, [job[q] EXCEPT !.step = "done", !.answer = answer])
    /\ UNCHANGED vars

-----------------------------------------------------------------------------
(* The calls.                                                              *)

\* RegisterTools: the SDK calls the handler of the tool that is asked for.
Ask(q, tool) ==
    /\ job[q].tool = "none"
    /\ job' = [job EXCEPT ![q].tool = tool]
    /\ limits' = [limits EXCEPT ![q] = {GetMaxRows}]
    /\ UNCHANGED vars

\* The input is refused, the database is unknown, or the statement fails.
Fails(q) ==
    /\ At(q, Tool \ {"query", "list_databases", "search_tables"}, "new")
    /\ Return(q, "error")

\* handleSearchTablesTool: the pattern is refused.
RefusePattern(q) ==
    /\ At(q, {"search_tables"}, "new")
    /\ Return(q, "error")

ListDatabases(q) ==
    /\ At(q, {"list_databases"}, "new")
    /\ Return(q, "ok")

\* One row, which QueryRowContext reads.
ShowCreateTable(q) ==
    /\ At(q, {"show_create_table"}, "new")
    /\ Return(q, "ok")

\* A result set is open; the server has n rows for it and sends those below
\* the LIMIT of the statement.
Open(q, max, n, limit) ==
    /\ n <= MaxAnswer
    /\ Becomes(q, [job[q] EXCEPT !.step = "rows", !.max = max, !.left = AtMost(n, limit),
                                 !.missing = @ + n])
    /\ UNCHANGED vars

\* LIMIT maxTables + 1: one row more tells that there are more.
ListTables(q, n) ==
    /\ At(q, {"list_tables"}, "new")
    /\ Open(q, MaxTables, n, MaxTables + 1)

DescribeTable(q, n) ==
    /\ At(q, {"describe_table"}, "new")
    /\ Open(q, 0, n, n)

\* executeExplain of the statement s, whatever the checker's rules say.
Explain(q, s, n) ==
    /\ At(q, {"explain"}, "new")
    /\ s \in Statement /\ TypeOf(s) \in DML
    /\ Open(q, 0, n, n)

\* Parse returned nil for a text with no statement in it.
ExplainNil(q) ==
    /\ At(q, {"explain"}, "new")
    /\ Becomes(q, [job[q] EXCEPT !.step = "panicked"])
    /\ UNCHANGED vars

\* executeQuery up to an open result set, and its end.
QueryStep(q) ==
    /\ job[q].tool = "query"
    /\ Execute(q)
    /\ UNCHANGED toolVars

\* executeQuery: rows.Columns, and the limit as it is by now.
QueryRows(q, n) ==
    /\ At(q, {"query"}, "new")
    /\ pc[q] = "rows"
    /\ Open(q, GetMaxRows, n, n)

\* rows.Columns fails.
ColumnsFail(q) ==
    /\ At(q, {"query"}, "new")
    /\ FetchFails(q)
    /\ Becomes(q, [job[q] EXCEPT !.step = "done"])

-----------------------------------------------------------------------------
(* search_tables.                                                          *)

SearchTables(q) ==
    /\ At(q, {"search_tables"}, "new")
    /\ Becomes(q, [job[q] EXCEPT !.step = "next", !.max = GetMaxRows, !.databases = Database])
    /\ UNCHANGED vars

\* Fault: the limit is asked for again for each database, and a search that
\* has reached it goes on.
SearchDatabaseLive(q, d, n) ==
    /\ At(q, {"search_tables"}, "next")
    /\ d \in job[q].databases /\ ~job[q].truncated /\ n <= MaxAnswer
    /\ Becomes(q, [job[q] EXCEPT !.step = "rows", !.databases = @ \ {d}, !.missing = @ + n,
                                 !.left = AtMost(n, GetMaxRows - job[q].count + 1)])
    /\ UNCHANGED vars

\* Fault: the statement asks for what remains and no row more.
SearchDatabaseExact(q, d, n) ==
    /\ At(q, {"search_tables"}, "next")
    /\ d \in job[q].databases /\ ~job[q].truncated /\ n <= MaxAnswer
    /\ job[q].count < job[q].max
    /\ Becomes(q, [job[q] EXCEPT !.step = "rows", !.databases = @ \ {d}, !.missing = @ + n,
                                 !.left = AtMost(n, job[q].max - job[q].count)])
    /\ UNCHANGED vars

\* The next database, which has n matches: its rows are asked for, one more
\* than remain.
SearchDatabase(q, d, n) ==
    /\ At(q, {"search_tables"}, "next")
    /\ d \in job[q].databases /\ ~job[q].truncated /\ n <= MaxAnswer
    /\ job[q].count < job[q].max
    /\ Becomes(q, [job[q] EXCEPT !.step = "rows", !.databases = @ \ {d}, !.missing = @ + n,
                                 !.left = AtMost(n, job[q].max - job[q].count + 1)])
    /\ UNCHANGED vars

\* There is a next database, and nothing remains.
SearchFull(q) ==
    /\ At(q, {"search_tables"}, "next")
    /\ job[q].databases # {} /\ ~job[q].truncated
    /\ job[q].count >= job[q].max
    /\ Becomes(q, [job[q] EXCEPT !.truncated = TRUE])
    /\ UNCHANGED vars

\* GetDB or the statement fails: the search goes on without this database.
SkipDatabase(q, d) ==
    /\ At(q, {"search_tables"}, "next")
    /\ d \in job[q].databases /\ ~job[q].truncated
    /\ Becomes(q, [job[q] EXCEPT !.databases = @ \ {d}, !.flawed = TRUE])
    /\ UNCHANGED vars

SearchEnds(q) ==
    /\ At(q, {"search_tables"}, "next")
    /\ job[q].databases = {} \/ job[q].truncated
    /\ Return(q, "ok")

-----------------------------------------------------------------------------
(* Reading a result set.                                                   *)

\* Fault: off by one.
EnoughAndOne(q) == job[q].tool \in Limited /\ job[q].count > job[q].max

Enough(q) == job[q].tool \in Limited /\ job[q].count >= job[q].max

\* Fault: the result counts as truncated as soon as it is full.
NextRowFills(q) ==
    /\ At(q, Tool, "rows")
    /\ job[q].left > 0 /\ ~Enough(q)
    /\ Becomes(q, [job[q] EXCEPT !.left = @ - 1, !.count = @ + 1, !.missing = @ - 1,
                                 !.truncated = job[q].tool = "list_tables"
                                               /\ job[q].count + 1 = job[q].max])
    /\ UNCHANGED vars

NextRow(q) ==
    /\ At(q, Tool, "rows")
    /\ job[q].left > 0 /\ ~Enough(q)
    /\ Becomes(q, [job[q] EXCEPT !.left = @ - 1, !.count = @ + 1, !.missing = @ - 1])
    /\ UNCHANGED vars

\* rows.Scan fails: search_tables skips the row, the others return.
ScanFails(q) ==
    /\ At(q, Tool, "rows")
    /\ job[q].left > 0 /\ ~Enough(q)
    /\ \/ /\ job[q].tool = "search_tables"
          /\ Becomes(q, [job[q] EXCEPT !.left = @ - 1, !.flawed = TRUE])
          /\ UNCHANGED vars
       \/ /\ job[q].tool = "query"
          /\ FetchFails(q)
          /\ Becomes(q, [job[q] EXCEPT !.step = "done"])
       \/ /\ job[q].tool \notin {"query", "search_tables"}
          /\ Return(q, "error")

\* The loop over the rows is left, and j are the locals.
Leave(q, j) ==
    \/ /\ j.tool = "search_tables"
       /\ Becomes(q, [j EXCEPT !.step = "next", !.left = 0])
       /\ UNCHANGED vars
    \/ /\ j.tool = "query"
       /\ Fetch(q)
       /\ Becomes(q, [j EXCEPT !.step = "done"])
    \/ /\ j.tool \notin {"query", "search_tables"}
       /\ Becomes(q, [j EXCEPT !.step = "done", !.answer = "ok"])
       /\ UNCHANGED vars

\* One row more than the limit: the query tool does not tell.
OneMore(q) ==
    /\ At(q, Tool, "rows")
    /\ job[q].left > 0 /\ Enough(q)
    /\ Leave(q, [job[q] EXCEPT !.truncated = job[q].tool # "query"])

LastRow(q) ==
    /\ At(q, Tool, "rows")
    /\ job[q].left = 0
    /\ Leave(q, job[q])

\* rows.Next returns false because of an error, the deadline of the call among
\* them: only search_tables asks rows.Err, to go on with the next database.
RowsBreak(q) ==
    /\ At(q, Tool, "rows")
    /\ job[q].left > 0
    /\ Leave(q, [job[q] EXCEPT !.flawed = TRUE])

-----------------------------------------------------------------------------
\* A call that has not returned.
Working(q) == /\ job[q].tool # "none" /\ job[q].step \notin {"done", "panicked"}
              /\ pc[q] \notin {"done", "panicked"}

\* ReloadableConfig.Update, as Server.UpdateConfig begins.
UpdateLive(u, new) ==
    /\ UpdateConfig(u, new)
    /\ limits' = [q \in Query |-> IF Working(q) THEN limits[q] \cup {GetMaxRows'} ELSE limits[q]]
    /\ UNCHANGED job

Read(q) == NextRow(q) \/ ScanFails(q) \/ OneMore(q) \/ LastRow(q) \/ RowsBreak(q)

ToolStep(q) ==
    \/ \E tool \in Tool : Ask(q, tool)
    \/ Fails(q) \/ RefusePattern(q) \/ ListDatabases(q) \/ ShowCreateTable(q) \/ ExplainNil(q)
    \/ \E n \in 0 .. MaxAnswer :
          \/ ListTables(q, n) \/ DescribeTable(q, n) \/ QueryRows(q, n)
          \/ \E s \in Statements : Explain(q, s, n)
          \/ \E d \in Database : SearchDatabase(q, d, n)
    \/ SearchTables(q) \/ SearchFull(q) \/ SearchEnds(q)
    \/ \E d \in Database : SkipDatabase(q, d)
    \/ QueryStep(q) \/ ColumnsFail(q) \/ Read(q)

ToolsNext ==
    \/ \E q \in Query : ToolStep(q)
    \/ \E u \in Reloader :
          \/ \E new \in AnyRules : UpdateLive(u, new)
          \/ Update(u) /\ UNCHANGED toolVars

ToolsSpec == ToolsInit /\ [][ToolsNext]_allVars

-----------------------------------------------------------------------------
(* Correctness.                                                            *)

\* "Max rows: configured by max_rows": a result never has more rows than some
\* max_rows that was live during the call allows, and a list of tables never
\* more than maxTables, whatever is reloaded while it is read.
WithinLimit ==
    \A q \in Query :
        /\ job[q].tool \in {"query", "search_tables"} /\ job[q].count > 0
              => \E n \in limits[q] : job[q].count <= n
        /\ job[q].tool = "list_tables" => job[q].count <= MaxTables

\* A list or a search that is not marked truncated and met no error has every
\* table there is, of every database; the query tool, which has no such mark,
\* leaves rows out only when it returns max_rows of them.
CompleteUnlessTruncated ==
    \A q \in Query :
        /\ At(q, Limited, "done") /\ ~job[q].flawed /\ ~job[q].truncated
        /\ job[q].answer = "ok" \/ pc[q] = "log"
        => \/ job[q].missing = 0 /\ job[q].databases = {}
           \/ job[q].tool = "query" /\ job[q].count = job[q].max

\* "truncated: true indicates more tables exist": a result marked truncated is
\* full, and a table is missing from it or a database was not searched.
TruncatedMeansMore ==
    \A q \in Query :
        job[q].truncated => /\ job[q].count = job[q].max
                            /\ job[q].missing > 0 \/ job[q].databases # {}

\* "Cause: Query returned more than max_rows" and "Query execution exceeded
\* query_timeout", both of an error: what the query tool returns as a success
\* is the whole result.
SuccessIsComplete ==
    \A q \in Query :
        job[q].tool = "query" /\ reply[q] = "success" => job[q].missing = 0
=============================================================================
