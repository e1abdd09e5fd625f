----------------------------- MODULE ToolsProofs ----------------------------
(***************************************************************************)
(* What the tools return, for every set of rules, databases and calls and  *)
(* any number of rows.  Every step of Tools is one of QueryTool's or       *)
(* leaves it alone, so what QueryProofs proves holds here too.  JobOK ties *)
(* what an open result set still has to what is missing from the answer;   *)
(* LiveInv says that the max_rows a call would read is among its limits.   *)
(***************************************************************************)
EXTENDS Tools, QueryProofs

\* A result set that is read without a flaw has all that is missing, or, when
\* its statement had a LIMIT, one row more than fits.
LeftOK(j) ==
    IF j.tool \in {"list_tables", "search_tables"}
    THEN j.left = AtMost(j.missing, j.max + 1 - j.count)
    ELSE j.left = j.missing

\* The locals j of a call, its limits L, and where it is in executeQuery.
JobOK(j, L, p) ==
    /\ j.tool = "none" => j.step = "new"
    /\ j.tool # "query" => p = "new"
    /\ j.tool = "query" =>
          /\ j.answer = "none" /\ ~j.truncated
          /\ j.step \in {"new", "rows", "done"}
          /\ j.step = "rows" => p = "rows"
          /\ j.step = "done" => p \in {"log", "done"}
    /\ j.step = "next" => j.tool = "search_tables"
    /\ j.tool # "search_tables" => j.databases = {}
    /\ j.step = "new" => /\ j.max = 0 /\ j.count = 0 /\ j.missing = 0 /\ j.databases = {}
                         /\ ~j.truncated /\ ~j.flawed /\ j.answer = "none"
    /\ j.tool \in Limited => j.count <= j.max
    /\ j.tool = "list_tables" => j.max <= MaxTables
    /\ j.tool \in {"query", "search_tables"} /\ (j.step \in {"next", "rows"} \/ j.count > 0)
          => j.max \in L
    /\ j.step = "rows" => j.left <= j.missing /\ ~j.truncated /\ (~j.flawed => LeftOK(j))
    /\ j.step = "next" /\ ~j.flawed /\ ~j.truncated => j.missing = 0
    /\ j.truncated => j.count = j.max /\ (j.missing > 0 \/ j.databases # {})
    /\ j.step = "done" /\ j.tool \in Limited /\ ~j.flawed /\ ~j.truncated
          /\ (j.answer = "ok" \/ p = "log")
          => \/ j.missing = 0 /\ j.databases = {}
             \/ j.tool = "query" /\ j.count = j.max

LiveInv(q) == Working(q) => GetMaxRows \in limits[q]

ToolsInv ==
    /\ LocalsOK
    /\ \A q \in Query : JobOK(job[q], limits[q], pc[q]) /\ LiveInv(q)

-----------------------------------------------------------------------------
(* Tools is QueryTool with more to it.                                     *)

LEMMA QueryStepSimulates == ToolsNext => [Next]_vars
<1>. SUFFICES ASSUME ToolsNext PROVE [Next]_vars
  OBVIOUS
<1>1. ASSUME NEW q \in Query, ToolStep(q) PROVE [Next]_vars
  <2>1. CASE QueryStep(q)
    BY <2>1 DEF QueryStep, Next, Call
  <2>2. CASE ColumnsFail(q)
    BY <2>2 DEF ColumnsFail, Next, Call
  <2>3. CASE Read(q)
    <3>1. CASE NextRow(q)
      BY <3>1 DEF NextRow
    <3>2. CASE ScanFails(q)
      BY <3>2 DEF ScanFails, Return, Next, Call
    <3>3. ASSUME NEW j, Leave(q, j) PROVE [Next]_vars
      BY <3>3 DEF Leave, Next, Call
    <3>. QED BY <2>3, <3>1, <3>2, <3>3 DEF Read, OneMore, LastRow, RowsBreak
  <2>4. CASE ~(QueryStep(q) \/ ColumnsFail(q) \/ Read(q))
    BY <1>1, <2>4 DEF ToolStep, Ask, Fails, RefusePattern, ListDatabases, ShowCreateTable,
        ExplainNil, ListTables, DescribeTable, QueryRows, Explain, SearchDatabase, SearchTables,
        SearchFull, SearchEnds, SkipDatabase, Open, Return
  <2>. QED BY <2>1, <2>2, <2>3, <2>4
<1>2. ASSUME NEW u \in Reloader, NEW new \in AnyRules, UpdateLive(u, new) PROVE [Next]_vars
  BY <1>2 DEF UpdateLive, Next
<1>3. ASSUME NEW u \in Reloader, Update(u) PROVE [Next]_vars
  BY <1>3 DEF Next
<1>. QED BY <1>1, <1>2, <1>3 DEF ToolsNext

\* A behaviour of the tools is one of the query tool: what QueryProofs shows of
\* Spec holds of ToolsSpec.
THEOREM ToolsImplementQuery == ToolsSpec => Spec
<1>1. ToolsInit => Init
  BY DEF ToolsInit
<1>2. [ToolsNext]_allVars => [Next]_vars
  BY QueryStepSimulates DEF allVars
<1>. QED BY <1>1, <1>2, PTL DEF ToolsSpec, Spec

-----------------------------------------------------------------------------
LEMMA LimitPositive == TypeOK => GetMaxRows \in Nat /\ GetMaxRows > 0
BY RulesAssumption, ToolsAssumption DEF TypeOK, AnyRules, SecurityRules, GetMaxRows

LEMMA AtMostFacts ==
    ASSUME NEW n \in Nat, NEW k \in Nat
    PROVE  AtMost(n, k) \in Nat /\ AtMost(n, k) <= n /\ AtMost(n, k) <= k
BY DEF AtMost

LEMMA ToolsInitInv == ToolsInit => ToolsInv
<1>. SUFFICES ASSUME ToolsInit PROVE ToolsInv
  OBVIOUS
<1>1. NewJob \in Job
  BY DEF NewJob, Job
<1>2. LocalsOK
  BY <1>1 DEF ToolsInit, LocalsOK
<1>3. ASSUME NEW q \in Query PROVE JobOK(job[q], limits[q], pc[q]) /\ LiveInv(q)
  <2>1. job[q] = NewJob /\ pc[q] = "new"
    BY DEF ToolsInit, Init
  <2>. QED BY <2>1, ToolsAssumption DEF NewJob, JobOK, LiveInv, Working, Limited
<1>. QED BY <1>2, <1>3 DEF ToolsInv

-----------------------------------------------------------------------------
(* One step of one call.                                                   *)

\* The new locals of a call that moves, and the place it is in.
Moves(q, j, p) ==
    /\ job' = [job EXCEPT ![q] = j]
    /\ limits' = limits
    /\ pc' = [pc EXCEPT ![q] = p]
    /\ live' = live

LEMMA MovesInv ==
    ASSUME ToolsInv, TypeOK, NEW q \in Query, NEW j, NEW p,
           Moves(q, j, p), j \in Job, JobOK(j, limits[q], p), Working(q)
    PROVE  ToolsInv'
<1>1. LocalsOK'
  BY DEF ToolsInv, LocalsOK, Moves
<1>2. GetMaxRows' = GetMaxRows
  BY DEF Moves, GetMaxRows
<1>3. job'[q] = j /\ pc'[q] = p /\ limits'[q] = limits[q]
  BY DEF ToolsInv, LocalsOK, TypeOK, Moves
<1>4. ASSUME NEW o \in Query PROVE JobOK(job[o], limits[o], pc[o])' /\ LiveInv(o)'
  <2>1. CASE o = q
    BY <1>2, <1>3, <2>1 DEF ToolsInv, LiveInv
  <2>2. CASE o # q
    <3>1. job'[o] = job[o] /\ pc'[o] = pc[o] /\ limits'[o] = limits[o]
      BY <2>2 DEF ToolsInv, LocalsOK, TypeOK, Moves
    <3>. QED BY <1>2, <3>1 DEF ToolsInv, LiveInv, Working
  <2>. QED BY <2>1, <2>2
<1>. QED BY <1>1, <1>4 DEF ToolsInv

LEMMA BecomesInv ==
    ASSUME ToolsInv, TypeOK, NEW q \in Query, NEW j, Working(q),
           Becomes(q, j), UNCHANGED vars, j \in Job, JobOK(j, limits[q], pc[q])
    PROVE  ToolsInv'
<1>1. Moves(q, j, pc[q])
  BY DEF Becomes, Moves, TypeOK, vars, callVars, reloadVars
<1>. QED BY <1>1, MovesInv

LEMMA AskInv ==
    ASSUME ToolsInv, TypeOK, NEW q \in Query, NEW tool \in Tool, Ask(q, tool)
    PROVE  ToolsInv'
<1>1. job[q] \in Job /\ JobOK(job[q], limits[q], pc[q]) /\ GetMaxRows \in Nat
  BY LimitPositive DEF ToolsInv, LocalsOK
<1>2. job' = [job EXCEPT ![q] = [job[q] EXCEPT !.tool = tool]]
  BY DEF Ask
<1>3. [job[q] EXCEPT !.tool = tool] \in Job
  BY <1>1 DEF Job
<1>4. LocalsOK'
  BY <1>1, <1>2, <1>3 DEF Ask, ToolsInv, LocalsOK
<1>5. pc' = pc /\ GetMaxRows' = GetMaxRows
  BY DEF Ask, vars, callVars, reloadVars, GetMaxRows
<1>6. ASSUME NEW o \in Query PROVE JobOK(job[o], limits[o], pc[o])' /\ LiveInv(o)'
  <2>1. CASE o = q
    <3>1. job'[q] = [job[q] EXCEPT !.tool = tool] /\ limits'[q] = {GetMaxRows}
      BY <1>2 DEF Ask, ToolsInv, LocalsOK
    <3>2. JobOK(job[q], limits[q], pc[q])' /\ LiveInv(q)'
      BY <1>1, <1>5, <3>1, ToolsAssumption DEF Ask, Job, JobOK, Limited, Tool, LiveInv
    <3>. QED BY <2>1, <3>2
  <2>2. CASE o # q
    <3>1. job'[o] = job[o] /\ limits'[o] = limits[o]
      BY <1>2, <2>2 DEF Ask, ToolsInv, LocalsOK
    <3>. QED BY <1>5, <3>1 DEF ToolsInv, LiveInv, Working
  <2>. QED BY <2>1, <2>2
<1>. QED BY <1>4, <1>6 DEF ToolsInv

LEMMA ReturnInv ==
    ASSUME ToolsInv, TypeOK, NEW q \in Query, NEW answer \in {"ok", "error"}, Return(q, answer),
           \/ At(q, Tool \ {"query"}, "new") /\ (answer = "error" \/ job[q].tool \notin Limited)
           \/ At(q, {"search_tables"}, "next") /\ (job[q].databases = {} \/ job[q].truncated)
           \/ At(q, Tool \ {"query", "search_tables"}, "rows") /\ answer = "error"
    PROVE  ToolsInv'
<1> DEFINE j == [job[q] EXCEPT !.step = "done", !.answer = answer]
<1>1. job[q] \in Job /\ JobOK(job[q], limits[q], pc[q])
  BY DEF ToolsInv, LocalsOK
<1>2. j \in Job
  BY <1>1 DEF Job
<1>3. Working(q)
  BY <1>1 DEF At, Working, JobOK, Tool
<1>4. JobOK(j, limits[q], pc[q])
  BY <1>1 DEF At, Job, JobOK, Limited, Tool
<1>. QED BY <1>2, <1>3, <1>4, BecomesInv DEF Return

LEMMA OpenTyped ==
    ASSUME NEW j \in Job, NEW max \in Nat, NEW left \in Nat, NEW n \in Nat,
           NEW dbs \in SUBSET Database
    PROVE  [j EXCEPT !.step = "rows", !.max = max, !.databases = dbs, !.left = left,
                     !.missing = @ + n] \in Job
<1>1. j.missing + n \in Nat
  BY DEF Job
<1>. QED BY <1>1 DEF Job

LEMMA OpenInv ==
    ASSUME ToolsInv, TypeOK, NEW q \in Query, NEW max \in Nat, NEW n \in Nat, NEW limit \in Nat,
           Open(q, max, n, limit), job[q].tool \in Tool \ {"search_tables"}, job[q].step = "new",
           job[q].tool = "query" => pc[q] = "rows" /\ max \in limits[q],
           IF job[q].tool = "list_tables" THEN max = MaxTables /\ limit = max + 1 ELSE limit = n
    PROVE  ToolsInv'
<1> DEFINE j == [job[q] EXCEPT !.step = "rows", !.max = max, !.left = AtMost(n, limit),
                               !.missing = @ + n]
<1>1. job[q] \in Job /\ JobOK(job[q], limits[q], pc[q])
  BY DEF ToolsInv, LocalsOK
<1>2. AtMost(n, limit) \in Nat /\ AtMost(n, limit) <= n /\ AtMost(n, n) = n
  BY DEF AtMost
<1>3. j \in Job
  <2>1. j = [job[q] EXCEPT !.step = "rows", !.max = max, !.databases = job[q].databases,
                           !.left = AtMost(n, limit), !.missing = @ + n]
    BY <1>1 DEF Job
  <2>2. job[q].databases \in SUBSET Database
    BY <1>1 DEF Job
  <2> HIDE DEF j
  <2>. QED BY <1>1, <1>2, <2>1, <2>2, OpenTyped, Zenon
<1>4. Working(q)
  BY <1>1 DEF Working, JobOK, Tool
<1>5. JobOK(j, limits[q], pc[q])
  BY <1>1, <1>2, ToolsAssumption DEF Job, JobOK, LeftOK, Limited, Tool
<1>. QED BY <1>3, <1>4, <1>5, BecomesInv DEF Open

LEMMA ExecutePlace ==
    ASSUME TypeOK, NEW q \in Query, Execute(q)
    PROVE  /\ live' = live
           /\ pc' = [pc EXCEPT ![q] = pc'[q]]
           /\ pc[q] \notin {"rows", "done", "panicked"}
           /\ pc[q] = "log" => pc'[q] = "done"
BY DEF Execute, Refuse, Parse, CheckNil, Block, Pass, RewriteSql, RunFails, Exec, RunQuery, Log,
       Goto, LogNext, Fail, TypeOK, reloadVars

LEMMA QueryStepInv ==
    ASSUME ToolsInv, TypeOK, NEW q \in Query, QueryStep(q)
    PROVE  ToolsInv'
<1>1. /\ live' = live /\ pc' = [pc EXCEPT ![q] = pc'[q]]
      /\ pc[q] \notin {"rows", "done", "panicked"} /\ (pc[q] = "log" => pc'[q] = "done")
  BY ExecutePlace DEF QueryStep
<1>2. job' = job /\ limits' = limits /\ GetMaxRows' = GetMaxRows
  BY <1>1 DEF QueryStep, toolVars, GetMaxRows
<1>3. ASSUME NEW o \in Query PROVE JobOK(job[o], limits[o], pc[o])' /\ LiveInv(o)'
  <2>1. CASE o = q
    <3>1. job[q] \in Job /\ JobOK(job[q], limits[q], pc[q]) /\ LiveInv(q)
      BY DEF ToolsInv, LocalsOK
    <3>2. JobOK(job[q], limits[q], pc'[q])
      BY <1>1, <3>1 DEF QueryStep, Job, JobOK
    <3>3. LiveInv(q)'
      BY <1>1, <1>2, <3>1 DEF LiveInv, Working
    <3>. QED BY <1>2, <2>1, <3>2, <3>3
  <2>2. CASE o # q
    <3>1. pc'[o] = pc[o]
      BY <1>1, <2>2 DEF TypeOK
    <3>. QED BY <1>2, <3>1 DEF ToolsInv, LiveInv, Working
  <2>. QED BY <2>1, <2>2
<1>. QED BY <1>2, <1>3 DEF ToolsInv, LocalsOK

-----------------------------------------------------------------------------
(* search_tables.                                                          *)

LEMMA SearchInv ==
    ASSUME ToolsInv, TypeOK, NEW q \in Query,
           \/ SearchTables(q) \/ SearchFull(q)
           \/ \E d \in Database : SkipDatabase(q, d)
           \/ \E d \in Database, n \in Nat : SearchDatabase(q, d, n)
    PROVE  ToolsInv'
<1> DEFINE j == job[q]
<1>1. j \in Job /\ JobOK(j, limits[q], pc[q]) /\ LiveInv(q)
  BY DEF ToolsInv, LocalsOK
<1>2. Working(q)
  BY <1>1 DEF SearchTables, SearchFull, SkipDatabase, SearchDatabase, At, Working, JobOK
<1>3. CASE SearchTables(q)
  <2> DEFINE k == [j EXCEPT !.step = "next", !.max = GetMaxRows, !.databases = Database]
  <2>1. GetMaxRows \in Nat /\ GetMaxRows \in limits[q]
    BY <1>1, <1>2, LimitPositive DEF LiveInv
  <2>2. k \in Job
    BY <1>1, <2>1 DEF Job
  <2>3. JobOK(k, limits[q], pc[q])
    BY <1>1, <1>3, <2>1 DEF SearchTables, At, Job, JobOK, Limited
  <2>. QED BY <1>2, <1>3, <2>2, <2>3, BecomesInv DEF SearchTables
<1>4. CASE SearchFull(q)
  <2> DEFINE k == [j EXCEPT !.truncated = TRUE]
  <2>1. k \in Job
    BY <1>1 DEF Job
  <2>2. JobOK(k, limits[q], pc[q])
    BY <1>1, <1>4 DEF SearchFull, At, Job, JobOK, Limited
  <2>. QED BY <1>2, <1>4, <2>1, <2>2, BecomesInv DEF SearchFull
<1>5. ASSUME NEW d \in Database, SkipDatabase(q, d) PROVE ToolsInv'
  <2> DEFINE k == [j EXCEPT !.databases = @ \ {d}, !.flawed = TRUE]
  <2>1. k \in Job
    BY <1>1 DEF Job
  <2>2. JobOK(k, limits[q], pc[q])
    BY <1>1, <1>5 DEF SkipDatabase, At, Job, JobOK, Limited
  <2>. QED BY <1>2, <1>5, <2>1, <2>2, BecomesInv DEF SkipDatabase
<1>6. ASSUME NEW d \in Database, NEW n \in Nat, SearchDatabase(q, d, n) PROVE ToolsInv'
  <2> DEFINE k == [j EXCEPT !.step = "rows", !.databases = @ \ {d}, !.missing = @ + n,
                            !.left = AtMost(n, j.max - j.count + 1)]
  <2>1. j.max \in Nat /\ j.count \in Nat /\ j.missing \in Nat /\ j.count < j.max
    BY <1>1, <1>6 DEF SearchDatabase, Job
  <2>2. j.max - j.count + 1 \in Nat /\ j.max - j.count + 1 = j.max + 1 - j.count
    BY <2>1
  <2>3. /\ AtMost(n, j.max - j.count + 1) \in Nat
        /\ AtMost(n, j.max - j.count + 1) <= n
    BY <2>2, AtMostFacts
  <2>4. k \in Job
    <3>1. k = [j EXCEPT !.step = "rows", !.max = j.max, !.databases = j.databases \ {d},
                        !.left = AtMost(n, j.max - j.count + 1), !.missing = @ + n]
      BY <1>1 DEF Job
    <3>2. j.databases \ {d} \in SUBSET Database
      BY <1>1 DEF Job
    <3> HIDE DEF k
    <3>. QED BY <1>1, <2>1, <2>3, <3>1, <3>2, OpenTyped, Zenon
  <2>5. /\ k.tool = j.tool /\ k.step = "rows" /\ k.max = j.max /\ k.count = j.count
        /\ k.databases = j.databases \ {d} /\ k.missing = j.missing + n
        /\ k.left = AtMost(n, j.max - j.count + 1)
        /\ k.truncated = j.truncated /\ k.flawed = j.flawed /\ k.answer = j.answer
    BY <1>1 DEF Job
  <2>6. j.tool = "search_tables" /\ j.step = "next" /\ ~j.truncated
    BY <1>6 DEF SearchDatabase, At
  <2>7. ~j.flawed => k.missing = n
    BY <1>1, <2>5, <2>6 DEF JobOK
  <2>8. LeftOK(k) \/ k.flawed
    BY <2>2, <2>5, <2>6, <2>7 DEF LeftOK
  <2>9. JobOK(k, limits[q], pc[q])
    BY <1>1, <2>1, <2>3, <2>5, <2>6, <2>8 DEF JobOK, Limited
  <2>. QED BY <1>2, <1>6, <2>4, <2>9, BecomesInv DEF SearchDatabase
<1>. QED BY <1>3, <1>4, <1>5, <1>6

-----------------------------------------------------------------------------
(* Reading rows.                                                           *)

LEMMA NextRowInv ==
    ASSUME ToolsInv, TypeOK, NEW q \in Query, NextRow(q)
    PROVE  ToolsInv'
<1> DEFINE j == job[q]
           k == [j EXCEPT !.left = @ - 1, !.count = @ + 1, !.missing = @ - 1]
<1>1. j \in Job /\ JobOK(j, limits[q], pc[q])
  BY DEF ToolsInv, LocalsOK
<1>2. j.step = "rows" /\ j.left > 0 /\ (j.tool \in Limited => j.count < j.max) /\ j.tool \in Tool
  BY <1>1 DEF NextRow, At, Enough, Job
<1>3. j.left \in Nat /\ j.count \in Nat /\ j.missing \in Nat /\ j.max \in Nat /\ j.missing >= j.left
  BY <1>1, <1>2 DEF Job, JobOK
<1>4. k \in Job
  <2>1. j.left - 1 \in Nat /\ j.count + 1 \in Nat /\ j.missing - 1 \in Nat
    BY <1>2, <1>3
  <2>. QED BY <1>1, <2>1 DEF Job
<1>5. /\ k.tool = j.tool /\ k.step = "rows" /\ k.max = j.max /\ k.count = j.count + 1
      /\ k.databases = j.databases /\ k.missing = j.missing - 1 /\ k.left = j.left - 1
      /\ k.truncated = j.truncated /\ k.flawed = j.flawed /\ k.answer = j.answer
  BY <1>1, <1>2 DEF Job
<1>6. ~j.flawed => LeftOK(k)
  <2>1. ~j.flawed => LeftOK(j)
    BY <1>1, <1>2 DEF JobOK
  <2>. QED BY <1>2, <1>3, <1>5, <2>1 DEF LeftOK, AtMost, Limited
<1>7. JobOK(k, limits[q], pc[q])
  BY <1>1, <1>2, <1>3, <1>5, <1>6 DEF JobOK
<1>8. Working(q)
  BY <1>1, <1>2 DEF JobOK, Working, Tool
<1>. QED BY <1>4, <1>7, <1>8, BecomesInv DEF NextRow

\* The query tool leaves its result set, for the log or with an error.
LEMMA QueryEnds ==
    ASSUME ToolsInv, TypeOK, NEW q \in Query, NEW j \in Job, NEW p,
           job' = [job EXCEPT ![q] = j], limits' = limits,
           \/ p = "log" /\ Fetch(q)
           \/ p = "done" /\ FetchFails(q),
           job[q].tool = "query", JobOK(j, limits[q], p), job[q].step \in {"new", "rows"}
    PROVE  ToolsInv'
<1>1. Moves(q, j, p)
  BY DEF Fetch, FetchFails, LogNext, Fail, Goto, Moves, reloadVars
<1>2. Working(q)
  BY DEF Fetch, FetchFails, LogNext, Fail, Goto, Working
<1>. QED BY <1>1, <1>2, MovesInv

LEMMA ScanFailsInv ==
    ASSUME ToolsInv, TypeOK, NEW q \in Query, ScanFails(q)
    PROVE  ToolsInv'
<1> DEFINE j == job[q]
<1>1. j \in Job /\ JobOK(j, limits[q], pc[q])
  BY DEF ToolsInv, LocalsOK
<1>2. j.step = "rows" /\ j.left > 0 /\ j.tool \in Tool
  BY DEF ScanFails, At
<1>3. CASE j.tool = "search_tables"
  <2> DEFINE k == [j EXCEPT !.left = @ - 1, !.flawed = TRUE]
  <2>1. k \in Job
    <3>1. j.left - 1 \in Nat
      BY <1>1, <1>2 DEF Job
    <3>. QED BY <1>1, <3>1 DEF Job
  <2>2. JobOK(k, limits[q], pc[q])
    BY <1>1, <1>2, <1>3 DEF Job, JobOK
  <2>3. Working(q)
    BY <1>1, <1>2, <1>3 DEF JobOK, Working
  <2>. QED BY <1>3, <2>1, <2>2, <2>3, BecomesInv DEF ScanFails
<1>4. CASE j.tool = "query"
  <2> DEFINE k == [j EXCEPT !.step = "done"]
  <2>1. k \in Job
    BY <1>1 DEF Job
  <2>2. JobOK(k, limits[q], "done")
    BY <1>1, <1>2, <1>4 DEF Job, JobOK
  <2>. QED BY <1>2, <1>4, <2>1, <2>2, QueryEnds DEF ScanFails, Becomes
<1>5. CASE j.tool \notin {"query", "search_tables"}
  BY <1>2, <1>5, ReturnInv DEF ScanFails, At
<1>. QED BY <1>3, <1>4, <1>5

\* The loop is left with the locals l: those of the call, one of the history
\* or truncation marks set.
LEMMA LeaveInv ==
    ASSUME ToolsInv, TypeOK, NEW q \in Query, NEW l \in Job, Leave(q, l),
           job[q].step = "rows", job[q].tool \in Tool,
           l.tool = job[q].tool, l.step = "rows", l.max = job[q].max, l.count = job[q].count,
           l.databases = job[q].databases, l.missing = job[q].missing, l.answer = job[q].answer,
           \/ (l.truncated <=> l.tool # "query") /\ l.tool \in Limited /\ l.count = l.max
              /\ l.missing > 0
           \/ ~l.truncated /\ (l.flawed \/ l.missing = 0)
    PROVE  ToolsInv'
<1> DEFINE j == job[q]
<1>1. j \in Job /\ JobOK(j, limits[q], pc[q])
  BY DEF ToolsInv, LocalsOK
<1>2. Working(q)
  BY <1>1 DEF JobOK, Working, Tool
<1>3. CASE l.tool = "search_tables"
  <2> DEFINE k == [l EXCEPT !.step = "next", !.left = 0]
  <2>1. k \in Job
    BY DEF Job
  <2>2. JobOK(k, limits[q], pc[q])
    BY <1>1, <1>3 DEF Job, JobOK, Limited
  <2>. QED BY <1>2, <1>3, <2>1, <2>2, BecomesInv DEF Leave
<1>4. CASE l.tool = "query"
  <2> DEFINE k == [l EXCEPT !.step = "done"]
  <2>1. k \in Job
    BY DEF Job
  <2>2. JobOK(k, limits[q], "log")
    BY <1>1, <1>4 DEF Job, JobOK, Limited
  <2>. QED BY <1>4, <2>1, <2>2, QueryEnds DEF Leave, Becomes
<1>5. CASE l.tool \notin {"query", "search_tables"}
  <2> DEFINE k == [l EXCEPT !.step = "done", !.answer = "ok"]
  <2>1. k \in Job
    BY DEF Job
  <2>2. JobOK(k, limits[q], pc[q])
    BY <1>1, <1>5 DEF Job, JobOK, Limited, Tool
  <2>. QED BY <1>2, <1>5, <2>1, <2>2, BecomesInv DEF Leave
<1>. QED BY <1>3, <1>4, <1>5

LEMMA ReadInv ==
    ASSUME ToolsInv, TypeOK, NEW q \in Query, Read(q)
    PROVE  ToolsInv'
<1> DEFINE j == job[q]
<1>1. j \in Job /\ JobOK(j, limits[q], pc[q])
  BY DEF ToolsInv, LocalsOK
<1>2. CASE OneMore(q)
  <2> DEFINE l == [j EXCEPT !.truncated = j.tool # "query"]
  <2>1. j.step = "rows" /\ j.tool \in Tool /\ j.left > 0 /\ Enough(q)
    BY <1>2 DEF OneMore, At
  <2>2. j.tool \in Limited /\ j.count = j.max /\ j.missing > 0
    BY <1>1, <2>1 DEF Enough, Job, JobOK
  <2>3. /\ l \in Job /\ l.tool = j.tool /\ l.step = "rows" /\ l.max = j.max /\ l.count = j.count
        /\ l.databases = j.databases /\ l.missing = j.missing /\ l.answer = j.answer
        /\ (l.truncated <=> j.tool # "query")
    BY <1>1, <2>1 DEF Job
  <2>4. Leave(q, l)
    BY <1>2 DEF OneMore
  <2> HIDE DEF l
  <2>. QED BY <2>1, <2>2, <2>3, <2>4, LeaveInv
<1>3. CASE LastRow(q)
  <2>1. j.step = "rows" /\ j.tool \in Tool /\ j.left = 0
    BY <1>3 DEF LastRow, At
  <2>2. ~j.truncated /\ (j.flawed \/ j.missing = 0)
    BY <1>1, <2>1 DEF Job, JobOK, LeftOK, AtMost, Limited
  <2>. QED BY <1>1, <1>3, <2>1, <2>2, LeaveInv DEF LastRow
<1>4. CASE RowsBreak(q)
  <2> DEFINE l == [j EXCEPT !.flawed = TRUE]
  <2>1. j.step = "rows" /\ j.tool \in Tool
    BY <1>4 DEF RowsBreak, At
  <2>2. /\ l \in Job /\ l.tool = j.tool /\ l.step = "rows" /\ l.max = j.max /\ l.count = j.count
        /\ l.databases = j.databases /\ l.missing = j.missing /\ l.answer = j.answer
        /\ l.flawed /\ ~l.truncated
    BY <1>1, <2>1 DEF Job, JobOK
  <2>3. Leave(q, l)
    BY <1>4 DEF RowsBreak
  <2> HIDE DEF l
  <2>. QED BY <2>1, <2>2, <2>3, LeaveInv
<1>. QED BY <1>2, <1>3, <1>4, NextRowInv, ScanFailsInv DEF Read

LEMMA ColumnsFailInv ==
    ASSUME ToolsInv, TypeOK, NEW q \in Query, ColumnsFail(q)
    PROVE  ToolsInv'
<1> DEFINE j == [job[q] EXCEPT !.step = "done"]
<1>1. job[q] \in Job /\ JobOK(job[q], limits[q], pc[q])
  BY DEF ToolsInv, LocalsOK
<1>2. j \in Job
  BY <1>1 DEF Job
<1>3. JobOK(j, limits[q], "done")
  BY <1>1 DEF ColumnsFail, At, Job, JobOK
<1>. QED BY <1>2, <1>3, QueryEnds DEF ColumnsFail, At, Becomes

-----------------------------------------------------------------------------
(* All steps.                                                              *)

LEMMA ToolStepInv ==
    ASSUME ToolsInv, TypeOK, NEW q \in Query, ToolStep(q)
    PROVE  ToolsInv'
<1>1. ASSUME NEW tool \in Tool, Ask(q, tool) PROVE ToolsInv'
  BY <1>1, AskInv
<1>2. CASE Fails(q) \/ RefusePattern(q)
  BY <1>2, ReturnInv DEF Fails, RefusePattern, At, Tool
<1>3. CASE ListDatabases(q) \/ ShowCreateTable(q)
  BY <1>3, ReturnInv DEF ListDatabases, ShowCreateTable, At, Tool, Limited
<1>4. CASE SearchEnds(q)
  BY <1>4, ReturnInv DEF SearchEnds
<1>5. CASE ExplainNil(q)
  <2> DEFINE j == [job[q] EXCEPT !.step = "panicked"]
  <2>1. job[q] \in Job /\ JobOK(job[q], limits[q], pc[q])
    BY DEF ToolsInv, LocalsOK
  <2>2. j \in Job
    BY <2>1 DEF Job
  <2>3. JobOK(j, limits[q], pc[q]) /\ Working(q)
    BY <1>5, <2>1 DEF ExplainNil, At, Job, JobOK, Working, Limited
  <2>. QED BY <1>5, <2>2, <2>3, BecomesInv DEF ExplainNil
<1>6. ASSUME NEW n \in Nat, ListTables(q, n) PROVE ToolsInv'
  BY <1>6, OpenInv, ToolsAssumption DEF ListTables, At, Tool
<1>7. ASSUME NEW n \in Nat, DescribeTable(q, n) \/ \E s \in Statements : Explain(q, s, n)
      PROVE  ToolsInv'
  <2>1. Open(q, 0, n, n) /\ job[q].tool \in {"describe_table", "explain"} /\ job[q].step = "new"
    BY <1>7 DEF DescribeTable, Explain, At
  <2>. QED BY <2>1, OpenInv DEF Tool
<1>8. ASSUME NEW n \in Nat, QueryRows(q, n) PROVE ToolsInv'
  <2>1. job[q].tool = "query" /\ job[q].step = "new" /\ pc[q] = "rows"
    BY <1>8 DEF QueryRows, At
  <2>2. GetMaxRows \in limits[q] /\ GetMaxRows \in Nat
    BY <2>1, LimitPositive DEF ToolsInv, LiveInv, Working
  <2>. QED BY <1>8, <2>1, <2>2, OpenInv DEF QueryRows, Tool
<1>9. ASSUME NEW d \in Database, NEW n \in Nat, SearchDatabase(q, d, n) PROVE ToolsInv'
  BY <1>9, SearchInv
<1>10. CASE SearchTables(q) \/ SearchFull(q) \/ \E d \in Database : SkipDatabase(q, d)
  BY <1>10, SearchInv
<1>11. CASE QueryStep(q)
  BY <1>11, QueryStepInv
<1>12. CASE ColumnsFail(q)
  BY <1>12, ColumnsFailInv
<1>13. CASE Read(q)
  BY <1>13, ReadInv
<1>14. 0 .. MaxAnswer \subseteq Nat
  BY ToolsAssumption
<1>. QED BY <1>1, <1>2, <1>3, <1>4, <1>5, <1>6, <1>7, <1>8, <1>9, <1>10, <1>11, <1>12, <1>13, <1>14
            DEF ToolStep

LEMMA UpdateLiveInv ==
    ASSUME ToolsInv, TypeOK, TypeOK', NEW u \in Reloader, NEW new \in AnyRules, UpdateLive(u, new)
    PROVE  ToolsInv'
<1>1. job' = job /\ pc' = pc
  BY DEF UpdateLive, UpdateConfig, callVars
<1>2. GetMaxRows' \in Nat
  <2>1. live' \in AnyRules
    BY DEF TypeOK
  <2>. QED BY <2>1, RulesAssumption, ToolsAssumption DEF GetMaxRows, AnyRules, SecurityRules
<1>3. \A q \in Query :
         limits'[q] = IF Working(q) THEN limits[q] \cup {GetMaxRows'} ELSE limits[q]
  BY DEF UpdateLive
<1>4. LocalsOK'
  BY <1>1, <1>2 DEF UpdateLive, ToolsInv, LocalsOK
<1>5. ASSUME NEW q \in Query PROVE JobOK(job[q], limits[q], pc[q])' /\ LiveInv(q)'
  <2>1. JobOK(job[q], limits[q], pc[q]) /\ limits[q] \subseteq limits'[q]
    BY <1>3 DEF ToolsInv
  <2>2. JobOK(job[q], limits'[q], pc[q])
    BY <2>1 DEF JobOK
  <2>3. LiveInv(q)'
    BY <1>1, <1>3 DEF LiveInv, Working
  <2>. QED BY <1>1, <2>2, <2>3
<1>. QED BY <1>4, <1>5 DEF ToolsInv

LEMMA ToolsNextInv == ToolsInv /\ TypeOK /\ TypeOK' /\ [ToolsNext]_allVars => ToolsInv'
<1>. SUFFICES ASSUME ToolsInv, TypeOK, TypeOK', [ToolsNext]_allVars PROVE ToolsInv'
  OBVIOUS
<1>1. ASSUME NEW q \in Query, ToolStep(q) PROVE ToolsInv'
  BY <1>1, ToolStepInv
<1>2. ASSUME NEW u \in Reloader, NEW new \in AnyRules, UpdateLive(u, new) PROVE ToolsInv'
  BY <1>2, UpdateLiveInv
<1>3. ASSUME UNCHANGED <<toolVars, pc, live>> PROVE ToolsInv'
  BY <1>3 DEF ToolsInv, LocalsOK, toolVars, LiveInv, Working, GetMaxRows
<1>4. \A u \in Reloader : Update(u) => UNCHANGED <<pc, live>>
  BY DEF Update, UpdateChecker, UpdateRewriter, UpdateAudit, callVars
<1>5. UNCHANGED allVars => UNCHANGED <<toolVars, pc, live>>
  BY DEF allVars, toolVars, vars, callVars, reloadVars
<1>. QED BY <1>1, <1>2, <1>3, <1>4, <1>5 DEF ToolsNext

LEMMA ToolsInductive == ToolsSpec => []ToolsInv
<1>1. ToolsSpec => []TypeOK
  BY ToolsImplementQuery, QueryTyped, PTL
<1>. QED BY <1>1, ToolsInitInv, ToolsNextInv, PTL DEF ToolsSpec

-----------------------------------------------------------------------------
(* The theorems.                                                           *)

\* The locals of every call stay within their type: what is left of a result
\* and what is missing from the answer are never negative (ToolsTypeOK).
THEOREM ToolsTyped == ToolsSpec => []ToolsTypeOK
<1>1. ToolsInv /\ TypeOK => ToolsTypeOK
  BY DEF ToolsInv, ToolsTypeOK
<1>. QED BY <1>1, ToolsInductive, ToolsImplementQuery, QueryTyped, PTL

\* What is proved of the query tool holds beside the other tools and under
\* reloads that overlap: writes are bounded, verdicts follow rules in force
\* during the call, the log agrees with the replies.
THEOREM QuerySafeAmongTools ==
    ToolsSpec => [](BoundedWrites /\ VerdictMatchesRules /\ AuditMatches)
BY ToolsImplementQuery, WritesBounded, VerdictsMatch, AuditAgrees, PTL

\* No result is longer than a max_rows that was live during the call
\* (WithinLimit).
THEOREM ResultsWithinLimit == ToolsSpec => []WithinLimit
<1>1. ToolsInv => WithinLimit
  <2>. SUFFICES ASSUME ToolsInv, NEW q \in Query
       PROVE  /\ job[q].tool \in {"query", "search_tables"} /\ job[q].count > 0
                    => \E n \in limits[q] : job[q].count <= n
              /\ job[q].tool = "list_tables" => job[q].count <= MaxTables
    BY DEF WithinLimit
  <2>1. job[q] \in Job /\ JobOK(job[q], limits[q], pc[q])
    BY DEF ToolsInv, LocalsOK
  <2>. QED BY <2>1, ToolsAssumption DEF Job, JobOK, Limited
<1>. QED BY <1>1, ToolsInductive, PTL

\* Nothing is left out of a result that is not marked as truncated and met no
\* error, except by the query tool at its limit (CompleteUnlessTruncated).
THEOREM ResultsComplete == ToolsSpec => []CompleteUnlessTruncated
<1>1. ToolsInv => CompleteUnlessTruncated
  BY DEF ToolsInv, JobOK, CompleteUnlessTruncated, At
<1>. QED BY <1>1, ToolsInductive, PTL

\* A result is marked as truncated only when it is full and there is more to
\* be had, or to be searched (TruncatedMeansMore).
THEOREM TruncationIsTrue == ToolsSpec => []TruncatedMeansMore
<1>1. ToolsInv => TruncatedMeansMore
  BY DEF ToolsInv, JobOK, TruncatedMeansMore
<1>. QED BY <1>1, ToolsInductive, PTL
=============================================================================
