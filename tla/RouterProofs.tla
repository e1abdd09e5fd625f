---------------------------- MODULE RouterProofs ----------------------------
(***************************************************************************)
(* The safety of the router over the pool, for any number of clusters,     *)
(* databases, calls, updaters and connections.  CallOK says what a call    *)
(* can rely on at each of its steps, OwnOK which connections it may have   *)
(* taken; the pool's own invariant holds in the composition, and so does   *)
(* its promise to its callers.                                             *)
(***************************************************************************)
EXTENDS Router, PoolRefinement

HasConn(r) == step[r] \in {"use", "run", "rows"}

CallOK(r) ==
    /\ step[r] = "start" => rpc[r] = "new"
    /\ step[r] = "get" =>
          /\ target[r] \in Cluster
          /\ rpc[r] \in {"found", "checked"} => held[r] \in Handle /\ held[r][1] = target[r]
    /\ step[r] = "conn" => held[r] \in Handle /\ held[r][1] = target[r]
    /\ HasConn(r) => conn[r] \in Conn /\ conn[r][1][1] = target[r] /\ owner[conn[r]] = r
    /\ step[r] = "rows" => kind[r] # "exec"
    /\ step[r] \in {"run", "rows"} /\ WithUse(r) => schema[conn[r]] = database[r]

OwnOK(r) ==
    \A c \in Conn : owner[c] = r => \/ HasConn(r) /\ c = conn[r]
                                    \/ step[r] = "done" /\ kind[r] = "query"

RInv == RouterTypeOK /\ IInv /\ \A r \in Request : CallOK(r) /\ OwnOK(r)

-----------------------------------------------------------------------------
(* The pool.                                                               *)

LEMMA PoolKeeps == IInv /\ [Next]_vars => IInv'
  BY TypeStep, LocalStep, LiveStep, OwnedStep, RefsStep DEF IInv

\* A search that calls Get again disturbs nothing: it only stops being a user.
LEMMA AgainKeeps ==
    ASSUME IInv, NEW r \in Request, NEW b \in Database, SearchNext(r, b)
    PROVE  IInv'
  <1> USE DEF IInv
  <1>1. /\ UNCHANGED <<clusters, configs, made, dialled, shut, refCount, closing, closed, held>>
        /\ UNCHANGED <<upc, toClose, current>>
        /\ rpc' = [rpc EXCEPT ![r] = "new"]
    BY DEF SearchNext, mapVars, updVars
  <1>2. TypeOK'
    BY <1>1 DEF TypeOK
  <1>3. HeldOK' /\ UpdaterOK'
    BY <1>1 DEF HeldOK, UpdaterOK, TypeOK
  <1>4. LiveMatchesConfig' /\ MarkedIsOwned'
    BY <1>1 DEF LiveMatchesConfig, MarkedIsOwned, Mapped
  <1>5. ASSUME NEW d \in Handle PROVE refCount'[d] >= Cardinality(Users(d)')
    <2>1. Users(d)' \subseteq Users(d)
      BY <1>1 DEF Users, TypeOK
    <2>2. Cardinality(Users(d)') <= Cardinality(Users(d)) /\ Cardinality(Users(d)') \in Nat
      BY <2>1, UsersFinite, FS_Subset, FS_CardinalityType
    <2>3. refCount[d] >= Cardinality(Users(d)) /\ refCount[d] \in Nat
      BY DEF RefsCoverUsers, TypeOK
    <2> QED
      BY <1>1, <2>2, <2>3, UsersFinite
  <1> QED
    BY <1>2, <1>3, <1>4, <1>5 DEF RefsCoverUsers

Again == \E r \in Request, b \in Database : SearchNext(r, b)

\* Every other step of the composition is a step of the pool or leaves it alone.
LEMMA PoolStep ==
    ASSUME RInv, [RouterNext]_allVars
    PROVE  [Next]_vars \/ Again
  <1> USE DEF RInv
  <1>1. ASSUME NEW r \in Request, Call(r) PROVE [Next]_vars \/ Again
    <2>1. ASSUME NEW b \in Database, SearchNext(r, b) PROVE Again
      BY <2>1 DEF Again
    <2>2. ASSUME NEW b \in Database, Route(r, b) PROVE [Next]_vars
      BY <2>2 DEF Route
    <2>3. CASE Search(r) \/ SearchEnds(r) \/ TakeConn(r) \/ Use(r) \/ Query(r)
      BY <2>3 DEF Search, SearchEnds, TakeConn, Use, Query
    <2>4. ASSUME GetDB(r) PROVE [Next]_vars
      <3>1. PICK n : n = target[r] /\ (Lookup(r, n) \/ CheckClosing(r) \/ AddRef(r))
        BY <2>4 DEF GetDB
      <3>2. CASE Lookup(r, n)
        <4>1. n \in Cluster
          BY <2>4, <3>1 DEF GetDB, CallOK
        <4> QED
          BY <3>2, <4>1 DEF Next, Get
      <3> QED
        BY <3>1, <3>2 DEF Next, Get
    <2>5. CASE NoConnLeft(r) \/ Fail(r) \/ Exec(r) \/ CloseRows(r)
      <3>1. Finish(r)
        BY <2>5 DEF NoConnLeft, Fail, Exec, CloseRows, End
      <3> QED
        BY <3>1 DEF Next
    <2> QED
      BY <1>1, <2>1, <2>2, <2>3, <2>4, <2>5 DEF Call
  <1>2. ASSUME PoolSteps PROVE [Next]_vars
    BY <1>2 DEF PoolSteps, Next
  <1>3. ASSUME NEW new \in Routes, UpdateRoutes(new) PROVE UNCHANGED vars
    BY <1>3 DEF UpdateRoutes
  <1>4. ASSUME UNCHANGED allVars PROVE UNCHANGED vars
    BY <1>4 DEF allVars
  <1> QED
    BY <1>1, <1>2, <1>3, <1>4 DEF RouterNext

LEMMA PoolInvStep == RInv /\ [RouterNext]_allVars => IInv'
  BY PoolStep, PoolKeeps, AgainKeeps DEF Again, RInv

-----------------------------------------------------------------------------
(* The calls.                                                              *)

LEMMA InitRInv == RouterInit => RInv
  <1> SUFFICES ASSUME RouterInit PROVE RInv
    OBVIOUS
  <1>1. RouterTypeOK
    BY RouterAssumption DEF RouterInit, RouterTypeOK
  <1>2. IInv
    BY InitIInv DEF RouterInit
  <1>3. ASSUME NEW r \in Request PROVE CallOK(r) /\ OwnOK(r)
    BY RouterAssumption DEF RouterInit, Init, CallOK, OwnOK, HasConn
  <1> QED
    BY <1>1, <1>2, <1>3 DEF RInv

\* A connection a call runs on is its own, so GiveBack and Use touch no other's.
LEMMA CallTouchesOwn ==
    ASSUME RInv, NEW r \in Request, Call(r)
    PROVE  /\ kind' = kind
           /\ \A q \in Request \ {r} :
                 /\ step'[q] = step[q] /\ database'[q] = database[q] /\ target'[q] = target[q]
                 /\ conn'[q] = conn[q] /\ rpc'[q] = rpc[q] /\ held'[q] = held[q]
           /\ \A c \in Conn, q \in Request \ {r} :
                 /\ owner'[c] = q <=> owner[c] = q
                 /\ owner[c] = q => schema'[c] = schema[c]
  <1> DEFINE Frame ==
         /\ kind' = kind
         /\ \A q \in Request \ {r} :
               /\ step'[q] = step[q] /\ database'[q] = database[q] /\ target'[q] = target[q]
               /\ conn'[q] = conn[q] /\ rpc'[q] = rpc[q] /\ held'[q] = held[q]
         /\ \A c \in Conn, q \in Request \ {r} :
               /\ owner'[c] = q <=> owner[c] = q
               /\ owner[c] = q => schema'[c] = schema[c]
  <1> USE DEF RInv, RouterTypeOK
  <1>0. rpc \in [Request -> {"new", "found", "checked", "using", "done", "failed"}]
        /\ held \in [Request -> Handle \cup {NoHandle}]
    BY DEF IInv, TypeOK
  <1>1. ASSUME NEW b \in Database, Route(r, b) \/ SearchNext(r, b) PROVE Frame
    BY <1>0, <1>1 DEF Route, SearchNext, vars, reqVars, sqlVars
  <1>2. CASE Search(r) \/ SearchEnds(r) \/ Query(r)
    BY <1>0, <1>2 DEF Search, SearchEnds, Query, vars, reqVars, sqlVars
  <1>3. CASE GetDB(r)
    <2>1. PICK n : Lookup(r, n) \/ CheckClosing(r) \/ AddRef(r)
      BY <1>3 DEF GetDB
    <2>2. \A q \in Request \ {r} : rpc'[q] = rpc[q] /\ held'[q] = held[q]
      BY <1>0, <2>1 DEF Lookup, CheckClosing, AddRef
    <2> QED
      BY <1>3, <2>2 DEF GetDB, sqlVars
  <1>4. CASE TakeConn(r)
    <2>1. PICK k \in 1..MaxOpen : /\ owner[<<held[r], k>>] = NoOwner
                                 /\ owner' = [owner EXCEPT ![<<held[r], k>>] = r]
                                 /\ conn' = [conn EXCEPT ![r] = <<held[r], k>>]
      BY <1>4 DEF TakeConn
    <2> QED
      BY <1>4, <2>1, RouterAssumption DEF TakeConn, vars, reqVars
  <1>5. CASE NoConnLeft(r)
    BY <1>0, <1>5 DEF NoConnLeft, End, Finish, sqlVars
  <1>6. ASSUME step[r] \in {"use", "run", "rows"}
        PROVE  conn[r] \in Conn /\ owner[conn[r]] = r
    BY <1>6 DEF CallOK, HasConn
  <1>7. CASE Use(r)
    BY <1>7, <1>6 DEF Use, vars, reqVars
  <1>8. CASE Fail(r) \/ Exec(r) \/ CloseRows(r)
    <2>1. step[r] \in {"use", "run", "rows"} /\ End(r, IF Fail(r) THEN "failed" ELSE "done")
      BY <1>8 DEF Fail, Exec, CloseRows
    <2>2. GiveBack(r) \/ UNCHANGED sqlVars
      BY <1>8 DEF Fail, Exec, CloseRows
    <2>3. UNCHANGED <<kind, database, target, conn>>
      BY <1>8 DEF Fail, Exec, CloseRows
    <2>4. \A q \in Request \ {r} : step'[q] = step[q] /\ rpc'[q] = rpc[q] /\ held'[q] = held[q]
      BY <1>0, <2>1 DEF End, Finish
    <2>5. \A c \in Conn, q \in Request \ {r} :
             (owner'[c] = q <=> owner[c] = q) /\ (owner[c] = q => schema'[c] = schema[c])
      BY <1>6, <2>1, <2>2, RouterAssumption DEF GiveBack, sqlVars
    <2> QED
      BY <2>3, <2>4, <2>5
  <1> QED
    BY <1>1, <1>2, <1>3, <1>4, <1>5, <1>7, <1>8 DEF Call

LEMMA RouterTypeStep == RInv /\ [RouterNext]_allVars => RouterTypeOK'
  <1> SUFFICES ASSUME RInv, [RouterNext]_allVars PROVE RouterTypeOK'
    OBVIOUS
  <1> USE DEF RInv, RouterTypeOK
  <1>0. held \in [Request -> Handle \cup {NoHandle}]
    BY DEF IInv, TypeOK
  <1>1. ASSUME NEW r \in Request, Call(r) PROVE RouterTypeOK'
    <2>1. ASSUME NEW b \in Database, Route(r, b) \/ SearchNext(r, b) PROVE RouterTypeOK'
      BY <2>1 DEF Route, SearchNext, sqlVars
    <2>2. CASE Search(r) \/ SearchEnds(r) \/ Query(r)
      BY <2>2 DEF Search, SearchEnds, Query, ListDatabases, sqlVars
    <2>3. CASE GetDB(r)
      BY <2>3 DEF GetDB, Over, sqlVars
    <2>4. CASE TakeConn(r)
      <3>1. PICK k \in 1..MaxOpen : /\ owner' = [owner EXCEPT ![<<held[r], k>>] = r]
                                   /\ conn' = [conn EXCEPT ![r] = <<held[r], k>>]
        BY <2>4 DEF TakeConn
      <3>2. <<held[r], k>> \in Conn
        BY <2>4 DEF TakeConn, CallOK, Conn
      <3>3. UNCHANGED <<databases, kind, todo, database, target, schema>>
        BY <2>4 DEF TakeConn
      <3>4. step' \in [Request -> {"start", "get", "conn", "use", "run", "rows", "next", "done", "failed"}]
        BY <2>4 DEF TakeConn
      <3> QED
        BY <3>1, <3>2, <3>3, <3>4
    <2>5. CASE NoConnLeft(r)
      BY <2>5 DEF NoConnLeft, End, Over, sqlVars
    <2>6. CASE Use(r)
      BY <2>6 DEF Use
    <2>7. CASE Fail(r) \/ Exec(r) \/ CloseRows(r)
      <3>1. End(r, "failed") \/ End(r, "done")
        BY <2>7 DEF Fail, Exec, CloseRows
      <3>2. GiveBack(r) \/ UNCHANGED sqlVars
        BY <2>7 DEF Fail, Exec, CloseRows
      <3>3. UNCHANGED <<databases, kind, todo, database, target, conn>>
        BY <2>7 DEF Fail, Exec, CloseRows
      <3>4. step' \in [Request -> {"start", "get", "conn", "use", "run", "rows", "next", "done", "failed"}]
        BY <3>1 DEF End, Over
      <3>5. owner' \in [Conn -> Request \cup {NoOwner}] /\ schema' \in [Conn -> Database \cup {NoSchema}]
        BY <3>2 DEF GiveBack, sqlVars
      <3> QED
        BY <3>3, <3>4, <3>5
    <2> QED
      BY <1>1, <2>1, <2>2, <2>3, <2>4, <2>5, <2>6, <2>7 DEF Call
  <1>2. ASSUME NEW new \in Routes, UpdateRoutes(new) PROVE RouterTypeOK'
    BY <1>2, RouterAssumption DEF UpdateRoutes, callVars, sqlVars
  <1>3. CASE PoolSteps \/ UNCHANGED allVars
    BY <1>3 DEF PoolSteps, allVars, routerVars, callVars, sqlVars
  <1> QED
    BY <1>1, <1>2, <1>3 DEF RouterNext

\* What a step does to the call that takes it.
LEMMA OwnStep ==
    ASSUME RInv, NEW r \in Request, Call(r)
    PROVE  CallOK(r)' /\ OwnOK(r)'
  <1> USE DEF RInv, RouterTypeOK, CallOK, OwnOK, HasConn
  <1>0. rpc \in [Request -> {"new", "found", "checked", "using", "done", "failed"}]
        /\ held \in [Request -> Handle \cup {NoHandle}]
    BY DEF IInv, TypeOK
  <1>1. ASSUME NEW b \in Database, Route(r, b) PROVE CallOK(r)' /\ OwnOK(r)'
    BY <1>0, <1>1 DEF Route, vars, reqVars, sqlVars
  <1>2. ASSUME NEW b \in Database, SearchNext(r, b) PROVE CallOK(r)' /\ OwnOK(r)'
    BY <1>0, <1>2 DEF SearchNext, sqlVars
  <1>3. CASE Search(r) \/ SearchEnds(r)
    BY <1>3 DEF Search, SearchEnds, sqlVars
  <1>4. CASE GetDB(r)
    <2>1. PICK n : n = target[r] /\ (Lookup(r, n) \/ CheckClosing(r) \/ AddRef(r))
      BY <1>4 DEF GetDB
    <2>2. n \in Cluster /\ step[r] = "get"
      BY <1>4, <2>1 DEF GetDB
    <2>3. rpc'[r] \in {"found", "checked", "using"} => held'[r] \in Handle /\ held'[r][1] = n
      <3>1. CASE Lookup(r, n)
        BY <1>0, <2>2, <3>1, MappedIsHandle DEF Lookup, IInv, Mapped
      <3>2. CASE CheckClosing(r) \/ AddRef(r)
        BY <1>0, <2>1, <2>2, <3>2 DEF CheckClosing, AddRef
      <3> QED
        BY <2>1, <3>1, <3>2
    <2>4. step'[r] \in {"get", "conn", "next", "failed"} /\ (step'[r] = "conn" => rpc'[r] = "using")
      BY <1>4 DEF GetDB, Over
    <2>5. UNCHANGED <<target, conn, kind, database, owner, schema>>
      BY <1>4 DEF GetDB, sqlVars
    <2> QED
      BY <2>1, <2>2, <2>3, <2>4, <2>5
  <1>5. CASE TakeConn(r)
    <2>1. PICK k \in 1..MaxOpen : /\ owner[<<held[r], k>>] = NoOwner
                                 /\ owner' = [owner EXCEPT ![<<held[r], k>>] = r]
                                 /\ conn' = [conn EXCEPT ![r] = <<held[r], k>>]
      BY <1>5 DEF TakeConn
    <2>2. step[r] = "conn" /\ held[r] \in Handle /\ held[r][1] = target[r]
      BY <1>5 DEF TakeConn
    <2>3. <<held[r], k>> \in Conn
      BY <2>2 DEF Conn
    <2>4. conn'[r] = <<held[r], k>> /\ owner'[conn'[r]] = r
      BY <2>1, <2>3
    <2>5. UNCHANGED <<target, kind, database, schema>> /\ step'[r] \in {"use", "run"}
          /\ (step'[r] = "run" => ~WithUse(r))
      BY <1>5 DEF TakeConn
    <2>6. \A c \in Conn : owner[c] # r
      BY <2>2
    <2>7. CallOK(r)'
      BY <2>2, <2>3, <2>4, <2>5 DEF WithUse
    <2>8. OwnOK(r)'
      BY <2>1, <2>4, <2>5, <2>6
    <2> QED
      BY <2>7, <2>8
  <1>6. CASE NoConnLeft(r)
    BY <1>6 DEF NoConnLeft, End, Over, sqlVars
  <1>7. CASE Use(r)
    BY <1>7 DEF Use, WithUse
  <1>8. CASE Query(r)
    BY <1>8 DEF Query, sqlVars, WithUse
  <1>9. CASE Fail(r) \/ Exec(r)
    <2>1. GiveBack(r) /\ step[r] \in {"use", "run"} /\ step'[r] \in {"failed", "done", "next"}
      BY <1>9 DEF Fail, Exec, End, Over
    <2>2. \A c \in Conn : owner'[c] # r
      BY <2>1, RouterAssumption DEF GiveBack
    <2> QED
      BY <2>1, <2>2
  <1>10. CASE CloseRows(r)
    <2>1. step[r] = "rows" /\ step'[r] = Over(r, "done") /\ UNCHANGED <<kind, conn>>
      BY <1>10 DEF CloseRows, End
    <2>2. CASE ~WithUse(r)
      <3>1. \A c \in Conn : owner'[c] # r
        BY <1>10, <2>2, RouterAssumption DEF CloseRows, GiveBack
      <3> QED
        BY <2>1, <3>1 DEF Over
    <2>3. CASE WithUse(r)
      <3>1. PICK x : x = kind[r] /\ x \in {"query", "exec"}
        BY <2>3 DEF WithUse
      <3> QED
        BY <2>1, <2>3, <3>1 DEF Over
    <2> QED
      BY <2>2, <2>3
  <1> QED
    BY <1>1, <1>2, <1>3, <1>4, <1>5, <1>6, <1>7, <1>8, <1>9, <1>10 DEF Call

\* The steps of no call.
LEMMA PoolLeavesCalls ==
    ASSUME PoolSteps \/ (\E new \in Routes : UpdateRoutes(new)) \/ UNCHANGED allVars
    PROVE  UNCHANGED <<rpc, held, callVars, sqlVars>>
  <1>1. ASSUME PoolSteps PROVE UNCHANGED <<rpc, held, callVars, sqlVars>>
    <2>1. UNCHANGED reqVars
      BY <1>1 DEF PoolSteps, MarkAndAdd, Wait, Released, TimedOut, CloseHandle, DeleteEntry, Close
    <2> QED
      BY <1>1, <2>1 DEF PoolSteps, reqVars, routerVars
  <1>2. ASSUME NEW new \in Routes, UpdateRoutes(new)
        PROVE  UNCHANGED <<rpc, held, callVars, sqlVars>>
    BY <1>2 DEF UpdateRoutes, vars, reqVars
  <1>3. ASSUME UNCHANGED allVars PROVE UNCHANGED <<rpc, held, callVars, sqlVars>>
    BY <1>3 DEF allVars, vars, reqVars, routerVars
  <1> QED
    BY <1>1, <1>2, <1>3

LEMMA RStep == RInv /\ [RouterNext]_allVars => RInv'
  <1> SUFFICES ASSUME RInv, [RouterNext]_allVars PROVE RInv'
    OBVIOUS
  <1>1. RouterTypeOK' /\ IInv'
    BY RouterTypeStep, PoolInvStep
  <1>2. ASSUME NEW q \in Request PROVE CallOK(q)' /\ OwnOK(q)'
    <2>1. CallOK(q) /\ OwnOK(q)
      BY DEF RInv
    <2>2. ASSUME NEW r \in Request, Call(r) PROVE CallOK(q)' /\ OwnOK(q)'
      <3>1. CASE r = q
        BY <2>2, <3>1, OwnStep
      <3>2. CASE r # q
        <4>1. /\ kind' = kind /\ step'[q] = step[q] /\ database'[q] = database[q]
              /\ target'[q] = target[q] /\ conn'[q] = conn[q]
              /\ rpc'[q] = rpc[q] /\ held'[q] = held[q]
          BY <2>2, <3>2, CallTouchesOwn
        <4>2. \A c \in Conn : /\ owner'[c] = q <=> owner[c] = q
                              /\ owner[c] = q => schema'[c] = schema[c]
          BY <2>2, <3>2, CallTouchesOwn
        <4>3. OwnOK(q)'
          BY <2>1, <4>1, <4>2 DEF OwnOK, HasConn
        <4>4. CallOK(q)'
          BY <2>1, <4>1, <4>2 DEF CallOK, HasConn, WithUse
        <4> QED
          BY <4>3, <4>4
      <3> QED
        BY <3>1, <3>2
    <2>3. CASE UNCHANGED <<rpc, held, callVars, sqlVars>>
      BY <2>1, <2>3 DEF CallOK, OwnOK, HasConn, WithUse, callVars, sqlVars
    <2> QED
      BY <2>2, <2>3, PoolLeavesCalls DEF RouterNext
  <1> QED
    BY <1>1, <1>2 DEF RInv

LEMMA RouterInvariance == RouterSpec => []RInv
  BY InitRInv, RStep, PTL DEF RouterSpec

-----------------------------------------------------------------------------
\* Every variable of the composition keeps its type.
THEOREM RouterTyped == RouterSpec => []RouterTypeOK
  BY RouterInvariance, PTL DEF RInv

\* Every statement runs on its own connection, on the cluster its database was
\* routed to and, after a USE, in that database.
THEOREM StatementsRunWhereRouted == RouterSpec => []RunsInItsDatabase
  <1>1. RInv => RunsInItsDatabase
    BY DEF RInv, CallOK, HasConn, RunsInItsDatabase
  <1> QED
    BY <1>1, RouterInvariance, PTL

\* No path but a successful Router.Query leaves a connection taken.
THEOREM OthersGiveBack == RouterSpec => []OnlyQueryKeepsConn
  <1>1. RInv => OnlyQueryKeepsConn
    BY DEF RInv, OwnOK, HasConn, OnlyQueryKeepsConn
  <1> QED
    BY <1>1, RouterInvariance, PTL

\* A call waits for a connection only while it has none.
THEOREM WaitersHoldNothing == RouterSpec => []NoHoldAndWait
  <1>1. RInv => NoHoldAndWait
    BY DEF RInv, OwnOK, HasConn, NoHoldAndWait
  <1> QED
    BY <1>1, RouterInvariance, PTL

\* The pool's promises hold under its real callers, searches that call Get
\* again included, which Pool's own specification does not have.
THEOREM PoolSafeInUse ==
    RouterSpec => [](TypeOK /\ LiveMatchesConfig /\ MarkedIsOwned /\ RefsCoverUsers)
  BY RouterInvariance, PTL DEF RInv, IInv

-----------------------------------------------------------------------------
(* What holds of the pool alone and needs more than IInv, under the router. *)

\* To the service, a search that calls Get again has only left its handle.
LEMMA AgainMaps ==
    ASSUME RInv, MadeOK, NEW r \in Request, NEW b \in Database, SearchNext(r, b)
    PROVE  MadeOK' /\ Service!Next
  <1>1. /\ UNCHANGED <<clusters, made, shut, closing, closed, held>>
        /\ rpc' = [rpc EXCEPT ![r] = "new"]
    BY DEF SearchNext, mapVars
  <1>2. rpc \in [Request -> {"new", "found", "checked", "using", "done", "failed"}]
    BY DEF RInv, IInv, TypeOK
  <1>3. MadeOK'
    BY <1>1, <1>2 DEF MadeOK
  <1>4. (\A d \in Handle : Phase(d)' = Phase(d)) /\ shut' = shut
    BY <1>1 DEF Phase
  <1>5. \A q \in Request : Admitted(q)' = IF q = r THEN NoHandle ELSE Admitted(q)
    BY <1>1, <1>2 DEF Admitted
  <1>6. admittedBar' = [admittedBar EXCEPT ![r] = NoHandle]
    BY <1>5 DEF admittedBar
  <1>7. Service!Leave(r)
    BY <1>4, <1>6 DEF Service!Leave, admittedBar
  <1> QED
    BY <1>3, <1>7 DEF Service!Next

\* The pool keeps the promises of HandleService to the calls of the router,
\* which may call Get any number of times each.
THEOREM ServiceInUse == RouterSpec => ImplementsService
  <1>1. RInv /\ MadeOK /\ [RouterNext]_allVars => MadeOK' /\ [Service!Next]_(Service!vars)
    BY PoolStep, MadeStep, StepMaps, AgainMaps DEF Again, RInv
  <1>2. RouterInit => MadeOK /\ Service!Init
    BY MadeInit, InitMaps DEF RouterInit
  <1> QED
    BY <1>1, <1>2, RouterInvariance, PTL DEF RouterSpec, ImplementsService, Service!Spec

LEMMA InUseOneStep ==
    OneUpdater /\ RInv /\ EntryToClose /\ NoOrphan /\ [RouterNext]_allVars
        => EntryToClose' /\ NoOrphan'
  <1>1. Again /\ EntryToClose /\ NoOrphan => EntryToClose' /\ NoOrphan'
    BY DEF Again, SearchNext, mapVars, updVars, EntryToClose, NoOrphan, InMap
  <1> QED
    BY <1>1, PoolStep, EntryStep, OrphanStep DEF RInv

LEMMA InvarianceOneInUse == OneUpdater /\ RouterSpec => [](EntryToClose /\ NoOrphan)
  <1> SUFFICES ASSUME OneUpdater PROVE RouterSpec => [](EntryToClose /\ NoOrphan)
    OBVIOUS
  <1>1. RouterInit => EntryToClose /\ NoOrphan
    BY InitOne DEF RouterInit
  <1>2. RInv /\ EntryToClose /\ NoOrphan /\ [RouterNext]_allVars => (EntryToClose /\ NoOrphan)'
    BY InUseOneStep
  <1> QED
    BY <1>1, <1>2, RouterInvariance, PTL DEF RouterSpec

\* With one updating goroutine no open sql.DB is left that the map does not
\* lead to, whatever the calls of the router do meanwhile.
THEOREM NothingStrandedInUse == OneUpdater /\ RouterSpec => []NoOrphan
  BY InvarianceOneInUse, PTL

\* With one updating goroutine an entry no update marked keeps serving its
\* cluster while calls of the router come and go.
THEOREM UninterruptedInUse == OneUpdater /\ RouterSpec => ServedUntilMarked
  <1> SUFFICES ASSUME OneUpdater PROVE RouterSpec => ServedUntilMarked
    OBVIOUS
  <1>1. ASSUME RInv, EntryToClose, [RouterNext]_allVars, NEW n \in Cluster,
               clusters[n] # 0, Mapped(n) \notin closing, ~shut'
        PROVE  clusters'[n] = clusters[n]
    <2>1. CASE Again
      BY <2>1 DEF Again, SearchNext, mapVars
    <2>2. CASE [Next]_vars
      BY <1>1, <2>2, ServedStep DEF RInv
    <2> QED
      BY <1>1, <2>1, <2>2, PoolStep
  <1>2. RInv /\ EntryToClose /\ [RouterNext]_allVars
          => [\A n \in Cluster : clusters[n] # 0 /\ Mapped(n) \notin closing /\ ~shut'
                                   => clusters'[n] = clusters[n]]_vars
    BY <1>1
  <1> QED
    BY <1>2, RouterInvariance, InvarianceOneInUse, PTL DEF RouterSpec, ServedUntilMarked

-----------------------------------------------------------------------------
(* Calls advance.  The part of CallsEnd that needs no fairness.            *)

\* How far a call is with the database it is at.
Place(r) ==
    CASE step[r] = "get"  -> IF rpc[r] = "new" THEN 1 ELSE IF rpc[r] = "found" THEN 2 ELSE 3
      [] step[r] = "conn" -> 4
      [] step[r] = "use"  -> 5
      [] step[r] = "run"  -> 6
      [] step[r] = "rows" -> 7
      [] step[r] = "next" -> 8
      [] OTHER            -> 9

Advances(r) ==
    \/ todo'[r] \subseteq todo[r] /\ todo'[r] # todo[r]
    \/ todo'[r] = todo[r] /\ Place(r) < Place(r)'

CallAdvances ==
    [][\A r \in Request :
          step[r] # "start" =>
             UNCHANGED <<step[r], todo[r], rpc[r]>> \/ Advances(r)]_allVars

\* A step of a started call takes one of its databases off the list or brings
\* the call nearer to the end of the one it is at.
LEMMA AdvanceStep ==
    ASSUME RInv, NEW r \in Request, Call(r), step[r] # "start"
    PROVE  Advances(r)
  <1> USE DEF RInv, RouterTypeOK
  <1>0. rpc \in [Request -> {"new", "found", "checked", "using", "done", "failed"}]
    BY DEF IInv, TypeOK
  <1>1. ASSUME NEW b \in Database, SearchNext(r, b) PROVE Advances(r)
    BY <1>1 DEF SearchNext, Advances
  <1>2. ASSUME NEW b \in Database, Route(r, b) PROVE FALSE
    BY <1>2 DEF Route
  <1>3. CASE Search(r)
    BY <1>3 DEF Search
  <1>4. CASE SearchEnds(r)
    BY <1>4 DEF SearchEnds, Advances, Place
  <1>5. CASE GetDB(r)
    <2>1. todo' = todo /\ step[r] = "get"
      BY <1>5 DEF GetDB
    <2>2. \/ rpc[r] = "new" /\ rpc'[r] \in {"failed", "found"}
          \/ rpc[r] = "found" /\ rpc'[r] \in {"failed", "checked"}
          \/ rpc[r] = "checked" /\ rpc'[r] = "using"
      BY <1>0, <1>5 DEF GetDB, Lookup, CheckClosing, AddRef
    <2>3. step'[r] = IF rpc'[r] = "failed" THEN Over(r, "failed")
                     ELSE IF rpc'[r] = "using" THEN "conn" ELSE "get"
      BY <1>5 DEF GetDB
    <2>4. Over(r, "failed") \in {"next", "failed"}
      BY DEF Over
    <2>5. Place(r) < Place(r)'
      BY <2>1, <2>2, <2>3, <2>4 DEF Place
    <2> QED
      BY <2>1, <2>5 DEF Advances
  <1>6. CASE TakeConn(r)
    BY <1>6 DEF TakeConn, Advances, Place
  <1>7. CASE Use(r) \/ Query(r)
    BY <1>7 DEF Use, Query, Advances, Place
  <1>8. CASE NoConnLeft(r) \/ Fail(r) \/ Exec(r) \/ CloseRows(r)
    <2>1. todo' = todo /\ step[r] \in {"conn", "use", "run", "rows"}
      BY <1>8 DEF NoConnLeft, Fail, Exec, CloseRows
    <2>2. step'[r] \in {"next", "failed", "done"}
      BY <1>8 DEF NoConnLeft, Fail, Exec, CloseRows, End, Over
    <2> QED
      BY <2>1, <2>2 DEF Advances, Place
  <1> QED
    BY <1>1, <1>2, <1>3, <1>4, <1>5, <1>6, <1>7, <1>8 DEF Call

\* A call that has started never goes back: it takes one of finitely many
\* databases off its list, or gets on with the one it is at, and no other call
\* and no update of the pool or the routes moves it.
THEOREM CallsAdvance == RouterSpec => CallAdvances
  <1>1. ASSUME RInv, [RouterNext]_allVars, NEW q \in Request, step[q] # "start"
        PROVE  UNCHANGED <<step[q], todo[q], rpc[q]>> \/ Advances(q)
    <2>1. ASSUME NEW r \in Request, Call(r), r # q
          PROVE  UNCHANGED <<step[q], todo[q], rpc[q]>>
      <3>1. step'[q] = step[q] /\ rpc'[q] = rpc[q]
        BY <1>1, <2>1, CallTouchesOwn
      <3>2. todo'[q] = todo[q]
        BY <2>1, <1>1 DEF Call, Route, SearchNext, Search, SearchEnds, GetDB, TakeConn, NoConnLeft,
                          Use, Fail, Exec, Query, CloseRows, RInv, RouterTypeOK
      <3> QED
        BY <3>1, <3>2
    <2>2. CASE UNCHANGED <<rpc, held, callVars, sqlVars>>
      BY <2>2 DEF callVars
    <2> QED
      BY <1>1, <2>1, <2>2, AdvanceStep, PoolLeavesCalls DEF RouterNext
  <1>2. RInv /\ [RouterNext]_allVars
          => [\A r \in Request :
                 step[r] # "start" =>
                    UNCHANGED <<step[r], todo[r], rpc[r]>> \/ Advances(r)]_allVars
    BY <1>1
  <1> QED
    BY <1>2, RouterInvariance, PTL DEF RouterSpec, CallAdvances
=============================================================================
