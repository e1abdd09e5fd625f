-------------------------------- MODULE Pool --------------------------------
(***************************************************************************)
(* database.Pool (internal/database/pool.go): one *sql.DB per MySQL        *)
(* cluster, handed out by Get and replaced by UpdateConfig while requests  *)
(* are being served.                                                       *)
(*                                                                         *)
(* A managedDB is a Handle <<cluster, generation>>: connect makes the next *)
(* generation of its cluster.  p.mu is held across no blocking call, so a  *)
(* critical section is one action; Get reads the map, the closing flag and *)
(* the reference count in three steps, because only the first is under the *)
(* lock.  The four fields UpdateConfig compares (host, port, user,         *)
(* password) are one Setting.  Timeouts are untimed: a wait may end any    *)
(* time.                                                                   *)
(***************************************************************************)
EXTENDS Integers, FiniteSets

CONSTANTS Cluster,    \* cluster names
          Setting,    \* values of a cluster's connection settings
          Connects,   \* the settings sql.Open accepts
          Absent,     \* "this cluster is not configured"
          Request,    \* tool calls, each of which calls Get once
          Releasing,  \* the requests whose caller calls release
          Updater,    \* goroutines that call UpdateConfig
          MaxGen,     \* bound: managedDBs made for one cluster
          NoHandle

ASSUME PoolAssumption ==
    /\ Connects \subseteq Setting
    /\ Absent \notin Setting
    /\ Releasing \subseteq Request
    /\ MaxGen \in Nat \ {0}
    /\ IsFiniteSet(Request)

Handle == Cluster \X (1..MaxGen)

ASSUME NoHandleAssumption == NoHandle \notin Handle

VARIABLES clusters,  \* p.clusters: the generation a name maps to, 0 for none
          configs,   \* p.configs
          made,      \* managedDBs made so far for a cluster
          dialled,   \* the setting a handle was connected with
          refCount,  \* managedDB.refCount
          closing,   \* handles whose closing flag is 1
          closed,    \* handles whose sql.DB is closed
          rpc,       \* where a request is in Get
          held,      \* the handle a request read from the map
          upc,       \* where an updater is in UpdateConfig
          toClose,   \* UpdateConfig's local toClose: entries still to close
          current,   \* the entry of toClose the loop is at
          shut       \* Pool.Close has run

mapVars == <<clusters, configs, made, dialled, shut>>
reqVars == <<rpc, held>>
updVars == <<upc, toClose, current>>
vars == <<mapVars, refCount, closing, closed, reqVars, updVars>>

ConfigsType == [Cluster -> Setting \cup {Absent}]

TypeOK ==
    /\ clusters \in [Cluster -> 0..MaxGen]
    /\ configs \in ConfigsType
    /\ made \in [Cluster -> 0..MaxGen]
    /\ dialled \in [Handle -> Setting \cup {Absent}]
    /\ refCount \in [Handle -> Nat]
    /\ closing \subseteq Handle
    /\ closed \subseteq Handle
    /\ rpc \in [Request -> {"new", "found", "checked", "using", "done", "failed"}]
    /\ held \in [Request -> Handle \cup {NoHandle}]
    /\ upc \in [Updater -> {"idle", "wait", "close", "delete"}]
    /\ toClose \in [Updater -> SUBSET Handle]
    /\ current \in [Updater -> Handle \cup {NoHandle}]
    /\ shut \in BOOLEAN

Mapped(n) == <<n, clusters[n]>>
InMap(d) == clusters[d[1]] = d[2]
MappedHandles == {d \in Handle : InMap(d)}

-----------------------------------------------------------------------------
(* NewPool: one handle per configured cluster; a setting sql.Open refuses  *)
(* fails the start of the program.                                         *)

Init ==
    /\ configs \in [Cluster -> Connects \cup {Absent}]
    /\ clusters = [n \in Cluster |-> IF configs[n] = Absent THEN 0 ELSE 1]
    /\ made = clusters
    /\ dialled = [d \in Handle |-> IF d[2] = 1 THEN configs[d[1]] ELSE Absent]
    /\ refCount = [d \in Handle |-> 0]
    /\ closing = {}
    /\ closed = {}
    /\ rpc = [r \in Request |-> "new"]
    /\ held = [r \in Request |-> NoHandle]
    /\ upc = [u \in Updater |-> "idle"]
    /\ toClose = [u \in Updater |-> {}]
    /\ current = [u \in Updater |-> NoHandle]
    /\ shut = FALSE

-----------------------------------------------------------------------------
(* Get, release.                                                           *)

Lookup(r, n) ==
    /\ rpc[r] = "new"
    /\ IF clusters[n] = 0
       THEN /\ rpc' = [rpc EXCEPT ![r] = "failed"]
            /\ UNCHANGED held
       ELSE /\ rpc' = [rpc EXCEPT ![r] = "found"]
            /\ held' = [held EXCEPT ![r] = Mapped(n)]
    /\ UNCHANGED <<mapVars, refCount, closing, closed, updVars>>

\* Fault: Get does not look at the closing flag.
CheckClosingSkipped(r) ==
    /\ rpc[r] = "found"
    /\ rpc' = [rpc EXCEPT ![r] = "checked"]
    /\ UNCHANGED <<mapVars, refCount, closing, closed, held, updVars>>

CheckClosing(r) ==
    /\ rpc[r] = "found"
    /\ rpc' = [rpc EXCEPT ![r] = IF held[r] \in closing THEN "failed" ELSE "checked"]
    /\ UNCHANGED <<mapVars, refCount, closing, closed, held, updVars>>

AddRef(r) ==
    /\ rpc[r] = "checked"
    /\ rpc' = [rpc EXCEPT ![r] = "using"]
    /\ refCount' = [refCount EXCEPT ![held[r]] = @ + 1]
    /\ UNCHANGED <<mapVars, closing, closed, held, updVars>>

\* Fault: release is called both by defer and explicitly.
FinishTwice(r) ==
    /\ rpc[r] = "using"
    /\ rpc' = [rpc EXCEPT ![r] = "done"]
    /\ refCount' = IF r \in Releasing /\ InMap(held[r])
                   THEN [refCount EXCEPT ![held[r]] = @ - 2]
                   ELSE refCount
    /\ UNCHANGED <<mapVars, closing, closed, held, updVars>>

\* Fault: release finds the entry by cluster name instead of by its *sql.DB.
FinishByName(r) ==
    /\ rpc[r] = "using"
    /\ rpc' = [rpc EXCEPT ![r] = "done"]
    /\ refCount' = IF r \in Releasing /\ clusters[held[r][1]] # 0
                   THEN [refCount EXCEPT ![Mapped(held[r][1])] = @ - 1]
                   ELSE refCount
    /\ UNCHANGED <<mapVars, closing, closed, held, updVars>>

\* The caller is done with the handle; release decrements only entries that
\* are still in the map.
Finish(r) ==
    /\ rpc[r] = "using"
    /\ rpc' = [rpc EXCEPT ![r] = "done"]
    /\ refCount' = IF r \in Releasing /\ InMap(held[r])
                   THEN [refCount EXCEPT ![held[r]] = @ - 1]
                   ELSE refCount
    /\ UNCHANGED <<mapVars, closing, closed, held, updVars>>

-----------------------------------------------------------------------------
(* UpdateConfig.                                                           *)

\* Fault: changed settings are not noticed, only removed clusters.
RetiredIfRemoved(new) ==
    {Mapped(n) : n \in {m \in Cluster : clusters[m] # 0 /\ new[m] = Absent}}

\* The existing entries UpdateConfig marks: their cluster is gone or its
\* settings differ from the previous configuration's.
Retired(new) ==
    {Mapped(n) : n \in {m \in Cluster : /\ clusters[m] # 0
                                        /\ new[m] = Absent \/ new[m] # configs[m]}}

\* Fault: a changed cluster is connected again at once, over its old entry.
AddedOrChanged(new) ==
    {n \in Cluster : (clusters[n] = 0 \/ new[n] # configs[n]) /\ new[n] \in Connects}

\* The clusters UpdateConfig connects to: configured, and without an entry.
Added(new) == {n \in Cluster : clusters[n] = 0 /\ new[n] \in Connects}

\* Fault: an error of one Close ends the loop.
GoOnOrGiveUp(u, left) ==
    /\ \/ toClose' = [toClose EXCEPT ![u] = left]
       \/ toClose' = [toClose EXCEPT ![u] = {}]
    /\ \/ /\ toClose'[u] = {}
          /\ upc' = [upc EXCEPT ![u] = "idle"]
          /\ current' = [current EXCEPT ![u] = NoHandle]
       \/ \E d \in toClose'[u] :
             /\ upc' = [upc EXCEPT ![u] = "wait"]
             /\ current' = [current EXCEPT ![u] = d]

\* The loop over toClose goes to any entry that is left (map order), or ends.
GoOn(u, left) ==
    /\ toClose' = [toClose EXCEPT ![u] = left]
    /\ \/ /\ left = {}
          /\ upc' = [upc EXCEPT ![u] = "idle"]
          /\ current' = [current EXCEPT ![u] = NoHandle]
       \/ \E d \in left :
             /\ upc' = [upc EXCEPT ![u] = "wait"]
             /\ current' = [current EXCEPT ![u] = d]

\* Phase 1, under the lock.
MarkAndAdd(u, new) ==
    /\ upc[u] = "idle"
    /\ \A n \in Added(new) : made[n] < MaxGen
    /\ closing' = closing \cup Retired(new)
    /\ made' = [n \in Cluster |-> IF n \in Added(new) THEN made[n] + 1 ELSE made[n]]
    /\ clusters' = [n \in Cluster |-> IF n \in Added(new) THEN made[n] + 1 ELSE clusters[n]]
    /\ dialled' = [d \in Handle |-> IF d[1] \in Added(new) /\ d[2] = made[d[1]] + 1
                                    THEN new[d[1]] ELSE dialled[d]]
    /\ configs' = new
    /\ GoOn(u, Retired(new))
    /\ UNCHANGED <<refCount, closed, reqVars, shut>>

\* waitForRelease returns true.
Released(u) ==
    /\ upc[u] = "wait"
    /\ refCount[current[u]] = 0
    /\ upc' = [upc EXCEPT ![u] = "close"]
    /\ UNCHANGED <<mapVars, refCount, closing, closed, reqVars, toClose, current>>

\* waitForRelease returns false: the 10 s of this UpdateConfig are over.
TimedOut(u) ==
    /\ upc[u] = "wait"
    /\ refCount[current[u]] # 0
    /\ upc' = [upc EXCEPT ![u] = "close"]
    /\ UNCHANGED <<mapVars, refCount, closing, closed, reqVars, toClose, current>>

\* Fault: after a timeout the handle is left to its users.
CloseIfUnused(u) ==
    /\ upc[u] = "close"
    /\ closed' = IF refCount[current[u]] = 0 THEN closed \cup {current[u]} ELSE closed
    /\ upc' = [upc EXCEPT ![u] = "delete"]
    /\ UNCHANGED <<mapVars, refCount, closing, reqVars, toClose, current>>

CloseHandle(u) ==
    /\ upc[u] = "close"
    /\ closed' = closed \cup {current[u]}
    /\ upc' = [upc EXCEPT ![u] = "delete"]
    /\ UNCHANGED <<mapVars, refCount, closing, reqVars, toClose, current>>

\* The entry is deleted by name, whichever managedDB it holds by now.
DeleteEntry(u) ==
    /\ upc[u] = "delete"
    /\ clusters' = [clusters EXCEPT ![current[u][1]] = 0]
    /\ GoOn(u, toClose[u] \ {current[u]})
    /\ UNCHANGED <<configs, made, dialled, refCount, closing, closed, reqVars, shut>>

\* Close.
Close ==
    /\ ~shut
    /\ shut' = TRUE
    /\ closed' = closed \cup MappedHandles
    /\ clusters' = [n \in Cluster |-> 0]
    /\ UNCHANGED <<configs, made, dialled, refCount, closing, reqVars, updVars>>

-----------------------------------------------------------------------------
Get(r) == (\E n \in Cluster : Lookup(r, n)) \/ CheckClosing(r) \/ AddRef(r)

\* Fault: waitForRelease has no deadline.
WaitForever(u) == Released(u)

Wait(u) == Released(u) \/ TimedOut(u)

Next ==
    \/ \E r \in Request : Get(r) \/ Finish(r)
    \/ \E u \in Updater : \/ \E new \in ConfigsType : MarkAndAdd(u, new)
                          \/ Wait(u)
                          \/ CloseHandle(u)
                          \/ DeleteEntry(u)
    \/ Close

Spec == Init /\ [][Next]_vars

\* A goroutine inside UpdateConfig runs on: its wait is bounded by the context.
Fairness == \A u \in Updater : WF_vars(Wait(u)) /\ WF_vars(CloseHandle(u)) /\ WF_vars(DeleteEntry(u))

FairSpec == Spec /\ Fairness

-----------------------------------------------------------------------------
(* Correctness.                                                            *)

\* A request is never routed over stale credentials: every entry UpdateConfig
\* has not marked was connected with the setting now in p.configs, whatever
\* updates overlapped (the comparison in Phase 1 is with p.configs, not with
\* what the entry was connected with).
LiveMatchesConfig ==
    \A n \in Cluster :
        clusters[n] # 0 /\ Mapped(n) \notin closing => dialled[Mapped(n)] = configs[n]

\* No marked handle is forgotten: while its sql.DB is open some UpdateConfig
\* still has it to close.
MarkedIsOwned ==
    \A d \in closing \ closed : \E u \in Updater : d \in toClose[u]

Users(d) == {r \in Request : rpc[r] = "using" /\ held[r] = d}

\* waitForRelease never sees zero while a request that Get has counted is
\* still using the handle, although release skips entries that left the map.
RefsCoverUsers == \A d \in Handle : refCount[d] >= Cardinality(Users(d))

\* With one updating goroutine: a sql.DB that is open can be reached by name,
\* so the delete-by-name at the end of UpdateConfig strands no connection.
NoOrphan ==
    \A d \in Handle : d[2] <= made[d[1]] /\ d \notin closed => InMap(d)

\* With one updating goroutine: an entry no update marked keeps serving its
\* cluster until the pool is closed.
ServedUntilMarked ==
    [][\A n \in Cluster :
          clusters[n] # 0 /\ Mapped(n) \notin closing /\ ~shut'
             => clusters'[n] = clusters[n]]_vars

\* UpdateConfig returns, although nothing obliges a caller to release.
UpdateReturns == \A u \in Updater : upc[u] # "idle" ~> upc[u] = "idle"

\* A marked handle is closed in the end.
MarkedGetsClosed == \A d \in Handle : d \in closing ~> d \in closed

Phase(d) == IF d \in closed THEN "closed"
            ELSE IF d \in closing THEN "draining"
            ELSE IF d[2] <= made[d[1]] THEN "open"
            ELSE "unmade"

\* Get admits a request when its check of the closing flag passes.
Admitted(r) == IF rpc[r] \in {"checked", "using"} THEN held[r] ELSE NoHandle

Service == INSTANCE HandleService
             WITH phase <- [d \in Handle |-> Phase(d)],
                  admitted <- [r \in Request |-> Admitted(r)],
                  stopped <- shut

\* The pool keeps the promises of HandleService.
ImplementsService == Service!Spec

\* "New connections use new settings": when no update is running, every
\* cluster of the configuration that can be connected has an entry.
ConfiguredIsServed ==
    (\A u \in Updater : upc[u] = "idle") /\ ~shut
        => \A n \in Cluster : configs[n] \in Connects => clusters[n] # 0
=============================================================================
