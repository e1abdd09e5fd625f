----------------------------- MODULE PoolProofs -----------------------------
(***************************************************************************)
(* Proofs about Pool for any sets of clusters, settings, requests and      *)
(* updaters and any bound on generations.                                  *)
(***************************************************************************)
EXTENDS Pool, FiniteSetTheorems, TLAPS

-----------------------------------------------------------------------------
(* The inductive invariant: the safety invariants of Pool, and what they   *)
(* need to know of the local variables of Get and UpdateConfig.            *)

\* Between Get's map read and the caller's last use, held is a handle.
HeldOK == \A r \in Request : rpc[r] \in {"found", "checked", "using"} => held[r] \in Handle

\* An updater's loop is at an entry of toClose, and has only marked entries.
UpdaterOK ==
    \A u \in Updater : /\ upc[u] = "idle" => toClose[u] = {}
                       /\ upc[u] # "idle" => current[u] \in toClose[u]
                       /\ toClose[u] \subseteq closing
                       /\ upc[u] = "delete" => current[u] \in closed

IInv ==
    /\ TypeOK
    /\ HeldOK
    /\ UpdaterOK
    /\ LiveMatchesConfig
    /\ MarkedIsOwned
    /\ RefsCoverUsers

-----------------------------------------------------------------------------
(* Facts about the operators of Pool.                                      *)

LEMMA UsersFinite ==
    ASSUME NEW d
    PROVE  IsFiniteSet(Users(d)) /\ Cardinality(Users(d)) \in Nat
  <1>1. Users(d) \subseteq Request
    BY DEF Users
  <1>2. IsFiniteSet(Users(d))
    BY <1>1, PoolAssumption, FS_Subset
  <1> QED
    BY <1>2, FS_CardinalityType

\* What UpdateConfig retires are handles that the map holds.
LEMMA RetiredInMap ==
    ASSUME TypeOK, NEW new
    PROVE  Retired(new) \subseteq Handle /\ \A d \in Retired(new) : InMap(d)
  BY PoolAssumption DEF TypeOK, Retired, Mapped, Handle, InMap

LEMMA MappedIsHandle ==
    ASSUME TypeOK, NEW n \in Cluster, clusters[n] # 0
    PROVE  Mapped(n) \in Handle
  BY PoolAssumption DEF TypeOK, Mapped, Handle

\* A counted user of a handle keeps its count above zero.
LEMMA UserCounted ==
    ASSUME IInv, NEW r \in Request, rpc[r] = "using"
    PROVE  held[r] \in Handle /\ refCount[held[r]] \in Nat /\ refCount[held[r]] >= 1
  <1>1. held[r] \in Handle
    BY DEF IInv, HeldOK
  <1>2. r \in Users(held[r])
    BY DEF Users
  <1>3. Cardinality(Users(held[r])) # 0
    BY <1>2, UsersFinite, FS_EmptySet
  <1>4. refCount[held[r]] >= Cardinality(Users(held[r]))
    BY <1>1 DEF IInv, RefsCoverUsers
  <1>5. refCount[held[r]] \in Nat
    BY <1>1 DEF IInv, TypeOK
  <1> QED
    BY <1>1, <1>3, <1>4, <1>5, UsersFinite

-----------------------------------------------------------------------------
LEMMA InitIInv == Init => IInv
  <1> SUFFICES ASSUME Init PROVE IInv
    OBVIOUS
  <1>1. TypeOK
    <2>1. \A d \in Handle : d[1] \in Cluster
      BY DEF Handle
    <2>2. configs \in ConfigsType /\ dialled \in [Handle -> Setting \cup {Absent}]
      BY <2>1, PoolAssumption DEF Init, ConfigsType
    <2>3. clusters \in [Cluster -> 0..MaxGen]
      BY PoolAssumption DEF Init
    <2> QED
      BY <2>2, <2>3 DEF Init, TypeOK
  <1>2. HeldOK /\ UpdaterOK /\ MarkedIsOwned
    BY DEF Init, HeldOK, UpdaterOK, MarkedIsOwned
  <1>3. LiveMatchesConfig
    BY <1>1, MappedIsHandle DEF Init, LiveMatchesConfig, Mapped
  <1>4. RefsCoverUsers
    <2> SUFFICES ASSUME NEW d \in Handle PROVE refCount[d] >= Cardinality(Users(d))
      BY DEF RefsCoverUsers
    <2>1. Users(d) = {}
      BY DEF Init, Users
    <2> QED
      BY <2>1, FS_EmptySet DEF Init
  <1> QED
    BY <1>1, <1>2, <1>3, <1>4 DEF IInv

LEMMA TypeStep == IInv /\ [Next]_vars => TypeOK'
  <1> SUFFICES ASSUME IInv, [Next]_vars PROVE TypeOK'
    OBVIOUS
  <1> USE DEF IInv
  <1>1. ASSUME NEW r \in Request, NEW n \in Cluster, Lookup(r, n) PROVE TypeOK'
    BY <1>1, MappedIsHandle DEF Lookup, TypeOK, mapVars, updVars
  <1>2. ASSUME NEW r \in Request, CheckClosing(r) PROVE TypeOK'
    BY <1>2 DEF CheckClosing, TypeOK, mapVars, updVars
  <1>3. ASSUME NEW r \in Request, AddRef(r) PROVE TypeOK'
    <2>1. held[r] \in Handle
      BY <1>3 DEF AddRef, HeldOK
    <2> QED
      BY <1>3, <2>1 DEF AddRef, TypeOK, mapVars, updVars
  <1>4. ASSUME NEW r \in Request, Finish(r) PROVE TypeOK'
    <2>1. held[r] \in Handle /\ refCount[held[r]] \in Nat /\ refCount[held[r]] >= 1
      BY <1>4, UserCounted DEF Finish
    <2>2. refCount' \in [Handle -> Nat]
      BY <1>4, <2>1 DEF Finish, TypeOK
    <2> QED
      BY <1>4, <2>2 DEF Finish, TypeOK, mapVars, updVars
  <1>5. ASSUME NEW u \in Updater, NEW new \in ConfigsType, MarkAndAdd(u, new) PROVE TypeOK'
    <2>1. Retired(new) \subseteq Handle
      BY RetiredInMap
    <2>2. made' \in [Cluster -> 0..MaxGen] /\ clusters' \in [Cluster -> 0..MaxGen]
      BY <1>5, PoolAssumption DEF MarkAndAdd, TypeOK, Added
    <2>3. configs' \in ConfigsType /\ dialled' \in [Handle -> Setting \cup {Absent}]
      <3>1. \A d \in Handle : d[1] \in Cluster
        BY DEF Handle
      <3> QED
        BY <1>5, <3>1 DEF MarkAndAdd, TypeOK, ConfigsType
    <2>4. /\ toClose' \in [Updater -> SUBSET Handle]
          /\ upc' \in [Updater -> {"idle", "wait", "close", "delete"}]
          /\ current' \in [Updater -> Handle \cup {NoHandle}]
      BY <1>5, <2>1 DEF MarkAndAdd, GoOn, TypeOK
    <2> QED
      BY <1>5, <2>1, <2>2, <2>3, <2>4 DEF MarkAndAdd, TypeOK, reqVars
  <1>6. ASSUME NEW u \in Updater, Wait(u) PROVE TypeOK'
    BY <1>6 DEF Wait, Released, TimedOut, TypeOK, mapVars, reqVars
  <1>7. ASSUME NEW u \in Updater, CloseHandle(u) PROVE TypeOK'
    <2>1. current[u] \in Handle
      BY <1>7 DEF CloseHandle, UpdaterOK, TypeOK
    <2> QED
      BY <1>7, <2>1 DEF CloseHandle, TypeOK, mapVars, reqVars
  <1>8. ASSUME NEW u \in Updater, DeleteEntry(u) PROVE TypeOK'
    <2>1. clusters' \in [Cluster -> 0..MaxGen]
      <3>1. \A n \in Cluster : [clusters EXCEPT ![n] = 0] \in [Cluster -> 0..MaxGen]
        BY PoolAssumption DEF TypeOK
      <3>2. current[u] \in Handle
        BY <1>8 DEF DeleteEntry, UpdaterOK, TypeOK
      <3>3. current[u][1] \in Cluster
        BY <3>2 DEF Handle
      <3> QED
        BY <1>8, <3>1, <3>3 DEF DeleteEntry
    <2>2. /\ toClose' \in [Updater -> SUBSET Handle]
          /\ upc' \in [Updater -> {"idle", "wait", "close", "delete"}]
          /\ current' \in [Updater -> Handle \cup {NoHandle}]
      BY <1>8 DEF DeleteEntry, GoOn, TypeOK
    <2> QED
      BY <1>8, <2>1, <2>2 DEF DeleteEntry, TypeOK, reqVars
  <1>9. ASSUME Close PROVE TypeOK'
    BY <1>9, PoolAssumption DEF Close, TypeOK, MappedHandles, reqVars, updVars
  <1>10. ASSUME UNCHANGED vars PROVE TypeOK'
    BY <1>10 DEF TypeOK, vars, mapVars, reqVars, updVars
  <1> QED
    BY <1>1, <1>2, <1>3, <1>4, <1>5, <1>6, <1>7, <1>8, <1>9, <1>10 DEF Next, Get

LEMMA LocalStep == IInv /\ [Next]_vars => HeldOK' /\ UpdaterOK'
  <1> SUFFICES ASSUME IInv, [Next]_vars PROVE HeldOK' /\ UpdaterOK'
    OBVIOUS
  <1> USE DEF IInv
  <1>1. ASSUME NEW r \in Request, NEW n \in Cluster, Lookup(r, n) PROVE HeldOK' /\ UpdaterOK'
    BY <1>1, MappedIsHandle DEF Lookup, TypeOK, HeldOK, UpdaterOK, mapVars, updVars
  <1>2. ASSUME NEW r \in Request, CheckClosing(r) \/ AddRef(r) \/ Finish(r)
        PROVE  HeldOK' /\ UpdaterOK'
    BY <1>2 DEF CheckClosing, AddRef, Finish, TypeOK, HeldOK, UpdaterOK, mapVars, updVars
  <1>3. ASSUME NEW u \in Updater, NEW new \in ConfigsType, MarkAndAdd(u, new)
        PROVE  HeldOK' /\ UpdaterOK'
    <2>1. HeldOK'
      BY <1>3 DEF MarkAndAdd, HeldOK, reqVars
    <2>2. UpdaterOK'
      BY <1>3 DEF MarkAndAdd, GoOn, TypeOK, UpdaterOK
    <2> QED
      BY <2>1, <2>2
  <1>4. ASSUME NEW u \in Updater, Wait(u) \/ CloseHandle(u) PROVE HeldOK' /\ UpdaterOK'
    BY <1>4 DEF Wait, Released, TimedOut, CloseHandle, TypeOK, HeldOK, UpdaterOK, mapVars, reqVars
  <1>5. ASSUME NEW u \in Updater, DeleteEntry(u) PROVE HeldOK' /\ UpdaterOK'
    BY <1>5 DEF DeleteEntry, GoOn, TypeOK, HeldOK, UpdaterOK, reqVars
  <1>6. ASSUME Close PROVE HeldOK' /\ UpdaterOK'
    BY <1>6 DEF Close, HeldOK, UpdaterOK, reqVars, updVars
  <1>7. ASSUME UNCHANGED vars PROVE HeldOK' /\ UpdaterOK'
    BY <1>7 DEF HeldOK, UpdaterOK, vars, mapVars, reqVars, updVars
  <1> QED
    BY <1>1, <1>2, <1>3, <1>4, <1>5, <1>6, <1>7 DEF Next, Get

\* A step changes the entry of a cluster only to remove it, to add one, or
\* not at all; only Phase 1 adds one and changes configs.
LEMMA LiveStep == IInv /\ [Next]_vars => LiveMatchesConfig'
  <1> SUFFICES ASSUME IInv, [Next]_vars, NEW n \in Cluster,
                      clusters'[n] # 0, Mapped(n)' \notin closing'
               PROVE  dialled'[Mapped(n)'] = configs'[n]
    BY DEF LiveMatchesConfig, Mapped
  <1> USE DEF IInv
  <1>1. ASSUME clusters'[n] = clusters[n], closing \subseteq closing',
               configs'[n] = configs[n], dialled' = dialled
        PROVE  dialled'[Mapped(n)'] = configs'[n]
    BY <1>1 DEF LiveMatchesConfig, Mapped
  <1>2. CASE \E r \in Request : Get(r) \/ Finish(r)
    BY <1>2, <1>1 DEF Get, Lookup, CheckClosing, AddRef, Finish, mapVars
  <1>3. ASSUME NEW u \in Updater, NEW new \in ConfigsType, MarkAndAdd(u, new)
        PROVE  dialled'[Mapped(n)'] = configs'[n]
    <2>1. CASE n \in Added(new)
      <3>1. clusters'[n] = made[n] + 1 /\ Mapped(n)' = <<n, made[n] + 1>>
        BY <1>3, <2>1 DEF MarkAndAdd, Mapped
      <3>2. <<n, made[n] + 1>> \in Handle
        BY <1>3, <2>1, PoolAssumption DEF MarkAndAdd, TypeOK, Handle
      <3>3. dialled'[<<n, made[n] + 1>>] = new[n]
        BY <1>3, <2>1, <3>2 DEF MarkAndAdd
      <3> QED
        BY <1>3, <3>1, <3>3 DEF MarkAndAdd
    <2>2. CASE n \notin Added(new)
      <3>1. clusters'[n] = clusters[n] /\ clusters[n] # 0 /\ Mapped(n)' = Mapped(n)
        BY <1>3, <2>2 DEF MarkAndAdd, TypeOK, Mapped
      <3>2. Mapped(n) \notin closing /\ Mapped(n) \notin Retired(new)
        BY <1>3, <3>1 DEF MarkAndAdd
      <3>3. new[n] = configs[n]
        BY <3>1, <3>2 DEF Retired
      <3>4. Mapped(n) \in Handle
        BY <3>1, MappedIsHandle
      <3>5. dialled'[Mapped(n)] = dialled[Mapped(n)]
        BY <1>3, <2>2, <3>4 DEF MarkAndAdd, Mapped
      <3> QED
        BY <1>3, <3>1, <3>2, <3>3, <3>5 DEF MarkAndAdd, LiveMatchesConfig
    <2> QED
      BY <2>1, <2>2
  <1>4. CASE \E u \in Updater : Wait(u) \/ CloseHandle(u)
    BY <1>4, <1>1 DEF Wait, Released, TimedOut, CloseHandle, mapVars
  <1>5. ASSUME NEW u \in Updater, DeleteEntry(u)
        PROVE  dialled'[Mapped(n)'] = configs'[n]
    <2>1. clusters'[n] = clusters[n]
      BY <1>5 DEF DeleteEntry, TypeOK
    <2> QED
      BY <1>5, <2>1, <1>1 DEF DeleteEntry
  <1>6. CASE Close
    BY <1>6 DEF Close
  <1>7. CASE UNCHANGED vars
    BY <1>7, <1>1 DEF vars, mapVars
  <1> QED
    BY <1>2, <1>3, <1>4, <1>5, <1>6, <1>7 DEF Next

\* Only CloseHandle, after which the handle is closed, and a DeleteEntry, which
\* drops a closed handle, shorten toClose or take its handles away.
LEMMA OwnedStep == IInv /\ [Next]_vars => MarkedIsOwned'
  <1> SUFFICES ASSUME IInv, [Next]_vars, NEW d \in closing' \ closed'
               PROVE  \E u \in Updater : d \in toClose'[u]
    BY DEF MarkedIsOwned
  <1> USE DEF IInv
  <1>1. ASSUME closing' = closing, closed \subseteq closed', toClose' = toClose
        PROVE  \E u \in Updater : d \in toClose'[u]
    BY <1>1 DEF MarkedIsOwned
  <1>2. CASE \E r \in Request : Get(r) \/ Finish(r)
    BY <1>2, <1>1 DEF Get, Lookup, CheckClosing, AddRef, Finish, updVars
  <1>3. ASSUME NEW u \in Updater, NEW new \in ConfigsType, MarkAndAdd(u, new)
        PROVE  \E v \in Updater : d \in toClose'[v]
    <2>1. toClose' = [toClose EXCEPT ![u] = Retired(new)] /\ toClose[u] = {}
      BY <1>3 DEF MarkAndAdd, GoOn, UpdaterOK
    <2>2. CASE d \in Retired(new)
      BY <2>1, <2>2 DEF TypeOK
    <2>3. CASE d \notin Retired(new)
      <3>1. PICK v \in Updater : d \in toClose[v]
        BY <1>3, <2>3 DEF MarkAndAdd, MarkedIsOwned
      <3>2. v # u
        BY <2>1, <3>1
      <3> QED
        BY <2>1, <3>1, <3>2 DEF TypeOK
    <2> QED
      BY <2>2, <2>3
  <1>4. CASE \E u \in Updater : Wait(u) \/ CloseHandle(u)
    BY <1>4, <1>1 DEF Wait, Released, TimedOut, CloseHandle
  <1>5. ASSUME NEW u \in Updater, DeleteEntry(u)
        PROVE  \E v \in Updater : d \in toClose'[v]
    <2>1. PICK v \in Updater : d \in toClose[v]
      BY <1>5 DEF DeleteEntry, MarkedIsOwned
    <2>2. toClose' = [toClose EXCEPT ![u] = toClose[u] \ {current[u]}]
      BY <1>5 DEF DeleteEntry, GoOn
    <2>3. d # current[u]
      BY <1>5 DEF DeleteEntry, UpdaterOK
    <2> QED
      BY <2>1, <2>2, <2>3 DEF TypeOK
  <1>6. CASE Close
    BY <1>6, <1>1 DEF Close, updVars
  <1>7. CASE UNCHANGED vars
    BY <1>7, <1>1 DEF vars, updVars
  <1> QED
    BY <1>2, <1>3, <1>4, <1>5, <1>6, <1>7 DEF Next

\* The users of a handle and its count grow and shrink together.
LEMMA RefsStep == IInv /\ [Next]_vars => RefsCoverUsers'
  <1> SUFFICES ASSUME IInv, [Next]_vars, NEW d \in Handle
               PROVE  refCount'[d] >= Cardinality(Users(d)')
    BY DEF RefsCoverUsers
  <1> USE DEF IInv
  <1>0. /\ refCount[d] >= Cardinality(Users(d)) /\ refCount[d] \in Nat
        /\ IsFiniteSet(Users(d)) /\ Cardinality(Users(d)) \in Nat
    BY UsersFinite DEF RefsCoverUsers, TypeOK
  <1>1. ASSUME Users(d)' = Users(d), refCount' = refCount
        PROVE  refCount'[d] >= Cardinality(Users(d)')
    BY <1>0, <1>1
  <1>2. ASSUME NEW r \in Request, NEW n \in Cluster, Lookup(r, n)
        PROVE  refCount'[d] >= Cardinality(Users(d)')
    <2>1. Users(d)' = Users(d)
      BY <1>2 DEF Lookup, Users, TypeOK
    <2> QED
      BY <1>2, <2>1, <1>1 DEF Lookup
  <1>3. ASSUME NEW r \in Request, CheckClosing(r)
        PROVE  refCount'[d] >= Cardinality(Users(d)')
    <2>1. Users(d)' = Users(d)
      BY <1>3 DEF CheckClosing, Users, TypeOK
    <2> QED
      BY <1>3, <2>1, <1>1 DEF CheckClosing
  <1>4. ASSUME NEW r \in Request, AddRef(r)
        PROVE  refCount'[d] >= Cardinality(Users(d)')
    <2>1. CASE held[r] = d
      <3>1. Users(d)' = Users(d) \cup {r}
        BY <1>4, <2>1 DEF AddRef, Users, TypeOK
      <3>2. Cardinality(Users(d)') <= Cardinality(Users(d)) + 1
        BY <1>0, <3>1, FS_AddElement
      <3>3. refCount'[d] = refCount[d] + 1
        BY <1>4, <2>1 DEF AddRef, TypeOK
      <3>4. Cardinality(Users(d)') \in Nat
        BY <1>0, <3>1, FS_AddElement
      <3> QED
        BY <1>0, <3>2, <3>3, <3>4
    <2>2. CASE held[r] # d
      <3>1. Users(d)' = Users(d)
        BY <1>4, <2>2 DEF AddRef, Users, TypeOK
      <3>2. refCount'[d] = refCount[d]
        BY <1>4, <2>2 DEF AddRef, TypeOK
      <3> QED
        BY <1>0, <3>1, <3>2
    <2> QED
      BY <2>1, <2>2
  <1>5. ASSUME NEW r \in Request, Finish(r)
        PROVE  refCount'[d] >= Cardinality(Users(d)')
    <2>1. CASE held[r] = d
      <3>1. Users(d)' = Users(d) \ {r} /\ r \in Users(d)
        BY <1>5, <2>1 DEF Finish, Users, TypeOK
      <3>2. Cardinality(Users(d)') = Cardinality(Users(d)) - 1
        BY <1>0, <3>1, FS_RemoveElement
      <3>3. refCount'[d] \in {refCount[d], refCount[d] - 1}
        BY <1>5, <2>1 DEF Finish, TypeOK
      <3> QED
        BY <1>0, <3>2, <3>3
    <2>2. CASE held[r] # d
      <3>1. Users(d)' = Users(d)
        BY <1>5, <2>2 DEF Finish, Users, TypeOK
      <3>2. refCount'[d] = refCount[d]
        BY <1>5, <2>2 DEF Finish, TypeOK
      <3> QED
        BY <1>0, <3>1, <3>2
    <2> QED
      BY <2>1, <2>2
  <1>6. CASE \E u \in Updater : \/ \E new \in ConfigsType : MarkAndAdd(u, new)
                               \/ Wait(u) \/ CloseHandle(u) \/ DeleteEntry(u)
    <2>1. Users(d)' = Users(d)
      BY <1>6 DEF MarkAndAdd, Wait, Released, TimedOut, CloseHandle, DeleteEntry, Users, reqVars
    <2> QED
      BY <1>6, <2>1, <1>1 DEF MarkAndAdd, Wait, Released, TimedOut, CloseHandle, DeleteEntry
  <1>7. CASE Close \/ UNCHANGED vars
    <2>1. Users(d)' = Users(d)
      BY <1>7 DEF Close, vars, Users, reqVars
    <2> QED
      BY <1>7, <2>1, <1>1 DEF Close, vars
  <1> QED
    BY <1>2, <1>3, <1>4, <1>5, <1>6, <1>7 DEF Next, Get

-----------------------------------------------------------------------------
LEMMA Invariance == Spec => []IInv
  <1>1. Init => IInv
    BY InitIInv
  <1>2. IInv /\ [Next]_vars => IInv'
    BY TypeStep, LocalStep, LiveStep, OwnedStep, RefsStep DEF IInv
  <1> QED
    BY <1>1, <1>2, PTL DEF Spec

\* Every variable keeps its type; in particular release never takes a count
\* below zero.
THEOREM PoolTyped == Spec => []TypeOK
  BY Invariance, PTL DEF IInv

\* No unmarked entry was connected with outdated settings, however many
\* goroutines update the pool at once.
THEOREM EntriesAreCurrent == Spec => []LiveMatchesConfig
  BY Invariance, PTL DEF IInv

\* A marked handle that is still open is in some updater's list.
THEOREM MarkedHandlesAreOwned == Spec => []MarkedIsOwned
  BY Invariance, PTL DEF IInv

\* A reference count is at least the number of counted users.
THEOREM CountsCoverUsers == Spec => []RefsCoverUsers
  BY Invariance, PTL DEF IInv

-----------------------------------------------------------------------------
(* Updates advance.  The part of UpdateReturns that needs no fairness: the  *)
(* list only shrinks, and between two entries there are but two steps.      *)

UpdateAdvances ==
    [][\A u \in Updater :
          upc[u] # "idle" =>
             \/ UNCHANGED <<upc[u], toClose[u], current[u]>>
             \/ toClose'[u] \subseteq toClose[u] /\ toClose'[u] # toClose[u]
             \/ /\ toClose'[u] = toClose[u]
                /\ <<upc[u], upc'[u]>> \in {<<"wait", "close">>, <<"close", "delete">>}]_vars

\* A goroutine inside UpdateConfig never goes back: nothing adds to its list,
\* no second wait starts for an entry, and no other goroutine, no request and
\* no Pool.Close moves it.
THEOREM UpdatesAdvance == Spec => UpdateAdvances
  <1>1. ASSUME IInv, [Next]_vars, NEW u \in Updater, upc[u] # "idle"
        PROVE  \/ UNCHANGED <<upc[u], toClose[u], current[u]>>
               \/ toClose'[u] \subseteq toClose[u] /\ toClose'[u] # toClose[u]
               \/ /\ toClose'[u] = toClose[u]
                  /\ <<upc[u], upc'[u]>> \in {<<"wait", "close">>, <<"close", "delete">>}
    <2> USE <1>1 DEF IInv, TypeOK
    <2>1. CASE (\E r \in Request : Get(r) \/ Finish(r)) \/ Close \/ UNCHANGED vars
      BY <2>1 DEF Get, Lookup, CheckClosing, AddRef, Finish, Close, vars, updVars
    <2>2. ASSUME NEW v \in Updater, NEW new \in ConfigsType, MarkAndAdd(v, new)
          PROVE  UNCHANGED <<upc[u], toClose[u], current[u]>>
      BY <2>2 DEF MarkAndAdd, GoOn
    <2>3. ASSUME NEW v \in Updater, Wait(v) \/ CloseHandle(v)
          PROVE  \/ UNCHANGED <<upc[u], toClose[u], current[u]>>
                 \/ /\ toClose'[u] = toClose[u]
                    /\ <<upc[u], upc'[u]>> \in {<<"wait", "close">>, <<"close", "delete">>}
      BY <2>3 DEF Wait, Released, TimedOut, CloseHandle
    <2>4. ASSUME NEW v \in Updater, DeleteEntry(v)
          PROVE  \/ UNCHANGED <<upc[u], toClose[u], current[u]>>
                 \/ toClose'[u] \subseteq toClose[u] /\ toClose'[u] # toClose[u]
      <3>1. current[v] \in toClose[v]
        BY <2>4 DEF DeleteEntry, UpdaterOK
      <3>2. toClose' = [toClose EXCEPT ![v] = toClose[v] \ {current[v]}]
        BY <2>4 DEF DeleteEntry, GoOn
      <3> QED
        BY <2>4, <3>1, <3>2 DEF DeleteEntry, GoOn
    <2> QED
      BY <2>1, <2>2, <2>3, <2>4 DEF Next
  <1>2. IInv /\ [Next]_vars
          => [\A u \in Updater :
                 upc[u] # "idle" =>
                    \/ UNCHANGED <<upc[u], toClose[u], current[u]>>
                    \/ toClose'[u] \subseteq toClose[u] /\ toClose'[u] # toClose[u]
                    \/ /\ toClose'[u] = toClose[u]
                       /\ <<upc[u], upc'[u]>> \in {<<"wait", "close">>, <<"close", "delete">>}]_vars
    BY <1>1
  <1> QED
    BY <1>2, Invariance, PTL DEF Spec, UpdateAdvances

-----------------------------------------------------------------------------
(* One updating goroutine: polling off and no SIGHUP.  The delete-by-name   *)
(* of UpdateConfig then hits the entry it means, because no other update    *)
(* can have put a new managedDB under the name.                            *)

OneUpdater == \A u, v \in Updater : u = v

\* The entry of a cluster in toClose is the handle in toClose, or gone.
EntryToClose == \A u \in Updater : \A d \in toClose[u] : clusters[d[1]] \in {d[2], 0}

LEMMA InitOne == Init => EntryToClose /\ NoOrphan
  <1> SUFFICES ASSUME Init PROVE EntryToClose /\ NoOrphan
    OBVIOUS
  <1>1. EntryToClose
    BY DEF Init, EntryToClose
  <1>2. ASSUME NEW d \in Handle, d[2] <= made[d[1]] PROVE InMap(d)
    BY <1>2, PoolAssumption DEF Init, Handle, InMap
  <1> QED
    BY <1>1, <1>2 DEF NoOrphan

LEMMA EntryStep == OneUpdater /\ IInv /\ EntryToClose /\ [Next]_vars => EntryToClose'
  <1> SUFFICES ASSUME OneUpdater, IInv, EntryToClose, [Next]_vars,
                      NEW v \in Updater, NEW d \in toClose'[v]
               PROVE  clusters'[d[1]] \in {d[2], 0}
    BY DEF EntryToClose
  <1> USE DEF IInv
  <1>1. CASE clusters' = clusters /\ toClose' = toClose
    BY <1>1 DEF EntryToClose
  <1>2. CASE \E r \in Request : Get(r) \/ Finish(r)
    BY <1>1, <1>2 DEF Get, Lookup, CheckClosing, AddRef, Finish, mapVars, updVars
  <1>3. ASSUME NEW u \in Updater, NEW new \in ConfigsType, MarkAndAdd(u, new)
        PROVE  clusters'[d[1]] \in {d[2], 0}
    <2>1. d \in Retired(new)
      BY <1>3 DEF OneUpdater, MarkAndAdd, GoOn, TypeOK
    <2>2. d \in Handle /\ InMap(d)
      BY <2>1, RetiredInMap
    <2>3. d[1] \in Cluster /\ clusters[d[1]] # 0
      BY <2>2 DEF Handle, InMap
    <2>4. clusters'[d[1]] = clusters[d[1]]
      BY <1>3, <2>3 DEF MarkAndAdd, Added
    <2> QED
      BY <2>2, <2>4 DEF InMap
  <1>4. CASE \E u \in Updater : Wait(u) \/ CloseHandle(u)
    BY <1>1, <1>4 DEF Wait, Released, TimedOut, CloseHandle, mapVars
  <1>5. ASSUME NEW u \in Updater, DeleteEntry(u)
        PROVE  clusters'[d[1]] \in {d[2], 0}
    <2>1. toClose' = [toClose EXCEPT ![u] = toClose[u] \ {current[u]}]
      BY <1>5 DEF DeleteEntry, GoOn
    <2>2. d \in toClose[v] /\ d \in Handle
      BY <2>1 DEF TypeOK
    <2>3. d[1] \in Cluster /\ clusters[d[1]] \in {d[2], 0}
      BY <2>2 DEF EntryToClose, Handle
    <2>4. clusters'[d[1]] \in {clusters[d[1]], 0}
      BY <1>5, <2>3 DEF DeleteEntry, TypeOK
    <2> QED
      BY <2>3, <2>4
  <1>6. CASE Close
    <2>1. d \in Handle
      BY <1>6 DEF Close, TypeOK, updVars
    <2> QED
      BY <1>6, <2>1 DEF Close, Handle
  <1>7. CASE UNCHANGED vars
    BY <1>1, <1>7 DEF vars, mapVars, updVars
  <1> QED
    BY <1>2, <1>3, <1>4, <1>5, <1>6, <1>7 DEF Next

\* DeleteEntry removes nothing but the closed entry its updater is at.
LEMMA DeletesCurrent ==
    ASSUME IInv, EntryToClose, NEW u \in Updater, DeleteEntry(u), NEW n \in Cluster,
           clusters[n] # 0, clusters'[n] # clusters[n]
    PROVE  Mapped(n) = current[u]
  <1> USE DEF IInv
  <1>1. n = current[u][1]
    BY DEF DeleteEntry, TypeOK
  <1>2. current[u] \in toClose[u] /\ current[u] \in Handle
    BY DEF DeleteEntry, UpdaterOK, TypeOK
  <1>3. clusters[n] = current[u][2]
    BY <1>1, <1>2 DEF EntryToClose
  <1> QED
    BY <1>1, <1>2, <1>3 DEF Mapped, Handle

LEMMA OrphanStep == IInv /\ EntryToClose /\ NoOrphan /\ [Next]_vars => NoOrphan'
  <1> SUFFICES ASSUME IInv, EntryToClose, NoOrphan, [Next]_vars,
                      NEW d \in Handle, d[2] <= made'[d[1]], d \notin closed'
               PROVE  clusters'[d[1]] = d[2]
    BY DEF NoOrphan, InMap
  <1> USE DEF IInv
  <1>0. d[1] \in Cluster /\ d[2] \in 1..MaxGen
    BY DEF Handle
  <1>1. CASE clusters' = clusters /\ made' = made /\ closed \subseteq closed'
    BY <1>1 DEF NoOrphan, InMap
  <1>2. CASE \E r \in Request : Get(r) \/ Finish(r)
    BY <1>1, <1>2 DEF Get, Lookup, CheckClosing, AddRef, Finish, mapVars
  <1>3. ASSUME NEW u \in Updater, NEW new \in ConfigsType, MarkAndAdd(u, new)
        PROVE  clusters'[d[1]] = d[2]
    <2>1. CASE d[2] <= made[d[1]]
      <3>1. clusters[d[1]] = d[2]
        BY <1>3, <2>1 DEF MarkAndAdd, NoOrphan, InMap
      <3> QED
        BY <1>0, <1>3, <3>1, PoolAssumption DEF MarkAndAdd, Added
    <2>2. CASE ~(d[2] <= made[d[1]])
      <3>1. d[1] \in Added(new) /\ d[2] <= made[d[1]] + 1
        BY <1>0, <1>3, <2>2 DEF MarkAndAdd
      <3>2. made[d[1]] \in Nat /\ d[2] \in Nat
        BY <1>0, PoolAssumption DEF TypeOK
      <3>3. d[2] = made[d[1]] + 1
        BY <2>2, <3>1, <3>2
      <3> QED
        BY <1>0, <1>3, <3>1, <3>3 DEF MarkAndAdd
    <2> QED
      BY <2>1, <2>2
  <1>4. CASE \E u \in Updater : Wait(u) \/ CloseHandle(u)
    BY <1>1, <1>4 DEF Wait, Released, TimedOut, CloseHandle, mapVars
  <1>5. ASSUME NEW u \in Updater, DeleteEntry(u) PROVE clusters'[d[1]] = d[2]
    <2>1. clusters[d[1]] = d[2] /\ d \notin closed
      BY <1>5 DEF DeleteEntry, NoOrphan, InMap
    <2>2. Mapped(d[1]) = d /\ clusters[d[1]] # 0
      BY <1>0, <2>1 DEF Mapped, Handle
    <2>3. Mapped(d[1]) # current[u]
      BY <1>5, <2>1, <2>2 DEF DeleteEntry, UpdaterOK
    <2> QED
      BY <1>0, <1>5, <2>1, <2>2, <2>3, DeletesCurrent
  <1>6. CASE Close
    BY <1>6 DEF Close, NoOrphan, MappedHandles, InMap
  <1>7. CASE UNCHANGED vars
    BY <1>1, <1>7 DEF vars, mapVars
  <1> QED
    BY <1>2, <1>3, <1>4, <1>5, <1>6, <1>7 DEF Next

LEMMA InvarianceOne == OneUpdater /\ Spec => [](EntryToClose /\ NoOrphan)
  <1> SUFFICES ASSUME OneUpdater PROVE Spec => [](EntryToClose /\ NoOrphan)
    OBVIOUS
  <1>1. IInv /\ EntryToClose /\ NoOrphan /\ [Next]_vars => (EntryToClose /\ NoOrphan)'
    BY EntryStep, OrphanStep
  <1> QED
    BY <1>1, InitOne, Invariance, PTL DEF Spec

\* With one updating goroutine no open sql.DB is ever out of the map's reach.
THEOREM NothingStranded == OneUpdater /\ Spec => []NoOrphan
  BY InvarianceOne, PTL

LEMMA ServedStep ==
    ASSUME IInv, EntryToClose, [Next]_vars, NEW n \in Cluster,
           clusters[n] # 0, Mapped(n) \notin closing, ~shut'
    PROVE  clusters'[n] = clusters[n]
  <1>1. CASE \E r \in Request : Get(r) \/ Finish(r)
    BY <1>1 DEF Get, Lookup, CheckClosing, AddRef, Finish, mapVars
  <1>2. ASSUME NEW u \in Updater, NEW new \in ConfigsType, MarkAndAdd(u, new)
        PROVE  clusters'[n] = clusters[n]
    BY <1>2 DEF MarkAndAdd, Added
  <1>3. CASE \E u \in Updater : Wait(u) \/ CloseHandle(u)
    BY <1>3 DEF Wait, Released, TimedOut, CloseHandle, mapVars
  <1>4. ASSUME NEW u \in Updater, DeleteEntry(u) PROVE clusters'[n] = clusters[n]
    <2>1. current[u] \in closing
      BY <1>4 DEF DeleteEntry, IInv, UpdaterOK
    <2> QED
      BY <1>4, <2>1, DeletesCurrent
  <1>5. CASE Close
    BY <1>5 DEF Close
  <1>6. CASE UNCHANGED vars
    BY <1>6 DEF vars, mapVars
  <1> QED
    BY <1>1, <1>2, <1>3, <1>4, <1>5, <1>6 DEF Next

\* With one updating goroutine an unmarked entry keeps its place in the map
\* until the pool is closed.
THEOREM ServiceUninterrupted == OneUpdater /\ Spec => ServedUntilMarked
  <1> SUFFICES ASSUME OneUpdater PROVE Spec => ServedUntilMarked
    OBVIOUS
  <1>1. IInv /\ EntryToClose /\ [Next]_vars
          => [\A n \in Cluster : clusters[n] # 0 /\ Mapped(n) \notin closing /\ ~shut'
                                   => clusters'[n] = clusters[n]]_vars
    BY ServedStep
  <1> QED
    BY <1>1, Invariance, InvarianceOne, PTL DEF Spec, ServedUntilMarked
=============================================================================
