--------------------------- MODULE PoolRefinement ---------------------------
(***************************************************************************)
(* Pool implements HandleService, for any number of updating goroutines:   *)
(* initial states map to initial states and every step of the pool to a    *)
(* step of the service or to a stutter.                                    *)
(***************************************************************************)
EXTENDS PoolProofs

\* Only handles that were made are in use, marked or closed, and without
\* Pool.Close only marked handles are closed.
MadeOK ==
    /\ \A n \in Cluster : clusters[n] <= made[n]
    /\ \A r \in Request : rpc[r] \in {"found", "checked", "using"} => held[r][2] <= made[held[r][1]]
    /\ \A d \in closing \cup closed : d[2] <= made[d[1]]
    /\ shut \/ closed \subseteq closing

phaseBar == [d \in Handle |-> Phase(d)]
admittedBar == [r \in Request |-> Admitted(r)]

-----------------------------------------------------------------------------
LEMMA HandleParts ==
    ASSUME NEW d \in Handle
    PROVE  d[1] \in Cluster /\ d[2] \in 1..MaxGen /\ d = <<d[1], d[2]>>
  BY DEF Handle

LEMMA MadeInit == Init => MadeOK
  <1> SUFFICES ASSUME Init PROVE MadeOK
    OBVIOUS
  <1>1. \A n \in Cluster : clusters[n] <= made[n]
    BY DEF Init
  <1> QED
    BY <1>1 DEF Init, MadeOK

LEMMA MadeStep == IInv /\ MadeOK /\ [Next]_vars => MadeOK'
  <1> SUFFICES ASSUME IInv, MadeOK, [Next]_vars PROVE MadeOK'
    OBVIOUS
  <1> USE DEF IInv
  <1>1. ASSUME NEW r \in Request, NEW n \in Cluster, Lookup(r, n) PROVE MadeOK'
    BY <1>1 DEF Lookup, MadeOK, TypeOK, Mapped, mapVars
  <1>2. ASSUME NEW r \in Request, CheckClosing(r) \/ AddRef(r) \/ Finish(r) PROVE MadeOK'
    BY <1>2 DEF CheckClosing, AddRef, Finish, MadeOK, TypeOK, mapVars
  <1>3. ASSUME NEW u \in Updater, NEW new \in ConfigsType, MarkAndAdd(u, new) PROVE MadeOK'
    <2>1. \A n \in Cluster : made[n] \in Nat /\ made'[n] \in Nat /\ made[n] <= made'[n]
      BY <1>3, PoolAssumption DEF MarkAndAdd, TypeOK, Added
    <2>2. \A n \in Cluster : clusters'[n] <= made'[n]
      BY <1>3, <2>1 DEF MarkAndAdd, MadeOK, TypeOK
    <2>3. \A d \in Handle : d[2] <= made[d[1]] => d[2] <= made'[d[1]]
      BY <2>1, HandleParts, PoolAssumption
    <2>4. \A d \in Retired(new) : d \in Handle /\ d[2] <= made[d[1]]
      BY RetiredInMap, HandleParts DEF InMap, MadeOK
    <2>5. \A d \in closing' \cup closed' : d[2] <= made'[d[1]]
      BY <1>3, <2>3, <2>4 DEF MarkAndAdd, MadeOK, TypeOK
    <2>6. \A r \in Request : rpc'[r] \in {"found", "checked", "using"} => held'[r][2] <= made'[held'[r][1]]
      BY <1>3, <2>3 DEF MarkAndAdd, MadeOK, HeldOK, reqVars
    <2> QED
      BY <1>3, <2>2, <2>5, <2>6 DEF MarkAndAdd, MadeOK
  <1>4. ASSUME NEW u \in Updater, Wait(u) PROVE MadeOK'
    BY <1>4 DEF Wait, Released, TimedOut, MadeOK, mapVars, reqVars
  <1>5. ASSUME NEW u \in Updater, CloseHandle(u) PROVE MadeOK'
    <2>1. current[u] \in closing
      BY <1>5 DEF CloseHandle, UpdaterOK
    <2> QED
      BY <1>5, <2>1 DEF CloseHandle, MadeOK, mapVars, reqVars
  <1>6. ASSUME NEW u \in Updater, DeleteEntry(u) PROVE MadeOK'
    <2>1. \A n \in Cluster : clusters'[n] <= made[n]
      BY <1>6 DEF DeleteEntry, MadeOK, TypeOK
    <2> QED
      BY <1>6, <2>1 DEF DeleteEntry, MadeOK, reqVars
  <1>7. ASSUME Close PROVE MadeOK'
    <2>1. \A d \in MappedHandles : d[2] <= made[d[1]]
      BY HandleParts DEF MappedHandles, InMap, MadeOK
    <2>2. \A n \in Cluster : clusters'[n] <= made[n]
      BY <1>7 DEF Close, TypeOK
    <2> QED
      BY <1>7, <2>1, <2>2 DEF Close, MadeOK, reqVars
  <1>8. ASSUME UNCHANGED vars PROVE MadeOK'
    BY <1>8 DEF MadeOK, vars, mapVars, reqVars
  <1> QED
    BY <1>1, <1>2, <1>3, <1>4, <1>5, <1>6, <1>7, <1>8 DEF Next, Get

-----------------------------------------------------------------------------
LEMMA InitMaps == Init => Service!Init
  <1> SUFFICES ASSUME Init PROVE Service!Init
    OBVIOUS
  <1>1. \A d \in Handle : Phase(d) \in {"unmade", "open"}
    BY DEF Init, Phase
  <1>2. \A r \in Request : Admitted(r) = NoHandle
    BY DEF Init, Admitted
  <1> QED
    BY <1>1, <1>2 DEF Init, Service!Init

\* A step that leaves the mapped state alone.
LEMMA Stutter ==
    ASSUME \A d \in Handle : Phase(d)' = Phase(d),
           \A r \in Request : Admitted(r)' = Admitted(r),
           shut' = shut
    PROVE  UNCHANGED Service!vars
  BY DEF Service!vars

LEMMA RequestMaps ==
    ASSUME IInv, MadeOK, NEW r \in Request, Get(r) \/ Finish(r)
    PROVE  Service!Next \/ UNCHANGED Service!vars
  <1> USE DEF IInv
  <1>1. (\A d \in Handle : Phase(d)' = Phase(d)) /\ shut' = shut
    BY DEF Get, Lookup, CheckClosing, AddRef, Finish, mapVars, Phase
  <1>2. CASE (\E n \in Cluster : Lookup(r, n)) \/ AddRef(r)
    <2>1. \A q \in Request : Admitted(q)' = Admitted(q)
      BY <1>2 DEF Lookup, AddRef, Admitted, TypeOK
    <2> QED
      BY <1>1, <2>1, Stutter
  <1>3. CASE CheckClosing(r) /\ held[r] \in closing
    <2>1. \A q \in Request : Admitted(q)' = Admitted(q)
      BY <1>3 DEF CheckClosing, Admitted, TypeOK
    <2> QED
      BY <1>1, <2>1, Stutter
  <1>4. CASE CheckClosing(r) /\ held[r] \notin closing
    <2>1. held[r] \in Handle /\ held[r][2] <= made[held[r][1]]
      BY <1>4 DEF CheckClosing, HeldOK, MadeOK
    <2>2. Phase(held[r]) = "open" \/ (shut /\ Phase(held[r]) = "closed")
      BY <1>4, <2>1 DEF Phase, MadeOK
    <2>3. Admitted(r) = NoHandle
      BY <1>4 DEF CheckClosing, Admitted
    <2>4. \A q \in Request : Admitted(q)' = IF q = r THEN held[r] ELSE Admitted(q)
      BY <1>4 DEF CheckClosing, Admitted, TypeOK
    <2>5. admittedBar' = [admittedBar EXCEPT ![r] = held[r]]
      BY <2>4 DEF admittedBar
    <2>6. Service!Admit(r, held[r])
      BY <1>1, <2>1, <2>2, <2>3, <2>5 DEF Service!Admit, admittedBar
    <2> QED
      BY <2>1, <2>6 DEF Service!Next
  <1>5. CASE Finish(r)
    <2>1. \A q \in Request : Admitted(q)' = IF q = r THEN NoHandle ELSE Admitted(q)
      BY <1>5 DEF Finish, Admitted, TypeOK
    <2>2. admittedBar' = [admittedBar EXCEPT ![r] = NoHandle]
      BY <2>1 DEF admittedBar
    <2>3. Service!Leave(r)
      BY <1>1, <2>2 DEF Service!Leave, admittedBar
    <2> QED
      BY <2>3 DEF Service!Next
  <1> QED
    BY <1>2, <1>3, <1>4, <1>5 DEF Get

LEMMA ReconfigureMaps ==
    ASSUME IInv, MadeOK, NEW u \in Updater, NEW new \in ConfigsType, MarkAndAdd(u, new)
    PROVE  Service!Next
  <1> USE DEF IInv
  <1> DEFINE opened == {d \in Handle : d[1] \in Added(new) /\ d[2] = made[d[1]] + 1}
  <1>1. Retired(new) \subseteq Handle /\ opened \subseteq Handle
    BY RetiredInMap
  <1>2. \A n \in Cluster : made[n] \in Nat
    BY PoolAssumption DEF TypeOK
  <1>3. \A d \in opened : Phase(d) = "unmade"
    <2> SUFFICES ASSUME NEW d \in opened PROVE Phase(d) = "unmade"
      OBVIOUS
    <2>1. d[1] \in Cluster /\ ~(d[2] <= made[d[1]])
      BY <1>2, HandleParts
    <2> QED
      BY <2>1 DEF Phase, MadeOK
  <1>4. \A d \in Retired(new) : Phase(d) # "unmade"
    BY RetiredInMap, HandleParts DEF Phase, MadeOK, InMap
  <1>5. \A d \in Handle : Phase(d)' = IF d \in opened THEN "open"
                                       ELSE IF d \in Retired(new) /\ Phase(d) = "open" THEN "draining"
                                       ELSE Phase(d)
    <2> SUFFICES ASSUME NEW d \in Handle
                 PROVE  Phase(d)' = IF d \in opened THEN "open"
                                    ELSE IF d \in Retired(new) /\ Phase(d) = "open" THEN "draining"
                                    ELSE Phase(d)
      OBVIOUS
    <2>1. closed' = closed /\ closing' = closing \cup Retired(new)
      BY DEF MarkAndAdd
    <2>2. d[1] \in Cluster /\ d[2] \in Nat /\ made[d[1]] \in Nat
      BY <1>2, HandleParts, PoolAssumption
    <2>3. CASE d \in opened
      <3>1. d \notin closed /\ d \notin closing' /\ made'[d[1]] = d[2]
        BY <1>3, <1>4, <2>1, <2>2, <2>3 DEF MarkAndAdd, Phase
      <3> QED
        BY <2>1, <2>2, <2>3, <3>1 DEF Phase
    <2>4. CASE d \notin opened
      <3>1. d[2] <= made'[d[1]] <=> d[2] <= made[d[1]]
        BY <2>2, <2>4 DEF MarkAndAdd
      <3> QED
        BY <1>4, <2>1, <2>4, <3>1 DEF Phase
    <2> QED
      BY <2>3, <2>4
  <1>6. (\A r \in Request : Admitted(r)' = Admitted(r)) /\ shut' = shut
    BY DEF MarkAndAdd, Admitted, reqVars
  <1>7. Service!Reconfigure(opened, Retired(new))
    BY <1>1, <1>3, <1>4, <1>5, <1>6 DEF Service!Reconfigure
  <1> QED
    BY <1>1, <1>7 DEF Service!Next

LEMMA UpdaterMaps ==
    ASSUME IInv, MadeOK, NEW u \in Updater, Wait(u) \/ CloseHandle(u) \/ DeleteEntry(u)
    PROVE  Service!Next \/ UNCHANGED Service!vars
  <1> USE DEF IInv
  <1>1. (\A r \in Request : Admitted(r)' = Admitted(r)) /\ shut' = shut
    BY DEF Wait, Released, TimedOut, CloseHandle, DeleteEntry, Admitted, mapVars, reqVars
  <1>2. CASE Wait(u) \/ DeleteEntry(u)
    <2>1. \A d \in Handle : Phase(d)' = Phase(d)
      BY <1>2 DEF Wait, Released, TimedOut, DeleteEntry, Phase, mapVars
    <2> QED
      BY <1>1, <2>1, Stutter
  <1>3. CASE CloseHandle(u)
    <2>1. current[u] \in closing /\ current[u] \in Handle
      BY <1>3 DEF CloseHandle, UpdaterOK, TypeOK
    <2>2. \A d \in Handle : Phase(d)' = IF d = current[u] THEN "closed" ELSE Phase(d)
      BY <1>3 DEF CloseHandle, Phase, mapVars
    <2>3. CASE current[u] \in closed
      <3>1. \A d \in Handle : Phase(d)' = Phase(d)
        BY <2>2, <2>3 DEF Phase
      <3> QED
        BY <1>1, <3>1, Stutter
    <2>4. CASE current[u] \notin closed
      <3>1. Phase(current[u]) = "draining"
        BY <2>1, <2>4 DEF Phase
      <3>2. phaseBar' = [phaseBar EXCEPT ![current[u]] = "closed"]
        BY <2>2 DEF phaseBar
      <3>3. Service!CloseDrained(current[u])
        BY <1>1, <2>1, <3>1, <3>2 DEF Service!CloseDrained, phaseBar
      <3> QED
        BY <2>1, <3>3 DEF Service!Next
    <2> QED
      BY <2>3, <2>4
  <1> QED
    BY <1>2, <1>3

LEMMA CloseMaps ==
    ASSUME IInv, MadeOK, Close
    PROVE  Service!Next
  <1>1. MappedHandles \subseteq Handle
    BY DEF MappedHandles
  <1>2. \A d \in MappedHandles : Phase(d) # "unmade"
    BY HandleParts DEF MappedHandles, InMap, MadeOK, Phase
  <1>3. \A d \in Handle : Phase(d)' = IF d \in MappedHandles THEN "closed" ELSE Phase(d)
    BY DEF Close, Phase
  <1>4. (\A r \in Request : Admitted(r)' = Admitted(r)) /\ ~shut /\ shut' = TRUE
    BY DEF Close, Admitted, reqVars
  <1>5. Service!Stop(MappedHandles)
    BY <1>1, <1>2, <1>3, <1>4 DEF Service!Stop
  <1> QED
    BY <1>1, <1>5 DEF Service!Next

LEMMA StepMaps == IInv /\ MadeOK /\ [Next]_vars => [Service!Next]_(Service!vars)
  <1> SUFFICES ASSUME IInv, MadeOK, [Next]_vars
               PROVE  Service!Next \/ UNCHANGED Service!vars
    OBVIOUS
  <1>1. CASE UNCHANGED vars
    <2>1. /\ \A d \in Handle : Phase(d)' = Phase(d)
          /\ \A r \in Request : Admitted(r)' = Admitted(r)
          /\ shut' = shut
      BY <1>1 DEF vars, mapVars, reqVars, Phase, Admitted
    <2> QED
      BY <2>1, Stutter
  <1> QED
    BY <1>1, RequestMaps, ReconfigureMaps, UpdaterMaps, CloseMaps DEF Next

-----------------------------------------------------------------------------
\* However many goroutines update the pool while requests come and go, a
\* handle goes from open to draining to closed, requests are admitted to open
\* handles only, and nothing but Pool.Close closes a handle that is not
\* draining.
THEOREM PoolImplementsService == Spec => ImplementsService
  <1>1. Spec => []MadeOK
    BY MadeInit, MadeStep, Invariance, PTL DEF Spec
  <1> QED
    BY <1>1, InitMaps, StepMaps, Invariance, PTL DEF Spec, ImplementsService, Service!Spec
=============================================================================
