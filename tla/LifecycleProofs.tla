-------------------------- MODULE LifecycleProofs ---------------------------
(***************************************************************************)
(* Proofs about Lifecycle for any number of requests, clusters, reloading  *)
(* goroutines and audit writers.  Every step is one of Pool's, so what     *)
(* PoolProofs says of the pool holds until the end of the process; the     *)
(* rest is the order in which Shutdown takes the server apart.             *)
(***************************************************************************)
EXTENDS Lifecycle, PoolRefinement

-----------------------------------------------------------------------------
(* The pool under its server.                                              *)

LEMMA StepIsPoolStep == [LifeNext]_allVars => [Next]_vars
  <1> SUFFICES ASSUME [LifeNext]_allVars PROVE [Next]_vars
    OBVIOUS
  <1>1. CASE Main
    <2>1. CASE ClosePool
      BY <2>1 DEF ClosePool, Next
    <2>2. CASE StartWatcher \/ Quit \/ ShutdownHttp \/ AwaitRequests \/ CheckWriter
                 \/ CloseWriter \/ StopWatcher
      BY <2>2 DEF StartWatcher, Quit, ShutdownHttp, AwaitRequests, Drained, Overdue,
                  CheckWriter, CloseWriter, StopWatcher
    <2> QED
      BY <1>1, <2>1, <2>2 DEF Main
  <1>2. CASE Start \/ ListenAndServe \/ Signal
    BY <1>2 DEF Start, ListenAndServe, Signal
  <1>3. ASSUME NEW r \in Request, Serve(r) PROVE [Next]_vars
    <2>1. CASE Accept(r) \/ Limit(r) \/ Authenticate(r) \/ Log(r)
      BY <2>1 DEF Accept, Limit, Authenticate, Log
    <2>2. CASE UsePool(r) \/ EndTool(r)
      BY <2>2 DEF UsePool, EndTool, Next
    <2> QED
      BY <1>3, <2>1, <2>2 DEF Serve
  <1>4. ASSUME NEW u \in Updater, Update(u) PROVE [Next]_vars
    <2>1. CASE Reload(u)
      BY <2>1 DEF Reload
    <2>2. CASE UpdateAudit(u)
      BY <2>2 DEF UpdateAudit, DisableAudit, DropWriter, EnableAudit, KeepAudit, AfterPool
    <2>3. CASE (\E new \in ConfigsType : UpdatePool(u, new)) \/ Drain(u)
      BY <2>3 DEF UpdatePool, Drain, Next
    <2> QED
      BY <1>4, <2>1, <2>2, <2>3 DEF Update
  <1>5. CASE UNCHANGED allVars
    BY <1>5 DEF allVars
  <1> QED
    BY <1>1, <1>2, <1>3, <1>4, <1>5 DEF LifeNext

\* Whatever server and main do, the pool they use is the one of Pool.
THEOREM LifecycleUsesPool == LifeSpec => Spec
  <1>1. LifeInit => Init
    BY DEF LifeInit
  <1> QED
    BY <1>1, StepIsPoolStep, PTL DEF LifeSpec, Spec

\* The pool keeps the promises of HandleService until the process ends,
\* through reloads, requests and a Shutdown that come in any order.
THEOREM ServiceToTheEnd == LifeSpec => ImplementsService
  BY LifecycleUsesPool, PoolImplementsService

\* With one reloading goroutine no open handle is out of the map's reach,
\* until the process ends.
THEOREM NothingStrandedToTheEnd == OneUpdater /\ LifeSpec => []NoOrphan
  BY LifecycleUsesPool, NothingStranded

\* With one reloading goroutine an entry no reload marked is served until
\* Shutdown closes the pool.
THEOREM ServedToTheEnd == OneUpdater /\ LifeSpec => ServedUntilMarked
  BY LifecycleUsesPool, ServiceUninterrupted

-----------------------------------------------------------------------------
(* The inductive invariant of the server's own state.                      *)

Closing == {"pool", "audit", "auditClose", "stop", "exit", "crashed"}

\* Once Shutdown knows the server nothing listens, and no request is left
\* behind unless its time was over.
StopOK ==
    /\ stopping => srv \in {"set", "failed", "closed"} /\ main \in Closing \cup {"wait"}
    /\ main = "wait" => stopping
    /\ overdue => stopping /\ main \in Closing
    /\ main \in Closing /\ stopping /\ ~overdue => \A r \in Request : ~InFlight(r)
    /\ shut <=> main \in Closing \ {"pool"}

\* What Logger.Close saw, and what it leaves.
CloseOK ==
    /\ main = "auditClose" => writer # 0 \/ dropped
    /\ main \in {"stop", "exit"} /\ stopping /\ ~overdue => files \subseteq replaced

\* The handles in the map of a closed pool came after it was closed.
LateOK == shut => \A d \in Handle : InMap(d) => d \in late

LifeInv ==
    LifeTypeOK /\ StopOK /\ AuditWritable /\ CrashNeedsReload /\ CloseOK /\ LateOK

LEMMA InitLifeInv == LifeInit => LifeInv
  <1> SUFFICES ASSUME LifeInit PROVE LifeInv
    OBVIOUS
  <1>1. LifeTypeOK
    <2>1. {quit, watching, stopping, overdue, enabled, dropped} \subseteq BOOLEAN
      BY Zenon DEF LifeInit
    <2>2. {writer, writers} \subseteq 0..MaxWriter
      BY LifecycleAssumption DEF LifeInit
    <2> QED
      BY <2>1, <2>2 DEF LifeInit, LifeTypeOK
  <1>2. StopOK /\ CrashNeedsReload /\ CloseOK /\ LateOK
    BY DEF LifeInit, Init, StopOK, Closing, CrashNeedsReload, CloseOK, LateOK
  <1>3. AuditWritable
    BY DEF LifeInit, AuditWritable
  <1> QED
    BY <1>1, <1>2, <1>3 DEF LifeInv

LEMMA LateTyped ==
    ASSUME LifeTypeOK, TypeOK, NEW u \in Updater, NEW new \in ConfigsType, UpdatePool(u, new)
    PROVE  late' \subseteq Handle
  <1>1. \A n \in Added(new) : n \in Cluster /\ made[n] < MaxGen
    BY DEF UpdatePool, MarkAndAdd, Added
  <1>2. \A n \in Added(new) : made[n] + 1 \in 1..MaxGen
    BY <1>1, PoolAssumption DEF TypeOK
  <1>3. {<<n, made[n] + 1>> : n \in Added(new)} \subseteq Handle
    BY <1>1, <1>2 DEF Handle
  <1> QED
    BY <1>3 DEF UpdatePool, LifeTypeOK

LEMMA LifeTypeStep == TypeOK /\ LifeInv /\ [LifeNext]_allVars => LifeTypeOK'
  <1> SUFFICES ASSUME TypeOK, LifeInv, [LifeNext]_allVars PROVE LifeTypeOK'
    OBVIOUS
  <1> USE DEF LifeInv
  <1>1. CASE Main
    <2>1. {quit, watching, stopping, overdue, enabled, dropped}' \subseteq BOOLEAN
      BY <1>1, Zenon DEF Main, StartWatcher, Quit, ShutdownHttp, AwaitRequests, Drained,
              Overdue, ClosePool, CheckWriter, CloseWriter, StopWatcher, LifeTypeOK,
              serverVars, auditVars, history
    <2>2. CASE StartWatcher \/ Quit \/ ShutdownHttp \/ AwaitRequests
      BY <2>1, <2>2 DEF StartWatcher, Quit, ShutdownHttp, AwaitRequests, Drained, Overdue,
                        GoMain, LifeTypeOK, serverVars, auditVars, history
    <2>3. CASE ClosePool \/ CheckWriter \/ CloseWriter \/ StopWatcher
      BY <2>1, <2>3 DEF ClosePool, CheckWriter, CloseWriter, StopWatcher,
                        GoMain, LifeTypeOK, serverVars, auditVars, history
    <2> QED
      BY <1>1, <2>2, <2>3 DEF Main
  <1>2. CASE Start \/ ListenAndServe \/ Signal
    <2>1. {quit, watching, stopping, overdue, enabled, dropped}' \subseteq BOOLEAN
      BY <1>2, Zenon DEF Start, ListenAndServe, Signal, LifeTypeOK, auditVars, history
    <2> QED
      BY <1>2, <2>1 DEF Start, ListenAndServe, Signal, LifeTypeOK, auditVars, history
  <1>3. ASSUME NEW r \in Request, Serve(r) PROVE LifeTypeOK'
    <2>1. CASE Accept(r) \/ Limit(r) \/ Authenticate(r) \/ UsePool(r) \/ EndTool(r)
      BY <2>1 DEF Accept, Limit, Authenticate, UsePool, EndTool, GoReq, LifeTypeOK,
                  serverVars, auditVars, history
    <2>2. CASE Log(r)
      <3>0. writer \in 0..MaxWriter /\ files \subseteq 1..MaxWriter /\ MaxWriter \in Nat
        BY LifecycleAssumption DEF LifeTypeOK
      <3>1. files' \subseteq 1..MaxWriter
        <4>1. CASE enabled
          <5>1. writer \in 1..MaxWriter
            BY <3>0, <4>1 DEF AuditWritable
          <5> QED
            BY <2>2, <3>0, <4>1, <5>1 DEF Log
        <4>2. CASE ~enabled
          BY <2>2, <3>0, <4>2 DEF Log
        <4> QED
          BY <4>1, <4>2
      <3> QED
        BY <2>2, <3>1 DEF Log, GoReq, LifeTypeOK, serverVars, history
    <2> QED
      BY <1>3, <2>1, <2>2 DEF Serve
  <1>4. ASSUME NEW u \in Updater, Update(u) PROVE LifeTypeOK'
    <2>1. CASE Reload(u) \/ Drain(u)
      BY <2>1 DEF Reload, Drain, LifeTypeOK, lifeVars, serverVars, auditVars, history
    <2>2. ASSUME NEW new \in ConfigsType, UpdatePool(u, new) PROVE LifeTypeOK'
      BY <2>2, LateTyped DEF UpdatePool, LifeTypeOK, serverVars, auditVars
    <2>3. CASE UpdateAudit(u)
      <3>1. {quit, watching, stopping, overdue, enabled, dropped}' \subseteq BOOLEAN
        BY <2>3, Zenon DEF UpdateAudit, DisableAudit, DropWriter, EnableAudit, KeepAudit,
                AfterPool, LifeTypeOK, serverVars, auditVars
      <3>2. reload' \in [Updater -> {"idle", "pool", "audit"}]
        BY <2>3 DEF UpdateAudit, DisableAudit, DropWriter, EnableAudit, KeepAudit, AfterPool,
                    LifeTypeOK
      <3>3. /\ {writer, writers}' \subseteq 0..MaxWriter
            /\ files' \subseteq 1..MaxWriter /\ replaced' \subseteq 1..MaxWriter
        <4>0. /\ MaxWriter \in Nat /\ writer \in 0..MaxWriter /\ writers \in 0..MaxWriter
              /\ files \subseteq 1..MaxWriter /\ replaced \subseteq 1..MaxWriter
          BY LifecycleAssumption DEF LifeTypeOK
        <4>1. CASE DisableAudit(u)
          BY <4>0, <4>1 DEF DisableAudit, DropWriter
        <4>2. CASE EnableAudit(u)
          <5>1. writers + 1 \in 0..MaxWriter /\ {writer} \ {0} \subseteq 1..MaxWriter
            BY <4>0, <4>2 DEF EnableAudit
          <5> QED
            BY <4>0, <4>2, <5>1 DEF EnableAudit
        <4>3. CASE KeepAudit(u)
          BY <4>0, <4>3 DEF KeepAudit, auditVars
        <4> QED
          BY <2>3, <4>1, <4>2, <4>3 DEF UpdateAudit
      <3> QED
        BY <2>3, <3>1, <3>2, <3>3 DEF UpdateAudit, DisableAudit, DropWriter, EnableAudit,
                 KeepAudit, AfterPool, LifeTypeOK, serverVars
    <2> QED
      BY <1>4, <2>1, <2>2, <2>3 DEF Update
  <1>5. CASE UNCHANGED allVars
    BY <1>5 DEF LifeTypeOK, allVars, lifeVars, serverVars, auditVars, history
  <1> QED
    BY <1>1, <1>2, <1>3, <1>4, <1>5 DEF LifeNext

LEMMA StopStep == LifeInv /\ [LifeNext]_allVars => StopOK'
  <1> SUFFICES ASSUME LifeInv, [LifeNext]_allVars PROVE StopOK'
    OBVIOUS
  <1> USE DEF LifeInv, StopOK, Closing, InFlight
  <1>1. CASE Main
    <2>1. CASE StartWatcher \/ Quit
      BY <2>1 DEF StartWatcher, Quit, GoMain, vars, mapVars, serverVars
    <2>4. CASE ShutdownHttp
      <3>1. main = "http" /\ ~shut /\ ~shut' /\ ~stopping
        BY <2>4 DEF ShutdownHttp, GoMain, vars, mapVars
      <3>2. CASE srv = "unset"
        BY <2>4, <3>1, <3>2 DEF ShutdownHttp, GoMain
      <3>3. CASE srv # "unset"
        BY <2>4, <3>1, <3>3 DEF ShutdownHttp, GoMain, LifeTypeOK
      <3> QED
        BY <3>2, <3>3
    <2>2. CASE AwaitRequests
      BY <2>2 DEF AwaitRequests, Drained, Overdue, GoMain, vars, mapVars, serverVars
    <2>3. CASE ClosePool \/ CheckWriter \/ CloseWriter \/ StopWatcher
      BY <2>3 DEF ClosePool, CheckWriter, CloseWriter, StopWatcher, Close, GoMain, vars, mapVars,
                  serverVars
    <2> QED
      BY <1>1, <2>1, <2>2, <2>3, <2>4 DEF Main
  <1>2. CASE Start \/ ListenAndServe \/ Signal
    BY <1>2 DEF Start, ListenAndServe, Signal, vars, mapVars
  <1>3. ASSUME NEW r \in Request, Serve(r) PROVE StopOK'
    <2>1. UNCHANGED <<main, serverVars, shut>>
      BY <1>3 DEF Serve, Accept, Limit, Authenticate, UsePool, EndTool, Log, Get, Lookup,
                  CheckClosing, AddRef, Finish, vars, mapVars
    <2>2. \A q \in Request : InFlight(q)' => InFlight(q) \/ srv = "listening"
      BY <1>3 DEF Serve, Accept, Limit, Authenticate, UsePool, EndTool, Log, GoReq, LifeTypeOK
    <2> QED
      BY <2>1, <2>2 DEF serverVars
  <1>4. ASSUME NEW u \in Updater, Update(u) PROVE StopOK'
    BY <1>4 DEF Update, Reload, UpdatePool, MarkAndAdd, Drain, Wait, Released, TimedOut,
                CloseHandle, DeleteEntry, UpdateAudit, DisableAudit, DropWriter, EnableAudit,
                KeepAudit, AfterPool, lifeVars, serverVars, vars, mapVars
  <1>5. CASE UNCHANGED allVars
    BY <1>5 DEF allVars, vars, mapVars, lifeVars, serverVars
  <1> QED
    BY <1>1, <1>2, <1>3, <1>4, <1>5 DEF LifeNext

\* Most steps leave the audit logger alone.
LEMMA AuditFrame ==
    ASSUME [LifeNext]_allVars
    PROVE  \/ UNCHANGED <<auditVars, dropped>>
           \/ CloseWriter
           \/ \E r \in Request : Log(r)
           \/ \E u \in Updater : UpdateAudit(u)
  <1>1. CASE Main
    BY <1>1 DEF Main, StartWatcher, Quit, ShutdownHttp, AwaitRequests, Drained, Overdue,
                ClosePool, CheckWriter, StopWatcher, history
  <1>2. CASE Start \/ ListenAndServe \/ Signal
    BY <1>2 DEF Start, ListenAndServe, Signal, history
  <1>3. CASE \E r \in Request : Serve(r)
    BY <1>3 DEF Serve, Accept, Limit, Authenticate, UsePool, EndTool, history
  <1>4. CASE \E u \in Updater : Update(u)
    BY <1>4 DEF Update, Reload, UpdatePool, Drain, lifeVars, history
  <1>5. CASE UNCHANGED allVars
    BY <1>5 DEF allVars, lifeVars, history
  <1> QED
    BY <1>1, <1>2, <1>3, <1>4, <1>5 DEF LifeNext

LEMMA WritableStep == LifeInv /\ [LifeNext]_allVars => AuditWritable'
  <1> SUFFICES ASSUME LifeInv, [LifeNext]_allVars PROVE AuditWritable'
    OBVIOUS
  <1>0. LifeTypeOK /\ AuditWritable
    BY DEF LifeInv
  <1>1. CASE UNCHANGED <<auditVars, dropped>>
    BY <1>0, <1>1 DEF auditVars, AuditWritable
  <1>2. CASE CloseWriter
    BY <1>0, <1>2 DEF CloseWriter, AuditWritable
  <1>3. ASSUME NEW r \in Request, Log(r) PROVE AuditWritable'
    BY <1>0, <1>3 DEF Log, AuditWritable
  <1>4. ASSUME NEW u \in Updater, DisableAudit(u) PROVE AuditWritable'
    BY <1>0, <1>4 DEF DisableAudit, DropWriter, AuditWritable
  <1>5. ASSUME NEW u \in Updater, EnableAudit(u) PROVE AuditWritable'
    <2>1. writers \in Nat /\ 0 \notin files
      BY <1>0, LifecycleAssumption DEF LifeTypeOK
    <2>2. writer' # 0
      BY <1>5, <2>1 DEF EnableAudit
    <2>3. files' \subseteq replaced'
      BY <1>0, <1>5, <2>1 DEF EnableAudit, AuditWritable
    <2> QED
      BY <2>2, <2>3 DEF AuditWritable
  <1>6. ASSUME NEW u \in Updater, KeepAudit(u) PROVE AuditWritable'
    BY <1>1, <1>6 DEF KeepAudit
  <1> QED
    BY <1>1, <1>2, <1>3, <1>4, <1>5, <1>6, AuditFrame DEF UpdateAudit

\* A writer that Logger.Close saw is gone at its second look only by DropWriter.
LEMMA CrashStep ==
    LifeInv /\ [LifeNext]_allVars => (main' = "auditClose" => writer' # 0 \/ dropped')
                                  /\ CrashNeedsReload'
  <1> SUFFICES ASSUME LifeInv, [LifeNext]_allVars
               PROVE  (main' = "auditClose" => writer' # 0 \/ dropped') /\ CrashNeedsReload'
    OBVIOUS
  <1>0. /\ main = "auditClose" => writer # 0 \/ dropped
        /\ main = "crashed" => dropped
        /\ LifeTypeOK
    BY DEF LifeInv, CloseOK, CrashNeedsReload
  <1>1. CASE main' = main /\ UNCHANGED <<auditVars, dropped>>
    BY <1>0, <1>1 DEF auditVars, CrashNeedsReload
  <1>2. CASE Main
    BY <1>0, <1>2 DEF Main, StartWatcher, Quit, ShutdownHttp, AwaitRequests, Drained, Overdue,
                 ClosePool, CheckWriter, CloseWriter, StopWatcher, GoMain, CrashNeedsReload,
                 auditVars, history
  <1>3. CASE Start \/ ListenAndServe \/ Signal
    BY <1>1, <1>3 DEF Start, ListenAndServe, Signal, history
  <1>4. CASE \E r \in Request : Serve(r)
    BY <1>0, <1>4 DEF Serve, Accept, Limit, Authenticate, UsePool, EndTool, Log, auditVars,
                 serverVars, history, CrashNeedsReload
  <1>5. ASSUME NEW u \in Updater, Update(u)
        PROVE  (main' = "auditClose" => writer' # 0 \/ dropped') /\ CrashNeedsReload'
    <2>1. CASE Reload(u) \/ (\E new \in ConfigsType : UpdatePool(u, new)) \/ Drain(u)
      BY <1>1, <2>1 DEF Reload, UpdatePool, Drain, lifeVars, history
    <2>2. CASE DisableAudit(u)
      BY <1>0, <2>2 DEF DisableAudit, DropWriter, AfterPool, CrashNeedsReload
    <2>3. CASE EnableAudit(u)
      <3>1. writers \in Nat
        BY <1>0, LifecycleAssumption DEF LifeTypeOK
      <3> QED
        BY <1>0, <2>3, <3>1 DEF EnableAudit, AfterPool, CrashNeedsReload
    <2>4. CASE KeepAudit(u)
      BY <1>1, <2>4 DEF KeepAudit, AfterPool
    <2> QED
      BY <1>5, <2>1, <2>2, <2>3, <2>4 DEF Update, UpdateAudit
  <1>6. CASE UNCHANGED allVars
    BY <1>1, <1>6 DEF allVars, lifeVars, history
  <1> QED
    BY <1>2, <1>3, <1>4, <1>5, <1>6 DEF LifeNext

\* The file that Logger.Close closes stays closed: nobody is left to log.
LEMMA FilesStep ==
    LifeInv /\ [LifeNext]_allVars
      => (main' \in {"stop", "exit"} /\ stopping' /\ ~overdue' => files' \subseteq replaced')
  <1> SUFFICES ASSUME LifeInv, [LifeNext]_allVars,
                      main' \in {"stop", "exit"}, stopping', ~overdue'
               PROVE  files' \subseteq replaced'
    OBVIOUS
  <1>0. /\ LifeTypeOK /\ AuditWritable
        /\ main \in {"stop", "exit"} /\ stopping /\ ~overdue
             => files \subseteq replaced /\ \A r \in Request : ~InFlight(r)
        /\ files \subseteq 1..MaxWriter /\ 0 \notin 1..MaxWriter
    BY LifecycleAssumption DEF LifeInv, CloseOK, StopOK, Closing, LifeTypeOK
  <1> USE <1>0
  <1>1. CASE main \in {"stop", "exit"} /\ UNCHANGED serverVars
    <2>1. CASE UNCHANGED <<auditVars, dropped>>
      BY <1>1, <2>1 DEF serverVars, auditVars
    <2>2. CASE CloseWriter
      BY <1>1, <2>2 DEF CloseWriter, GoMain
    <2>3. ASSUME NEW r \in Request, Log(r) PROVE FALSE
      BY <1>1, <2>3 DEF serverVars, Log, GoReq, InFlight
    <2>4. CASE \E u \in Updater : UpdateAudit(u)
      BY <1>1, <2>4 DEF serverVars, UpdateAudit, DisableAudit, DropWriter, EnableAudit,
               KeepAudit, auditVars
    <2> QED
      BY <2>1, <2>2, <2>3, <2>4, AuditFrame
  <1>2. CASE CheckWriter
    BY <1>2 DEF CheckWriter, GoMain, AuditWritable, auditVars
  <1>3. CASE CloseWriter
    BY <1>3 DEF CloseWriter, GoMain, AuditWritable
  <1>4. CASE StopWatcher
    BY <1>1, <1>4 DEF StopWatcher, GoMain
  <1>5. CASE StartWatcher \/ Quit \/ ShutdownHttp \/ AwaitRequests \/ ClosePool
    BY <1>5 DEF StartWatcher, Quit, ShutdownHttp, AwaitRequests, Drained, Overdue, ClosePool,
                GoMain
  <1>6. CASE Start \/ ListenAndServe \/ Signal
    <2>1. main' = main /\ UNCHANGED <<auditVars, stopping, overdue>>
      BY <1>6 DEF Start, ListenAndServe, Signal
    <2> QED
      BY <2>1 DEF auditVars
  <1>7. CASE \E r \in Request : Serve(r)
    BY <1>1, <1>7 DEF Serve, Accept, Limit, Authenticate, UsePool, EndTool, Log
  <1>8. CASE \E u \in Updater : Update(u)
    BY <1>1, <1>8 DEF Update, Reload, UpdatePool, Drain, UpdateAudit, DisableAudit, DropWriter,
             EnableAudit, KeepAudit, AfterPool, lifeVars
  <1>9. CASE UNCHANGED allVars
    BY <1>1, <1>9 DEF allVars, lifeVars
  <1> QED
    BY <1>2, <1>3, <1>4, <1>5, <1>6, <1>7, <1>8, <1>9 DEF LifeNext, Main

LEMMA LateStep == TypeOK /\ LifeInv /\ [LifeNext]_allVars => LateOK'
  <1> SUFFICES ASSUME TypeOK, LifeInv, [LifeNext]_allVars, shut',
                      NEW d \in Handle, clusters'[d[1]] = d[2]
               PROVE  d \in late'
    BY DEF LateOK, InMap
  <1>0. /\ shut => (clusters[d[1]] = d[2] => d \in late)
        /\ d[1] \in Cluster /\ d[2] # 0
        /\ clusters \in [Cluster -> 0..MaxGen]
    BY PoolAssumption DEF LifeInv, LateOK, InMap, Handle, TypeOK
  <1>1. CASE UNCHANGED <<clusters, shut, late>>
    BY <1>0, <1>1
  <1>2. CASE ClosePool
    BY <1>0, <1>2 DEF ClosePool, Close
  <1>3. CASE Main /\ ~ClosePool
    BY <1>1, <1>3 DEF Main, StartWatcher, Quit, ShutdownHttp, AwaitRequests, Drained, Overdue,
                  CheckWriter, CloseWriter, StopWatcher, vars, mapVars, history
  <1>4. CASE Start \/ ListenAndServe \/ Signal
    BY <1>1, <1>4 DEF Start, ListenAndServe, Signal, vars, mapVars, history
  <1>5. CASE \E r \in Request : Serve(r)
    BY <1>1, <1>5 DEF Serve, Accept, Limit, Authenticate, UsePool, EndTool, Log, Get, Lookup,
                  CheckClosing, AddRef, Finish, vars, mapVars, history
  <1>6. ASSUME NEW u \in Updater, NEW new \in ConfigsType, UpdatePool(u, new)
        PROVE  d \in late'
    <2>1. shut
      BY <1>6 DEF UpdatePool, MarkAndAdd
    <2>2. CASE d[1] \in Added(new)
      <3>1. d = <<d[1], made[d[1]] + 1>>
        BY <1>0, <1>6, <2>2 DEF UpdatePool, MarkAndAdd, Handle
      <3> QED
        BY <1>6, <2>1, <2>2, <3>1 DEF UpdatePool
    <2>3. CASE d[1] \notin Added(new)
      BY <1>0, <1>6, <2>1, <2>3 DEF UpdatePool, MarkAndAdd
    <2> QED
      BY <2>2, <2>3
  <1>7. ASSUME NEW u \in Updater, Drain(u) PROVE d \in late'
    <2>1. CASE Wait(u) \/ CloseHandle(u)
      BY <1>1, <1>7, <2>1 DEF Drain, Wait, Released, TimedOut, CloseHandle, mapVars, lifeVars,
               history
    <2>2. CASE DeleteEntry(u)
      <3>1. clusters'[d[1]] \in {clusters[d[1]], 0} /\ UNCHANGED shut
        BY <1>0, <2>2 DEF DeleteEntry
      <3>2. UNCHANGED late
        BY <1>7 DEF Drain, lifeVars, history
      <3> QED
        BY <1>0, <3>1, <3>2
    <2> QED
      BY <1>7, <2>1, <2>2 DEF Drain
  <1>8. CASE \E u \in Updater : Reload(u) \/ UpdateAudit(u)
    BY <1>1, <1>8 DEF Reload, UpdateAudit, DisableAudit, DropWriter, EnableAudit, KeepAudit,
                  AfterPool, vars, mapVars, history
  <1>9. CASE UNCHANGED allVars
    BY <1>1, <1>9 DEF allVars, vars, mapVars, lifeVars, history
  <1> QED
    BY <1>2, <1>3, <1>4, <1>5, <1>6, <1>7, <1>8, <1>9 DEF LifeNext, Update

LEMMA LifeInvariance == LifeSpec => []LifeInv
  <1>1. TypeOK /\ LifeInv /\ [LifeNext]_allVars => LifeInv'
    BY LifeTypeStep, StopStep, WritableStep, CrashStep, FilesStep, LateStep
       DEF LifeInv, CloseOK
  <1> QED
    BY <1>1, InitLifeInv, LifecycleUsesPool, PoolTyped, PTL DEF LifeSpec

-----------------------------------------------------------------------------
(* The refinement of GracefulStop.                                         *)

Begun == {r \in Request : req[r] # "new"}
Active == {r \in Request : InFlight(r)}

\* A step that GracefulStop does not see.
Unseen == UNCHANGED <<StopPhase, Excuse, Begun, Active>>

\* The substitution of Lifecycle's Graceful, with the names above.
LEMMA GracefulNames ==
    /\ Graceful!Init <=> StopPhase = "serving" /\ Begun = {} /\ Active = {} /\ Excuse = "none"
    /\ Unseen <=> UNCHANGED Graceful!vars
    /\ \A r \in Request :
          Graceful!Begin(r) <=>
             /\ r \notin Begun
             /\ StopPhase = "serving" \/ (StopPhase # "over" /\ Excuse = "unknown")
             /\ Begun' = Begun \cup {r} /\ Active' = Active \cup {r}
             /\ UNCHANGED <<StopPhase, Excuse>>
    /\ \A r \in Request :
          Graceful!End(r) <=>
             /\ r \in Active /\ StopPhase # "over"
             /\ Active' = Active \ {r}
             /\ UNCHANGED <<StopPhase, Begun, Excuse>>
    /\ Graceful!Stop <=>
             /\ StopPhase = "serving" /\ StopPhase' = "draining"
             /\ Excuse' \in {"none", "unknown"}
             /\ UNCHANGED <<Begun, Active>>
    /\ Graceful!GiveUp <=>
             /\ StopPhase = "draining" /\ Excuse = "none" /\ Excuse' = "late"
             /\ UNCHANGED <<StopPhase, Begun, Active>>
    /\ Graceful!Release <=>
             /\ StopPhase = "draining" /\ StopPhase' = "released"
             /\ Excuse = "none" => Active = {}
             /\ UNCHANGED <<Begun, Active, Excuse>>
    /\ Graceful!Finish <=>
             /\ StopPhase = "released" /\ StopPhase' = "over"
             /\ UNCHANGED <<Begun, Active, Excuse>>
  BY DEF Graceful!Init, Graceful!vars, Graceful!Begin, Graceful!End, Graceful!Stop,
         Graceful!GiveUp, Graceful!Release, Graceful!Finish, Unseen, Begun, Active

Stages ==
    /\ main \in {"watch", "serve", "http"} => StopPhase = "serving" /\ Excuse = "none"
    /\ main \in {"wait", "pool"} => StopPhase = "draining"
    /\ main \in {"audit", "auditClose", "stop"} => StopPhase = "released"
    /\ main \in {"exit", "crashed"} <=> StopPhase = "over"
    /\ main = "wait" => Excuse = "none"
    /\ main \in Closing => (Excuse = "none" <=> stopping /\ ~overdue)
    /\ Excuse = "late" <=> overdue

LEMMA StopStages == (LifeInv => Stages) /\ (LifeInv' => Stages')
  BY DEF LifeInv, LifeTypeOK, StopOK, Stages, StopPhase, Excuse, Alive, Closing

\* A step of main moves the process on, or is not seen.
LEMMA MainStops ==
    ASSUME LifeInv, LifeInv', Main
    PROVE  Graceful!Next \/ Unseen
  <1>0. Stages /\ Stages' /\ StopOK
    BY StopStages DEF LifeInv
  <1>1. UNCHANGED <<Begun, Active>>
    BY DEF Main, StartWatcher, Quit, ShutdownHttp, AwaitRequests, Drained, Overdue, ClosePool,
           CheckWriter, CloseWriter, StopWatcher, Begun, Active, InFlight
  <1>2. CASE StartWatcher \/ Quit
    BY <1>0, <1>1, <1>2 DEF StartWatcher, Quit, GoMain, Stages, Unseen
  <1>3. CASE ShutdownHttp
    <2>1. /\ main = "http" /\ main' \in {"pool", "wait"}
          /\ overdue' = overdue
      BY <1>3 DEF ShutdownHttp, GoMain
    <2>2. Excuse' \in {"none", "unknown"}
      BY <1>0, <2>1 DEF StopOK, Closing, Excuse
    <2>3. Graceful!Stop
      BY <1>0, <1>1, <2>1, <2>2, GracefulNames DEF Stages
    <2> QED
      BY <2>3 DEF Graceful!Next
  <1>4. CASE Drained
    <2>1. main = "wait" /\ main' = "pool" /\ UNCHANGED <<stopping, overdue>>
      BY <1>4 DEF Drained, GoMain, serverVars
    <2>2. Excuse' = Excuse
      BY <1>0, <2>1 DEF StopOK, Stages, Excuse
    <2> QED
      BY <1>0, <1>1, <2>1, <2>2 DEF Stages, Unseen
  <1>5. CASE Overdue
    <2>1. main = "wait" /\ main' = "pool" /\ overdue'
      BY <1>5 DEF Overdue, GoMain
    <2>2. Graceful!GiveUp
      BY <1>0, <1>1, <2>1, GracefulNames DEF Stages
    <2> QED
      BY <2>2 DEF Graceful!Next
  <1>6. CASE ClosePool \/ CheckWriter \/ CloseWriter \/ StopWatcher
    <2>1. /\ UNCHANGED <<stopping, overdue>>
          /\ main \in Closing /\ main' \in Closing
      BY <1>6 DEF ClosePool, CheckWriter, CloseWriter, StopWatcher, GoMain, serverVars, Closing
    <2>2. Excuse' = Excuse
      BY <2>1 DEF Closing, Excuse
    <2>3. CASE ClosePool
      <3>1. main = "pool" /\ main' = "audit"
        BY <2>3 DEF ClosePool, GoMain
      <3>2. Excuse = "none" => Active = {}
        BY <1>0, <2>1 DEF StopOK, Stages, Active
      <3>3. Graceful!Release
        BY <1>0, <1>1, <2>2, <3>1, <3>2, GracefulNames DEF Stages
      <3> QED
        BY <3>3 DEF Graceful!Next
    <2>4. CASE main' \in {"auditClose", "stop"} /\ main \in {"audit", "auditClose"}
      BY <1>0, <1>1, <2>2, <2>4 DEF Stages, Unseen
    <2>5. CASE main' \in {"exit", "crashed"} /\ main \in {"stop", "auditClose"}
      <3>1. Graceful!Finish
        BY <1>0, <1>1, <2>2, <2>5, GracefulNames DEF Stages
      <3> QED
        BY <3>1 DEF Graceful!Next
    <2> QED
      BY <1>6, <2>3, <2>4, <2>5 DEF CheckWriter, CloseWriter, StopWatcher, GoMain
  <1> QED
    BY <1>2, <1>3, <1>4, <1>5, <1>6 DEF Main, AwaitRequests

\* While main stands still, phase and excuse do.
LEMMA PhaseFrame ==
    ASSUME LifeInv, LifeInv', UNCHANGED <<main, stopping, overdue>>
    PROVE  UNCHANGED <<StopPhase, Excuse>>
  <1>1. UNCHANGED <<Alive, Excuse>>
    BY DEF Alive, Excuse
  <1>2. shut' <=> shut
    BY DEF LifeInv, StopOK
  <1> QED
    BY <1>1, <1>2 DEF StopPhase

\* A request begins where it is accepted and ends where its handler returns.
LEMMA ServeStops ==
    ASSUME LifeInv, LifeInv', NEW r \in Request, Serve(r)
    PROVE  Graceful!Next \/ Unseen
  <1>0. /\ Stages /\ StopOK /\ req \in [Request -> {"new", "accepted", "auth", "tool", "log", "done"}]
        /\ Alive
    BY StopStages DEF LifeInv, LifeTypeOK, Serve, Accept, Limit, Authenticate, UsePool, EndTool,
                      Log, GoReq
  <1>1. UNCHANGED <<StopPhase, Excuse>>
    <2>1. UNCHANGED <<main, serverVars>>
      BY DEF Serve, Accept, Limit, Authenticate, UsePool, EndTool, Log
    <2> QED
      BY <2>1, PhaseFrame DEF serverVars
  <1>2. StopPhase # "over"
    BY <1>0 DEF Stages, Alive
  <1>3. CASE Accept(r)
    <2>1. /\ req[r] = "new" /\ req' = [req EXCEPT ![r] = "accepted"]
          /\ srv = "listening"
      BY <1>3 DEF Accept, GoReq
    <2>2. r \notin Begun /\ Begun' = Begun \cup {r} /\ Active' = Active \cup {r}
      BY <1>0, <2>1 DEF Begun, Active, InFlight
    <2>3. StopPhase = "serving" \/ Excuse = "unknown"
      <3>1. ~stopping /\ ~overdue
        BY <1>0, <2>1 DEF StopOK
      <3>2. main \in {"watch", "serve", "http"} \/ Excuse = "unknown"
        BY <3>1 DEF Excuse
      <3> QED
        BY <1>0, <3>2 DEF Stages
    <2>4. Graceful!Begin(r)
      BY <1>1, <1>2, <2>2, <2>3, GracefulNames
    <2> QED
      BY <2>4 DEF Graceful!Next
  <1>4. CASE req' = req
    BY <1>1, <1>4 DEF Unseen, Begun, Active, InFlight
  <1>5. ASSUME NEW from \in {"accepted", "auth", "tool", "log"}, GoReq(r, from, "done")
        PROVE  Graceful!Next
    <2>1. r \in Active /\ Active' = Active \ {r} /\ Begun' = Begun
      BY <1>0, <1>5 DEF GoReq, Begun, Active, InFlight
    <2>2. Graceful!End(r)
      BY <1>1, <1>2, <2>1, GracefulNames
    <2> QED
      BY <2>2 DEF Graceful!Next
  <1>6. ASSUME NEW from \in {"accepted", "auth", "tool"}, NEW to \in {"auth", "tool", "log"},
               GoReq(r, from, to)
        PROVE  Unseen
    <2>1. Active' = Active /\ Begun' = Begun
      BY <1>0, <1>6 DEF GoReq, Begun, Active, InFlight
    <2> QED
      BY <1>1, <2>1 DEF Unseen
  <1> QED
    BY <1>3, <1>4, <1>5, <1>6 DEF Serve, Limit, Authenticate, UsePool, EndTool, Log

\* The process implements GracefulStop: it accepts nothing while it drains and
\* closes the pool under a request only at the deadline or when it did not know
\* of its server (ImplementsGracefulStop).
THEOREM StopsGracefully == LifeSpec => ImplementsGracefulStop
  <1>1. LifeInit => Graceful!Init
    BY GracefulNames DEF LifeInit, Init, StopPhase, Excuse, Alive, Begun, Active, InFlight
  <1>2. ASSUME LifeInv, LifeInv', [LifeNext]_allVars PROVE [Graceful!Next]_Graceful!vars
    <2>1. CASE Main
      BY <1>2, <2>1, MainStops, GracefulNames
    <2>2. ASSUME NEW r \in Request, Serve(r) PROVE [Graceful!Next]_Graceful!vars
      BY <1>2, <2>2, ServeStops, GracefulNames
    <2>3. CASE UNCHANGED <<main, stopping, overdue, req>>
      <3>1. UNCHANGED <<StopPhase, Excuse, Begun, Active>>
        BY <1>2, <2>3, PhaseFrame DEF Begun, Active, InFlight
      <3> QED
        BY <3>1, GracefulNames DEF Unseen
    <2>4. CASE Start \/ ListenAndServe \/ Signal
      BY <2>3, <2>4 DEF Start, ListenAndServe, Signal
    <2>5. CASE \E u \in Updater : Update(u)
      BY <2>3, <2>5 DEF Update, Reload, UpdatePool, Drain, UpdateAudit, DisableAudit, DropWriter,
                        EnableAudit, KeepAudit, AfterPool, lifeVars, serverVars
    <2> QED
      BY <1>2, <2>1, <2>2, <2>3, <2>4, <2>5 DEF LifeNext, allVars, lifeVars, serverVars
  <1> QED
    BY <1>1, <1>2, LifeInvariance, PTL DEF LifeSpec, ImplementsGracefulStop, Graceful!Spec

\* Every variable of main, server and audit logger keeps its type.
THEOREM LifecycleTyped == LifeSpec => []LifeTypeOK
  BY LifeInvariance, PTL DEF LifeInv

\* No request is in flight when Shutdown closes the pool, or comes later,
\* unless its 30 s were over or it did not know of the server.
THEOREM RequestsDrainedFirst == LifeSpec => []DrainedBeforeClose
  <1>1. LifeInv => DrainedBeforeClose
    BY DEF LifeInv, StopOK, DrainedBeforeClose
  <1> QED
    BY <1>1, LifeInvariance, PTL

\* An enabled logger has a writer, however many reloads change it.
THEOREM LoggerHasWriter == LifeSpec => []AuditWritable
  BY LifeInvariance, PTL DEF LifeInv

\* Only a reload between Logger.Close's two looks at the writer crashes main.
THEOREM OnlyReloadCrashes == LifeSpec => []CrashNeedsReload
  BY LifeInvariance, PTL DEF LifeInv

\* With one reloading goroutine the process leaves nothing open but what came
\* after Shutdown: handles of a late reload, writers that were replaced.
THEOREM NothingLeftOpen == OneUpdater /\ LifeSpec => []ClosedAtExit
  <1>1. LifeInv /\ NoOrphan => ClosedAtExit
    BY DEF LifeInv, StopOK, Closing, CloseOK, LateOK, NoOrphan, ClosedAtExit
  <1> QED
    BY <1>1, LifeInvariance, NothingStrandedToTheEnd, PTL
=============================================================================
