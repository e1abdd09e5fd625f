-------------------------- MODULE HotReloadProofs ---------------------------
(***************************************************************************)
(* Proofs about HotReload in any set of environments: any number of        *)
(* contents of the two files, readable or not, any number of SIGHUPs.      *)
(***************************************************************************)
EXTENDS HotReload, TLAPS

-----------------------------------------------------------------------------
(* Types.  A content is loaded, and a time recorded, only of what was      *)
(* written; what passed the two loads is a version of both files.          *)

Parsed == {"stat", "live", "checker", "rewriter", "pool", "drain", "audit"}

WrittenOK ==
    /\ \A f \in File : mtime[f] <= file[f]
    /\ pending + 2 <= file["config"] + file["security"]

LoadedOK ==
    \A t \in Thread :
        /\ pc[t] \in Parsed \cup {"loadSecurity"} => loaded[t]["config"] \in Version
        /\ pc[t] \in Parsed => loaded[t]["security"] \in Version

TInv == TypeOK /\ WrittenOK /\ LoadedOK

LEMMA EnvTyped ==
    ASSUME env \in Environments
    PROVE  /\ env.versions \in Nat \ {0} /\ env.sighups \in Nat
           /\ Version \subseteq Nat /\ 0 \notin Version /\ 1 \in Version
           /\ \A v \in Version : v <= env.versions
           /\ Version \subseteq 0..env.versions
  BY ReloadAssumption DEF Environment, PosNat, Version

LEMMA InitTInv == Init => TInv
  <1> SUFFICES ASSUME Init PROVE TInv
    OBVIOUS
  <1>1. env \in Environments /\ 1 \in Version /\ env.versions \in Nat /\ env.sighups \in Nat
    BY EnvTyped DEF Init
  <1>2. {watching, missed} \subseteq BOOLEAN
    BY Zenon DEF Init
  <1>3. TypeOK
    BY <1>1, <1>2 DEF Init, TypeOK, Steps, Version
  <1> QED
    BY <1>3 DEF Init, TInv, WrittenOK, LoadedOK, Parsed, File, Thread

LEMMA WriteTyped == ASSUME TInv, NEW f \in File, Write(f) PROVE TInv'
  <1> USE DEF TInv
  <1>0. /\ env \in Environments /\ env.versions \in Nat \ {0}
        /\ file \in [File -> 1..env.versions] /\ mtime \in [File -> 1..env.versions]
        /\ pending \in Nat
        /\ "config" \in File /\ "security" \in File
    BY EnvTyped DEF TypeOK, Version, File
  <1>1. file' = [file EXCEPT ![f] = file[f] + 1] /\ file[f] + 1 \in 1..env.versions
    BY <1>0 DEF Write
  <1>2. file' \in [File -> Version'] /\ Version' = Version
    BY <1>0, <1>1 DEF Version, Write
  <1>3. PICK d \in {0, 1} : mtime' = [mtime EXCEPT ![f] = mtime[f] + d]
    BY DEF Write
  <1>4. mtime[f] + d \in 1..env.versions /\ mtime[f] + d <= file[f] + 1
    BY <1>0, <1>1 DEF WrittenOK
  <1>5. mtime' \in [File -> Version'] /\ \A g \in File : mtime'[g] <= file'[g]
    BY <1>0, <1>1, <1>2, <1>3, <1>4 DEF Version, WrittenOK
  <1>6. pending' \in {pending, pending + 1}
    BY DEF Write
  <1>7. pending' + 2 <= file'["config"] + file'["security"]
    BY <1>0, <1>1, <1>6 DEF WrittenOK, File
  <1>8. pending' \in 0..(2 * env.versions)
    BY <1>0, <1>1, <1>2, <1>6, <1>7 DEF Version
  <1>9. {watching, missed}' \subseteq BOOLEAN
    BY Zenon DEF Write, TypeOK
  <1>10. TypeOK'
    BY <1>2, <1>5, <1>8, <1>9 DEF Write, TypeOK, serverVars
  <1>11. LoadedOK'
    BY <1>2 DEF Write, LoadedOK
  <1> QED
    BY <1>5, <1>7, <1>10, <1>11 DEF WrittenOK

\* A step of a goroutine that writes none of the components.
LEMMA LoadTyped ==
    ASSUME TInv, NEW t \in Thread, Load(t) \/ LoadSecurity(t) \/ Stat(t)
    PROVE  TInv'
  <1> USE DEF TInv
  <1>0. /\ env \in Environments /\ Version \subseteq 0..env.versions
        /\ file \in [File -> Version] /\ mtime \in [File -> Version]
        /\ "config" \in File /\ "security" \in File /\ "config" # "security"
        /\ pc \in [Thread -> Steps] /\ loaded \in [Thread -> [File -> 0..env.versions]]
    BY EnvTyped DEF TypeOK, File
  <1>1. UNCHANGED <<env, diskVars, pending, watching, sighups, serverVars>> /\ Version' = Version
    BY DEF Load, LoadSecurity, Stat, Version, watchVars
  <1>2. lastMod' \in [File -> 0..env.versions]
    BY <1>0 DEF Load, LoadSecurity, Stat, watchVars, TypeOK
  <1>3. pc' \in [Thread -> Steps]
    BY <1>0 DEF Load, LoadSecurity, Stat, Goto, Steps
  <1>4. loaded' \in [Thread -> [File -> 0..env.versions]]
    <2>1. \A f \in File : [loaded EXCEPT ![t][f] = file[f]] \in [Thread -> [File -> 0..env.versions]]
      BY <1>0
    <2> QED
      BY <1>0, <2>1 DEF Load, LoadSecurity, Stat
  <1>5. TypeOK'
    <2>1. {watching, missed}' \subseteq BOOLEAN
      BY <1>1, Zenon DEF diskVars, TypeOK
    <2> QED
      BY <1>1, <1>2, <1>3, <1>4, <2>1 DEF TypeOK, diskVars, serverVars
  <1>6. WrittenOK'
    BY <1>1 DEF WrittenOK, diskVars
  <1>7. LoadedOK'
    <2>1. CASE Load(t)
      BY <1>0, <1>1, <2>1 DEF Load, Goto, LoadedOK, Parsed
    <2>2. CASE LoadSecurity(t)
      BY <1>0, <1>1, <2>2 DEF LoadSecurity, Goto, LoadedOK, Parsed
    <2>3. CASE Stat(t)
      BY <1>0, <1>1, <2>3 DEF Stat, Goto, LoadedOK, Parsed
    <2> QED
      BY <2>1, <2>2, <2>3
  <1> QED
    BY <1>5, <1>6, <1>7

Updating(t) ==
    \/ UpdateLive(t) \/ UpdateChecker(t) \/ UpdateRewriter(t)
    \/ UpdatePool(t) \/ Drained(t) \/ UpdateAudit(t)

LEMMA UpdateTyped == ASSUME TInv, NEW t \in Thread, Updating(t) PROVE TInv'
  <1> USE DEF TInv
  <1>1. UNCHANGED <<env, diskVars, watchVars, loaded>> /\ Version' = Version
    BY DEF Updating, UpdateLive, UpdateChecker, UpdateRewriter, UpdatePool, Drained, UpdateAudit,
           Version
  <1>2. pc \in [Thread -> Steps] /\ pc[t] \in Parsed
    BY DEF TypeOK, Updating, UpdateLive, UpdateChecker, UpdateRewriter, UpdatePool, Drained,
           UpdateAudit, Goto, Parsed
  <1>3. \E s \in Parsed \cup {"idle"} : pc' = [pc EXCEPT ![t] = s]
    BY DEF Updating, UpdateLive, UpdateChecker, UpdateRewriter, UpdatePool, Drained,
           UpdateAudit, Goto, Parsed
  <1>4. pc' \in [Thread -> Steps] /\ LoadedOK'
    BY <1>1, <1>2, <1>3 DEF Parsed, Steps, LoadedOK
  <1>5. loaded[t] \in [File -> Version]
    BY <1>2 DEF LoadedOK, TypeOK, File
  <1>6. live' \in [File -> Version] /\ {checker, rewriter, pool, routes, audit}' \subseteq Version
    BY <1>5 DEF Updating, UpdateLive, UpdateChecker, UpdateRewriter, UpdatePool, Drained,
                UpdateAudit, serverVars, TypeOK, File
  <1>7. {watching, missed}' \subseteq BOOLEAN
    BY <1>1, Zenon DEF diskVars, watchVars, TypeOK
  <1>8. TypeOK'
    BY <1>1, <1>4, <1>6, <1>7 DEF TypeOK, diskVars, watchVars
  <1> QED
    BY <1>1, <1>4, <1>8 DEF WrittenOK, diskVars, watchVars

LEMMA StartTyped ==
    ASSUME TInv, StartWatcher \/ HandleEvent \/ CheckMtime \/ Reload
    PROVE  TInv'
  <1> USE DEF TInv
  <1>0. /\ Version \subseteq 0..env.versions /\ mtime \in [File -> Version]
        /\ pending \in 0..(2 * env.versions) /\ env.versions \in Nat
        /\ sighups \in 0..env.sighups /\ env.sighups \in Nat
        /\ pc \in [Thread -> Steps] /\ lastMod \in [File -> 0..env.versions]
        /\ file["config"] \in Nat /\ file["security"] \in Nat
    BY EnvTyped DEF TypeOK, File
  <1>1. UNCHANGED <<env, diskVars, loaded, serverVars>> /\ Version' = Version
    BY DEF StartWatcher, HandleEvent, CheckMtime, Reload, Version
  <1>2. \/ pc' = pc
        \/ \E t \in Thread : pc' = [pc EXCEPT ![t] = "load"]
    BY DEF StartWatcher, HandleEvent, CheckMtime, Reload, Goto, Thread
  <1>3. pc' \in [Thread -> Steps] /\ LoadedOK'
    BY <1>0, <1>1, <1>2 DEF Steps, LoadedOK, Parsed
  <1>4. lastMod' \in [File -> 0..env.versions]
    BY <1>0 DEF StartWatcher, HandleEvent, CheckMtime, Reload, watchVars
  <1>5. pending' \in 0..(2 * env.versions) /\ pending' <= pending
    BY <1>0 DEF StartWatcher, HandleEvent, CheckMtime, Reload, watchVars
  <1>6. sighups' \in 0..env.sighups
    BY <1>0 DEF StartWatcher, HandleEvent, CheckMtime, Reload, watchVars
  <1>7. {watching, missed}' \subseteq BOOLEAN
    BY Zenon DEF StartWatcher, HandleEvent, CheckMtime, Reload, TypeOK, diskVars, watchVars
  <1>8. TypeOK'
    BY <1>1, <1>3, <1>4, <1>5, <1>6, <1>7 DEF TypeOK, diskVars, serverVars
  <1>9. WrittenOK'
    BY <1>0, <1>1, <1>5 DEF WrittenOK, diskVars
  <1> QED
    BY <1>3, <1>8, <1>9

LEMMA Typed == Spec => []TInv
  <1>1. TInv /\ [Next]_vars => TInv'
    <2> SUFFICES ASSUME TInv, [Next]_vars PROVE TInv'
      OBVIOUS
    <2>1. CASE UNCHANGED vars
      BY <2>1 DEF vars, TInv, TypeOK, WrittenOK, LoadedOK, Version, diskVars, watchVars,
                  serverVars
    <2> QED
      BY <2>1, WriteTyped, LoadTyped, UpdateTyped, StartTyped DEF Next, Step, Updating
  <1> QED
    BY <1>1, InitTInv, PTL DEF Spec

\* Every variable keeps its type: in particular what reaches a component is a
\* version that was written and parsed, never the empty result of a failed load.
THEOREM ReloadTyped == Spec => []TypeOK
  BY Typed, PTL DEF TInv

-----------------------------------------------------------------------------
(* One reloading goroutine.  Who is inside reload tells where the          *)
(* components stand to each other.                                         *)

\* A goroutine reloads only where its trigger exists.
TriggerOK ==
    /\ ~env.notifies => pending = 0 /\ pc["event"] = "idle"
    /\ ~env.polls => pc["poll"] = "idle"
    /\ env.sighups = 0 => pc["main"] = "idle"

Alone == \A t, u \in Thread : pc[t] # "idle" /\ pc[u] # "idle" => t = u

LEMMA OneIsAlone == ASSUME TInv, TriggerOK, OneReloader PROVE Alone
  BY DEF TriggerOK, OneReloader, Alone, Thread

LEMMA TriggeredStep == TInv /\ TriggerOK /\ [Next]_vars => TriggerOK'
  <1> SUFFICES ASSUME TInv, TriggerOK, [Next]_vars PROVE TriggerOK'
    OBVIOUS
  <1>0. pc \in [Thread -> Steps] /\ pending \in Nat /\ sighups \in Nat
    BY EnvTyped DEF TInv, TypeOK
  <1>1. CASE \E f \in File : Write(f)
    BY <1>0, <1>1 DEF Write, TriggerOK
  <1>2. CASE StartWatcher \/ HandleEvent \/ CheckMtime \/ Reload
    BY <1>0, <1>2 DEF StartWatcher, HandleEvent, CheckMtime, Reload, Goto, TriggerOK, Thread,
             watchVars
  <1>3. ASSUME NEW t \in Thread, Step(t) PROVE TriggerOK'
    <2>1. pc[t] # "idle" /\ UNCHANGED <<env, pending>>
      BY <1>3 DEF Step, Load, LoadSecurity, Stat, UpdateLive, UpdateChecker, UpdateRewriter,
                  UpdatePool, Drained, UpdateAudit, Goto, watchVars
    <2>2. \A u \in Thread \ {t} : pc'[u] = pc[u]
      BY <1>0, <1>3 DEF Step, Load, LoadSecurity, Stat, UpdateLive, UpdateChecker,
                  UpdateRewriter, UpdatePool, Drained, UpdateAudit, Goto
    <2> QED
      BY <2>1, <2>2 DEF TriggerOK, Thread
  <1>4. CASE UNCHANGED vars
    BY <1>4 DEF vars, watchVars, TriggerOK
  <1> QED
    BY <1>1, <1>2, <1>3, <1>4 DEF Next

Before == {"idle", "load", "loadSecurity", "stat", "live"}

OrderedAt(t) ==
    /\ pc[t] \in {"checker", "rewriter", "pool", "drain", "audit"} => live = loaded[t]
    /\ pc[t] \in {"rewriter", "pool", "drain", "audit"} => checker = live["security"]
    /\ pc[t] \in {"pool", "drain", "audit"} => rewriter = live["security"]
    /\ pc[t] \in {"drain", "audit"} => pool = live["config"]
    /\ pc[t] \in Parsed \cup {"loadSecurity"} =>
          live["config"] <= loaded[t]["config"] /\ loaded[t]["config"] <= file["config"]
    /\ pc[t] \in Parsed =>
          live["security"] <= loaded[t]["security"] /\ loaded[t]["security"] <= file["security"]

Behind ==
    /\ checker <= live["security"] /\ rewriter <= live["security"]
    /\ pool <= live["config"] /\ audit <= live["config"]
    /\ \A f \in File : live[f] <= file[f]

Ordered ==
    /\ (\A t \in Thread : pc[t] \in Before) => RunsOn(live)
    /\ \A t \in Thread : OrderedAt(t)
    /\ Behind

\* What the step proofs use of the types.
LEMMA VersionsAreNumbers ==
    ASSUME TInv
    PROVE  /\ \A f \in File : file[f] \in Nat /\ live[f] \in Nat
           /\ \A t \in Thread : \A f \in File : loaded[t][f] \in Nat
           /\ {checker, rewriter, pool, audit} \subseteq Nat
           /\ pc \in [Thread -> Steps]
           /\ "config" \in File /\ "security" \in File
           /\ \A f \in File : f \in {"config", "security"}
  BY EnvTyped DEF TInv, TypeOK, File

LEMMA InitOrdered == Init => Ordered
  BY DEF Init, Ordered, RunsOn, OrderedAt, Parsed, Before, Behind, File

LEMMA OrderedWrite ==
    ASSUME TInv, Ordered, NEW f \in File, Write(f)
    PROVE  Ordered'
  <1>0. UNCHANGED <<env, pc, loaded, live, checker, rewriter, pool, audit>>
    BY DEF Write, serverVars
  <1>1. \A g \in File : file[g] <= file'[g] /\ file'[g] \in Nat
    BY VersionsAreNumbers DEF Write, TInv, TypeOK
  <1>2. Behind'
    BY <1>0, <1>1, VersionsAreNumbers DEF Ordered, Behind
  <1>3. \A t \in Thread : OrderedAt(t)'
    BY <1>0, <1>1, VersionsAreNumbers DEF Ordered, OrderedAt
  <1>4. RunsOn(live)' <=> RunsOn(live)
    BY <1>0 DEF RunsOn
  <1> QED
    BY <1>0, <1>2, <1>3, <1>4 DEF Ordered

LEMMA OrderedStart ==
    ASSUME TInv, Ordered, StartWatcher \/ HandleEvent \/ CheckMtime \/ Reload
    PROVE  Ordered'
  <1>0. UNCHANGED <<env, file, loaded, live, checker, rewriter, pool, audit>>
    BY DEF StartWatcher, HandleEvent, CheckMtime, Reload, diskVars, serverVars
  <1>1. pc' = pc \/ \E t \in Thread : pc[t] = "idle" /\ pc' = [pc EXCEPT ![t] = "load"]
    BY DEF StartWatcher, HandleEvent, CheckMtime, Reload, Goto, Thread
  <1>2. \A t \in Thread : OrderedAt(t)'
    BY <1>0, <1>1, VersionsAreNumbers DEF Ordered, OrderedAt, Parsed
  <1>3. (\A t \in Thread : pc'[t] \in Before) => (\A t \in Thread : pc[t] \in Before)
    BY <1>1, VersionsAreNumbers DEF Before
  <1> QED
    BY <1>0, <1>2, <1>3 DEF Ordered, Behind, RunsOn

LEMMA OrderedLoad ==
    ASSUME TInv, Alone, Ordered, NEW t \in Thread, Load(t) \/ LoadSecurity(t) \/ Stat(t)
    PROVE  Ordered'
  <1>0. UNCHANGED <<env, file, live, checker, rewriter, pool, audit>>
    BY DEF Load, LoadSecurity, Stat, diskVars, serverVars
  <1>1. pc[t] \in {"load", "loadSecurity", "stat"}
    BY DEF Load, LoadSecurity, Stat, Goto
  <1>2. \A u \in Thread \ {t} : pc[u] = "idle" /\ pc'[u] = "idle"
    BY <1>1, VersionsAreNumbers DEF Alone, Load, LoadSecurity, Stat, Goto
  <1>3. RunsOn(live)'
    BY <1>0, <1>1, <1>2 DEF Ordered, Before, RunsOn
  <1>4. \A u \in Thread \ {t} : OrderedAt(u)'
    BY <1>2 DEF OrderedAt, Parsed
  <1>5. OrderedAt(t)'
    <2> USE VersionsAreNumbers DEF OrderedAt, Parsed, Goto
    <2>1. CASE Load(t)
      BY <1>0, <2>1 DEF Load, Ordered, Behind, TInv, TypeOK
    <2>2. CASE LoadSecurity(t)
      BY <1>0, <2>2 DEF LoadSecurity, Ordered, Behind, TInv, TypeOK
    <2>3. CASE Stat(t)
      BY <1>0, <2>3 DEF Stat, Ordered
    <2> QED
      BY <2>1, <2>2, <2>3
  <1> QED
    BY <1>0, <1>3, <1>4, <1>5 DEF Ordered, Behind

\* Each component is set to what is live, in order, by the only goroutine.
LEMMA OrderedUpdate ==
    ASSUME TInv, Alone, Ordered, NEW t \in Thread, Updating(t)
    PROVE  Ordered' /\ (\A f \in File : live'[f] >= live[f])
           /\ checker' >= checker /\ rewriter' >= rewriter
           /\ pool' >= pool /\ audit' >= audit
  <1>0. UNCHANGED <<env, file, loaded>>
    BY DEF Updating, UpdateLive, UpdateChecker, UpdateRewriter, UpdatePool, Drained, UpdateAudit,
           diskVars
  <1>1. pc[t] \in Parsed /\ OrderedAt(t) /\ Behind
    BY DEF Updating, UpdateLive, UpdateChecker, UpdateRewriter, UpdatePool, Drained, UpdateAudit,
           Goto, Parsed, Ordered
  <1>2. \A u \in Thread \ {t} : pc[u] = "idle" /\ pc'[u] = "idle"
    BY <1>1, VersionsAreNumbers DEF Alone, Parsed, Updating, UpdateLive, UpdateChecker,
       UpdateRewriter, UpdatePool, Drained, UpdateAudit, Goto
  <1>3. \A u \in Thread \ {t} : OrderedAt(u)'
    BY <1>2 DEF OrderedAt, Parsed
  <1>4. CASE UpdateLive(t)
    <2>1. /\ pc'[t] = "checker" /\ live' = loaded[t]
          /\ UNCHANGED <<checker, rewriter, pool, audit>>
      BY <1>4, VersionsAreNumbers DEF UpdateLive, Goto
    <2>2. /\ live["config"] <= live'["config"] /\ live["security"] <= live'["security"]
          /\ live'["config"] <= file["config"] /\ live'["security"] <= file["security"]
      BY <1>1, <1>4, <2>1 DEF OrderedAt
    <2>3. Behind'
      BY <1>0, <1>1, <2>1, <2>2, VersionsAreNumbers DEF Behind
    <2>4. OrderedAt(t)'
      BY <1>0, <2>1, <2>2, VersionsAreNumbers DEF OrderedAt
    <2>5. ~(pc'[t] \in Before)
      BY <2>1 DEF Before
    <2> QED
      BY <1>3, <2>1, <2>2, <2>3, <2>4, <2>5, VersionsAreNumbers DEF Ordered
  <1>5. CASE UpdateChecker(t) \/ UpdateRewriter(t) \/ UpdatePool(t) \/ Drained(t)
    <2>1. pc'[t] \in {"rewriter", "pool", "drain", "audit"} /\ UNCHANGED <<live, audit>>
      BY <1>5, VersionsAreNumbers DEF UpdateChecker, UpdateRewriter, UpdatePool, Drained, Goto,
         serverVars
    <2>2. OrderedAt(t)'
      BY <1>0, <1>1, <1>5, VersionsAreNumbers DEF OrderedAt, Parsed, Goto, UpdateChecker,
         UpdateRewriter, UpdatePool, Drained, serverVars
    <2>3. Behind' /\ checker' >= checker /\ rewriter' >= rewriter /\ pool' >= pool
      BY <1>0, <1>1, <1>5, VersionsAreNumbers DEF OrderedAt, Behind, Goto, UpdateChecker,
         UpdateRewriter, UpdatePool, Drained, serverVars
    <2>4. ~(pc'[t] \in Before)
      BY <2>1 DEF Before
    <2> QED
      BY <1>3, <2>1, <2>2, <2>3, <2>4, VersionsAreNumbers DEF Ordered
  <1>6. CASE UpdateAudit(t)
    <2>1. /\ pc'[t] = "idle" /\ UNCHANGED <<live, checker, rewriter, pool>>
          /\ live = loaded[t]
          /\ checker = live["security"] /\ rewriter = live["security"] /\ pool = live["config"]
      BY <1>1, <1>6, VersionsAreNumbers DEF UpdateAudit, Goto, OrderedAt
    <2>2. audit' \in {audit, live["config"]}
          /\ (audit' = live["config"] \/ live["config"] \in env.noLogDir)
      BY <1>6, <2>1 DEF UpdateAudit
    <2>3. RunsOn(live)'
      BY <1>0, <2>1, <2>2 DEF RunsOn
    <2>4. Behind' /\ audit' >= audit
      BY <1>0, <1>1, <2>1, <2>2, VersionsAreNumbers DEF Behind
    <2>5. OrderedAt(t)'
      BY <2>1 DEF OrderedAt, Parsed
    <2> QED
      BY <1>3, <2>1, <2>3, <2>4, <2>5, VersionsAreNumbers DEF Ordered
  <1> QED
    BY <1>4, <1>5, <1>6 DEF Updating

OneInv == TInv /\ TriggerOK /\ (OneReloader => Ordered)

LEMMA OneStep == OneInv /\ [Next]_vars => (OneReloader => Ordered)'
  <1> SUFFICES ASSUME OneInv, [Next]_vars, OneReloader' PROVE Ordered'
    OBVIOUS
  <1>0. env' = env
    BY DEF Next, vars, Write, StartWatcher, HandleEvent, CheckMtime, Reload, Step, Load,
           LoadSecurity, Stat, UpdateLive, UpdateChecker, UpdateRewriter, UpdatePool, Drained,
           UpdateAudit
  <1>1. TInv /\ Alone /\ Ordered
    BY <1>0, OneIsAlone DEF OneInv, OneReloader
  <1>2. CASE UNCHANGED vars
    BY <1>1, <1>2 DEF vars, Ordered, OrderedAt, Behind, RunsOn, diskVars, serverVars
  <1> QED
    BY <1>1, <1>2, OrderedWrite, OrderedStart, OrderedLoad, OrderedUpdate DEF Next, Step, Updating

LEMMA OneInvariance == Spec => []OneInv
  <1>1. Init => TriggerOK
    BY DEF Init, TriggerOK, Thread
  <1>2. Init => OneInv
    BY <1>1, InitTInv, InitOrdered DEF OneInv
  <1>3. OneInv /\ TInv' /\ [Next]_vars => OneInv'
    BY TriggeredStep, OneStep DEF OneInv
  <1> QED
    BY <1>2, <1>3, Typed, PTL DEF Spec

\* With one reloading goroutine all holders of configuration agree between
\* reloads, also after reloads that failed half way.
THEOREM HoldersAgree == Spec => []ComponentsAgree
  <1>1. OneInv => ComponentsAgree
    BY DEF OneInv, Ordered, ComponentsAgree, Quiet, Before
  <1> QED
    BY <1>1, OneInvariance, PTL

\* With one reloading goroutine nothing returns to an older version of a file.
THEOREM OnlyForward == Spec => NeverBackwards
  <1>1. ASSUME OneInv, [Next]_vars, OneReloader
        PROVE  /\ \A f \in File : live'[f] >= live[f]
               /\ checker' >= checker /\ rewriter' >= rewriter
               /\ pool' >= pool /\ audit' >= audit
    <2>1. TInv /\ Alone /\ Ordered
      BY <1>1, OneIsAlone DEF OneInv
    <2>2. CASE UNCHANGED serverVars
      BY <2>1, <2>2, VersionsAreNumbers DEF serverVars
    <2>3. CASE \E t \in Thread : Updating(t)
      BY <2>1, <2>3, OrderedUpdate
    <2> QED
      BY <1>1, <2>2, <2>3 DEF Next, vars, Write, StartWatcher, HandleEvent, CheckMtime, Reload,
         Step, Load, LoadSecurity, Stat, Updating
  <1>2. OneInv /\ [Next]_vars
          => [OneReloader =>
                /\ \A f \in File : live'[f] >= live[f]
                /\ checker' >= checker /\ rewriter' >= rewriter
                /\ pool' >= pool /\ audit' >= audit]_vars
    BY <1>1
  <1> QED
    BY <1>2, OneInvariance, PTL DEF Spec, NeverBackwards
-----------------------------------------------------------------------------
(* Events and what they bring.                                             *)

\* Once every event has been received, the event goroutine has read, or is about
\* to read, what is on disk.
Caught ==
    env.notifies /\ ~missed /\ pending = 0 =>
        \/ file = [f \in File |-> 1]
        \/ pc["event"] = "load"
        \/ pc["event"] = "loadSecurity" /\ loaded["event"]["config"] = file["config"]
        \/ pc["event"] \notin {"load", "loadSecurity"} /\ (Readable => loaded["event"] = file)

LEMMA CaughtWrite == ASSUME TInv, NEW f \in File, Write(f) PROVE Caught'
  <1>1. pending \in Nat /\ watching \in BOOLEAN
    <2>1. {watching, missed} \subseteq BOOLEAN
      BY DEF TInv, TypeOK
    <2> QED
      BY <2>1, EnvTyped DEF TInv, TypeOK
  <1>2. CASE ~watching
    BY <1>2 DEF Write, Caught
  <1>3. CASE watching /\ env.notifies
    <2>1. pending' \in {pending + 1} \cup (IF pending > 0 THEN {pending} ELSE {})
      BY <1>3 DEF Write
    <2>2. pending' # 0
      BY <1>1, <2>1
    <2> QED
      BY <2>2 DEF Caught
  <1>4. CASE ~env.notifies
    BY <1>4 DEF Write, Caught
  <1> QED
    BY <1>2, <1>3, <1>4

LEMMA CaughtLoad ==
    ASSUME TInv, Caught, NEW t \in Thread, Load(t) \/ LoadSecurity(t)
    PROVE  Caught'
  <1>0. /\ pc \in [Thread -> Steps] /\ "event" \in Thread
        /\ file \in [File -> Version] /\ loaded \in [Thread -> [File -> 0..env.versions]]
        /\ File = {"config", "security"} /\ "config" # "security"
    BY DEF TInv, TypeOK, Thread, File
  <1>1. UNCHANGED <<env, missed, pending, file>> /\ (Readable' <=> Readable)
    BY DEF Load, LoadSecurity, diskVars, watchVars, Readable
  <1>2. CASE t # "event"
    <2>1. pc'["event"] = pc["event"] /\ loaded'["event"] = loaded["event"]
      BY <1>0, <1>2 DEF Load, LoadSecurity, Goto
    <2> QED
      BY <1>1, <2>1 DEF Caught
  <1>3. CASE t = "event" /\ Load(t)
    <2>1. CASE <<"config", file["config"]>> \in env.bad
      <3>1. ~Readable'
        BY <1>1, <2>1 DEF Readable, File
      <3>2. pc'["event"] = "idle"
        BY <1>0, <1>3, <2>1 DEF Load, Goto
      <3> QED
        BY <3>1, <3>2 DEF Caught
    <2>2. CASE <<"config", file["config"]>> \notin env.bad
      <3>1. pc'["event"] = "loadSecurity" /\ loaded'["event"]["config"] = file["config"]
        BY <1>0, <1>3, <2>2 DEF Load, Goto
      <3> QED
        BY <1>1, <3>1 DEF Caught
    <2> QED
      BY <2>1, <2>2
  <1>4. CASE t = "event" /\ LoadSecurity(t)
    <2>1. CASE <<"security", file["security"]>> \in env.bad
      <3>1. ~Readable'
        BY <1>1, <2>1 DEF Readable, File
      <3>2. pc'["event"] = "idle"
        BY <1>0, <1>4, <2>1 DEF LoadSecurity, Goto
      <3> QED
        BY <3>1, <3>2 DEF Caught
    <2>2. CASE <<"security", file["security"]>> \notin env.bad
      <3>1. /\ pc["event"] = "loadSecurity" /\ pc'["event"] = "stat"
            /\ loaded'["event"] = [loaded["event"] EXCEPT !["security"] = file["security"]]
        BY <1>0, <1>4, <2>2 DEF LoadSecurity, Goto
      <3>2. loaded["event"]["config"] = file["config"] => loaded'["event"] = file
        <4>1. loaded["event"] \in [File -> 0..env.versions]
          BY <1>0
        <4> QED
          BY <1>0, <3>1, <4>1
      <3> QED
        BY <1>1, <3>1, <3>2 DEF Caught
    <2> QED
      BY <2>1, <2>2
  <1> QED
    BY <1>2, <1>3, <1>4

LEMMA CaughtOther ==
    ASSUME TInv, Caught, StartWatcher \/ HandleEvent \/ CheckMtime \/ Reload
                         \/ (\E t \in Thread : Stat(t) \/ Updating(t))
    PROVE  Caught'
  <1>0. pc \in [Thread -> Steps] /\ "event" \in Thread
    BY DEF TInv, TypeOK, Thread
  <1>1. UNCHANGED <<env, missed, file, loaded>> /\ (Readable' <=> Readable)
    BY DEF StartWatcher, HandleEvent, CheckMtime, Reload, Stat, Updating, UpdateLive, UpdateChecker,
           UpdateRewriter, UpdatePool, Drained, UpdateAudit, diskVars, watchVars, Readable
  <1>2. \/ UNCHANGED <<pending, pc>>
        \/ pc'["event"] = "load"
        \/ /\ UNCHANGED pending
           /\ \/ pc'["event"] = pc["event"]
              \/ {pc["event"], pc'["event"]} \cap {"load", "loadSecurity"} = {}
    BY <1>0 DEF StartWatcher, HandleEvent, CheckMtime, Reload, Stat, Updating, UpdateLive,
           UpdateChecker, UpdateRewriter, UpdatePool, Drained, UpdateAudit, Goto, watchVars
  <1> QED
    BY <1>1, <1>2 DEF Caught

LEMMA CaughtAlways == Spec => []Caught
  <1>1. Init => Caught
    BY DEF Init, Caught
  <1>2. ASSUME TInv, Caught, [Next]_vars PROVE Caught'
    <2>1. CASE UNCHANGED vars
      BY <1>2, <2>1 DEF vars, diskVars, watchVars, Caught, Readable
    <2> QED
      BY <1>2, <2>1, CaughtWrite, CaughtLoad, CaughtOther DEF Next, Step, Updating
  <1> QED
    BY <1>1, <1>2, Typed, PTL DEF Spec

\* With events delivered, what the event goroutine has loaded is what is on
\* disk once no event is queued (NothingOverlooked): the safety half of
\* LastWriteIsLoaded, with any number of other reloads.
THEOREM EveryWriteIsRead == Spec => []NothingOverlooked
  <1>1. Caught => NothingOverlooked
    BY DEF Caught, NothingOverlooked
  <1> QED
    BY <1>1, CaughtAlways, PTL

\* When only events reload, a goroutine that has nothing to do has taken to the
\* server what it read.
Settled ==
    env.notifies /\ OneReloader /\ ~missed /\ pending = 0 /\ Readable /\ pc["event"] = "idle"
        => live = file

SettledInv == OneInv /\ Caught /\ Settled

LEMMA SettledStep == SettledInv /\ [Next]_vars => Settled'
  <1> SUFFICES ASSUME SettledInv, [Next]_vars,
                      env'.notifies, OneReloader', ~missed', pending' = 0, Readable',
                      pc'["event"] = "idle"
               PROVE  live' = file'
    BY DEF Settled
  <1>0. /\ TInv /\ Caught /\ Settled
        /\ pc \in [Thread -> Steps] /\ "event" \in Thread
        /\ live \in [File -> Version] /\ loaded \in [Thread -> [File -> 0..env.versions]]
    BY DEF SettledInv, OneInv, TInv, TypeOK, Thread
  <1>1. env' = env /\ OneReloader
    BY DEF Next, vars, Write, StartWatcher, HandleEvent, CheckMtime, Reload, Step, Load,
           LoadSecurity, Stat, UpdateLive, UpdateChecker, UpdateRewriter, UpdatePool, Drained,
           UpdateAudit, OneReloader
  <1>2. Ordered /\ Alone /\ TriggerOK
    BY <1>0, <1>1, OneIsAlone DEF SettledInv, OneInv
  <1>3. \A t \in Thread : pc[t] # "idle" => t = "event"
    BY <1>1, <1>2, <1>0 DEF OneReloader, TriggerOK, Thread
  <1>4. CASE UNCHANGED <<file, missed, pending, pc, live>>
    BY <1>0, <1>1, <1>4 DEF Settled, Readable
  <1>5. ASSUME NEW f \in File, Write(f) PROVE FALSE
    <2>1. watching /\ pending \in Nat
      <3>1. missed' = ~watching /\ {watching, missed} \subseteq BOOLEAN
        BY <1>0, <1>5 DEF Write, TInv, TypeOK
      <3>2. watching
        BY <3>1
      <3> QED
        BY <1>0, <3>2, EnvTyped DEF TInv, TypeOK
    <2>2. pending' \in {pending + 1} \cup (IF pending > 0 THEN {pending} ELSE {})
      BY <1>1, <1>5, <2>1 DEF Write
    <2> QED
      BY <2>1, <2>2
  <1>6. CASE StartWatcher
    BY <1>4, <1>6 DEF StartWatcher, diskVars, serverVars
  <1>7. CASE HandleEvent
    BY <1>0, <1>7 DEF HandleEvent, Goto
  <1>8. CASE CheckMtime \/ Reload
    <2>1. env.polls \/ env.sighups # 0
      BY <1>0, <1>8, EnvTyped DEF CheckMtime, Reload, TInv, TypeOK
    <2> QED
      BY <1>1, <2>1 DEF OneReloader
  <1>9. ASSUME NEW t \in Thread, Step(t) PROVE live' = file'
    <2>1. t = "event"
      BY <1>3, <1>9 DEF Step, Load, LoadSecurity, Stat, UpdateLive, UpdateChecker,
         UpdateRewriter, UpdatePool, Drained, UpdateAudit, Goto
    <2>2. CASE Load(t) \/ LoadSecurity(t)
      <3>1. UNCHANGED file /\ (<<"config", file["config"]>> \in env.bad
                                \/ <<"security", file["security"]>> \in env.bad)
        BY <1>0, <2>1, <2>2 DEF Load, LoadSecurity, Goto, diskVars
      <3> QED
        BY <1>1, <3>1 DEF Readable, File
    <2>3. CASE Stat(t) \/ UpdateLive(t) \/ UpdateChecker(t) \/ UpdateRewriter(t) \/ UpdatePool(t)
               \/ Drained(t)
      BY <1>0, <2>1, <2>3 DEF Stat, UpdateLive, UpdateChecker, UpdateRewriter, UpdatePool,
         Drained, Goto
    <2>4. CASE UpdateAudit(t)
      <3>1. pc["event"] = "audit" /\ UNCHANGED <<file, missed, pending, live>>
        BY <2>1, <2>4 DEF UpdateAudit, Goto, diskVars, watchVars
      <3>2. live = loaded["event"]
        BY <1>0, <1>2, <3>1 DEF Ordered, OrderedAt
      <3>3. file = [f \in File |-> 1] \/ loaded["event"] = file
        BY <1>0, <1>1, <3>1 DEF Caught, Readable
      <3>4. CASE file = [f \in File |-> 1]
        <4>1. \A f \in File : live[f] = 1
          <5>1. \A f \in File : live[f] \in Nat /\ live[f] # 0 /\ live[f] <= 1
            BY <1>0, <1>2, <3>4, EnvTyped DEF Ordered, Behind, TInv, TypeOK
          <5> QED
            BY <5>1
        <4> QED
          BY <1>0, <3>1, <3>4, <4>1
      <3> QED
        BY <3>1, <3>2, <3>3, <3>4
    <2> QED
      BY <1>9, <2>2, <2>3, <2>4 DEF Step
  <1>10. CASE UNCHANGED vars
    BY <1>4, <1>10 DEF vars, diskVars, watchVars, serverVars
  <1> QED
    BY <1>5, <1>6, <1>7, <1>8, <1>9, <1>10 DEF Next

\* When only events reload, a server with no event left to handle runs on what
\* is on disk (SettledIsCurrent): the safety half of EventsConverge.
THEOREM SettledOnDisk == Spec => []SettledIsCurrent
  <1>1. Init => Settled
    BY DEF Init, Settled
  <1>2. SettledInv => SettledIsCurrent
    <2> SUFFICES ASSUME SettledInv, env.notifies, OneReloader, pending = 0, ~missed, Readable, Quiet
                 PROVE  RunsOn(file)
      BY DEF SettledIsCurrent
    <2>1. live = file
      BY DEF SettledInv, Settled, Quiet, Thread
    <2>2. RunsOn(live)
      BY DEF SettledInv, OneInv, Ordered, Quiet, Before
    <2> QED
      BY <2>1, <2>2
  <1>3. []Caught /\ []OneInv /\ Init /\ [][Next]_vars => []Settled
    BY <1>1, SettledStep, PTL DEF SettledInv
  <1> QED
    BY <1>2, <1>3, CaughtAlways, OneInvariance, PTL DEF Spec, SettledInv
=============================================================================
