----------------------------- MODULE HotReload -----------------------------
(***************************************************************************)
(* Hot configuration reload: config.Watcher and config.ReloadableConfig    *)
(* (internal/config/watcher.go) and Server.UpdateConfig                    *)
(* (internal/server/http.go), which takes a loaded pair of files to the    *)
(* live configuration, the checker, the rewriter, the pool and the audit   *)
(* logger one after the other.                                             *)
(*                                                                         *)
(* Three goroutines may run reload at the same time: "event" (fsnotify),   *)
(* "poll" (modification times) and "main" (SIGHUP).  Contents of a file    *)
(* are numbered in the order they are written.  fsnotify and the file      *)
(* system are external.                                                    *)
(***************************************************************************)
EXTENDS Integers

CONSTANT Environments  \* what the process may be started in and exposed to

File == {"config", "security"}
Thread == {"event", "poll", "main"}
PosNat == Nat \ {0}

\* An environment: how many contents are written per file (a bound), which of
\* them do not parse, for which configurations the audit directory cannot be
\* made, whether the file system delivers events, whether CONFIG_POLL_INTERVAL
\* is set, whether two writes may get the same modification time, and how many
\* SIGHUPs are sent (a bound).
Environment ==
    [versions : PosNat, bad : SUBSET (File \X PosNat), noLogDir : SUBSET PosNat,
     notifies : BOOLEAN, polls : BOOLEAN, coarse : BOOLEAN, sighups : Nat]

\* The program starts on the first contents.
ASSUME ReloadAssumption ==
    /\ Environments \subseteq Environment
    /\ \A e \in Environments : 1 \notin e.noLogDir /\ \A f \in File : <<f, 1>> \notin e.bad

VARIABLES env,       \* the environment, one of Environments
          file,      \* the version on disk
          mtime,     \* its modification time
          pending,   \* fsnotify events not yet received
          watching,  \* main has got as far as NewWatcher and Start
          missed,    \* the last write came before the watcher was set up
          lastMod,   \* w.lastConfigMod, w.lastSecurityMod
          sighups,   \* SIGHUPs received
          pc,        \* where a goroutine is in reload and UpdateConfig
          loaded,    \* the versions its reload has read
          live,      \* ReloadableConfig
          checker,   \* version of the rules in the Checker
          rewriter,  \* version of the rules in the Rewriter
          pool,      \* version of the clusters in the Pool
          routes,    \* version of the databases in the Router
          audit      \* version of the settings in the audit Logger

diskVars == <<file, mtime, missed>>
watchVars == <<pending, watching, lastMod, sighups>>
serverVars == <<live, checker, rewriter, pool, routes, audit>>
vars == <<env, diskVars, watchVars, pc, loaded, serverVars>>

Version == 1..env.versions

Steps == {"idle", "load", "loadSecurity", "stat", "live", "checker", "rewriter",
          "pool", "drain", "audit"}

TypeOK ==
    /\ env \in Environments
    /\ file \in [File -> Version]
    /\ mtime \in [File -> Version]
    /\ pending \in 0..(2 * env.versions)
    /\ {watching, missed} \subseteq BOOLEAN
    /\ lastMod \in [File -> 0..env.versions]
    /\ sighups \in 0..env.sighups
    /\ pc \in [Thread -> Steps]
    /\ loaded \in [Thread -> [File -> 0..env.versions]]
    /\ live \in [File -> Version]
    /\ {checker, rewriter, pool, routes, audit} \subseteq Version

\* NewReloadableConfig and server.New have used the first version of both.
Init ==
    /\ env \in Environments
    /\ file = [f \in File |-> 1]
    /\ mtime = [f \in File |-> 1]
    /\ pending = 0
    /\ watching = FALSE
    /\ missed = FALSE
    /\ lastMod = [f \in File |-> 0]
    /\ sighups = 0
    /\ pc = [t \in Thread |-> "idle"]
    /\ loaded = [t \in Thread |-> [f \in File |-> 0]]
    /\ live = [f \in File |-> 1]
    /\ checker = 1 /\ rewriter = 1 /\ pool = 1 /\ routes = 1 /\ audit = 1

-----------------------------------------------------------------------------
(* The world outside.                                                      *)

\* A file is written.  The kernel may merge the event with one still queued.
Write(f) ==
    /\ file[f] < env.versions
    /\ file' = [file EXCEPT ![f] = @ + 1]
    /\ \E d \in IF env.coarse THEN {0, 1} ELSE {1} : mtime' = [mtime EXCEPT ![f] = @ + d]
    /\ missed' = ~watching
    /\ IF env.notifies /\ watching
       THEN pending' \in {pending + 1} \cup (IF pending > 0 THEN {pending} ELSE {})
       ELSE UNCHANGED pending
    /\ UNCHANGED <<env, watching, lastMod, sighups, pc, loaded, serverVars>>

-----------------------------------------------------------------------------
(* Watcher.                                                                *)

\* NewWatcher, SetSecurityPath, Start.
StartWatcher ==
    /\ ~watching
    /\ watching' = TRUE
    /\ lastMod' = mtime
    /\ UNCHANGED <<env, diskVars, pending, sighups, pc, loaded, serverVars>>

Goto(t, from, to) == pc[t] = from /\ pc' = [pc EXCEPT ![t] = to]

\* Fault: an event is dropped when the modification times look old.
HandleEventIfNewer ==
    /\ pending > 0
    /\ pending' = pending - 1
    /\ IF \E f \in File : mtime[f] > lastMod[f]
       THEN Goto("event", "idle", "load")
       ELSE pc["event"] = "idle" /\ UNCHANGED pc
    /\ UNCHANGED <<env, diskVars, watching, lastMod, sighups, loaded, serverVars>>

\* handleEvent, in the event goroutine itself.
HandleEvent ==
    /\ pending > 0
    /\ pending' = pending - 1
    /\ Goto("event", "idle", "load")
    /\ UNCHANGED <<env, diskVars, watching, lastMod, sighups, loaded, serverVars>>

\* checkMtime finds a newer file.
CheckMtime ==
    /\ env.polls /\ watching
    /\ \E f \in File : mtime[f] > lastMod[f]
    /\ Goto("poll", "idle", "load")
    /\ UNCHANGED <<env, diskVars, watchVars, loaded, serverVars>>

\* Reload, on SIGHUP.
Reload ==
    /\ watching /\ sighups < env.sighups
    /\ sighups' = sighups + 1
    /\ Goto("main", "idle", "load")
    /\ UNCHANGED <<env, diskVars, pending, watching, lastMod, loaded, serverVars>>

\* reload: Load of the configuration; an error ends the reload.
Load(t) ==
    /\ IF <<"config", file["config"]>> \in env.bad
       THEN Goto(t, "load", "idle") /\ UNCHANGED loaded
       ELSE /\ Goto(t, "load", "loadSecurity")
            /\ loaded' = [loaded EXCEPT ![t]["config"] = file["config"]]
    /\ UNCHANGED <<env, diskVars, watchVars, serverVars>>

\* Fault: the error of LoadSecurity is logged but does not end the reload.
LoadSecurityGoesOn(t) ==
    /\ Goto(t, "loadSecurity", "stat")
    /\ loaded' = [loaded EXCEPT ![t]["security"] =
                     IF <<"security", file["security"]>> \in env.bad THEN 0 ELSE file["security"]]
    /\ UNCHANGED <<env, diskVars, watchVars, serverVars>>

LoadSecurity(t) ==
    /\ IF <<"security", file["security"]>> \in env.bad
       THEN Goto(t, "loadSecurity", "idle") /\ UNCHANGED loaded
       ELSE /\ Goto(t, "loadSecurity", "stat")
            /\ loaded' = [loaded EXCEPT ![t]["security"] = file["security"]]
    /\ UNCHANGED <<env, diskVars, watchVars, serverVars>>

\* Fault: only the configuration file's time is recorded.
StatConfigOnly(t) ==
    /\ Goto(t, "stat", "live")
    /\ lastMod' = [lastMod EXCEPT !["config"] = mtime["config"]]
    /\ UNCHANGED <<env, diskVars, pending, watching, sighups, loaded, serverVars>>

\* Fault: the callback runs in a goroutine of its own.
StatAsync(t) ==
    /\ pc[t] = "stat"
    /\ lastMod' = mtime
    /\ \E other \in Thread \ {t} :
          /\ pc[other] = "idle"
          /\ pc' = [pc EXCEPT ![t] = "idle", ![other] = "live"]
          /\ loaded' = [loaded EXCEPT ![other] = loaded[t]]
    /\ UNCHANGED <<env, diskVars, pending, watching, sighups, serverVars>>

\* Fault: the events that came during the load are taken for its own.
StatDiscards(t) ==
    /\ Goto(t, "stat", "live")
    /\ lastMod' = mtime
    /\ pending' = 0
    /\ UNCHANGED <<env, diskVars, watching, sighups, loaded, serverVars>>

\* The modification times are those of now, not of the contents loaded.
Stat(t) ==
    /\ Goto(t, "stat", "live")
    /\ lastMod' = mtime
    /\ UNCHANGED <<env, diskVars, pending, watching, sighups, loaded, serverVars>>

-----------------------------------------------------------------------------
(* Server.UpdateConfig, the callback.                                      *)

UpdateLive(t) ==
    /\ Goto(t, "live", "checker")
    /\ live' = loaded[t]
    /\ UNCHANGED <<env, diskVars, watchVars, loaded, checker, rewriter, pool, routes, audit>>

UpdateChecker(t) ==
    /\ Goto(t, "checker", "rewriter")
    /\ checker' = loaded[t]["security"]
    /\ UNCHANGED <<env, diskVars, watchVars, loaded, live, rewriter, pool, routes, audit>>

\* Fault: UpdateSecurityRules forgets the rewriter.
UpdateRewriterNot(t) ==
    /\ Goto(t, "rewriter", "pool")
    /\ UNCHANGED <<env, diskVars, watchVars, loaded, serverVars>>

UpdateRewriter(t) ==
    /\ Goto(t, "rewriter", "pool")
    /\ rewriter' = loaded[t]["security"]
    /\ UNCHANGED <<env, diskVars, watchVars, loaded, live, checker, pool, routes, audit>>

\* Phase 1 of Pool.UpdateConfig; then it drains what it marked.  The Router's
\* UpdateConfig is not called.
UpdatePool(t) ==
    /\ Goto(t, "pool", "drain")
    /\ pool' = loaded[t]["config"]
    /\ UNCHANGED <<env, diskVars, watchVars, loaded, live, checker, rewriter, routes, audit>>

Drained(t) ==
    /\ Goto(t, "drain", "audit")
    /\ UNCHANGED <<env, diskVars, watchVars, loaded, serverVars>>

UpdateAudit(t) ==
    /\ Goto(t, "audit", "idle")
    /\ audit' = IF loaded[t]["config"] \in env.noLogDir THEN audit ELSE loaded[t]["config"]
    /\ UNCHANGED <<env, diskVars, watchVars, loaded, live, checker, rewriter, pool, routes>>

-----------------------------------------------------------------------------
Step(t) ==
    \/ Load(t) \/ LoadSecurity(t) \/ Stat(t)
    \/ UpdateLive(t) \/ UpdateChecker(t) \/ UpdateRewriter(t)
    \/ UpdatePool(t) \/ Drained(t) \/ UpdateAudit(t)

Next ==
    \/ \E f \in File : Write(f)
    \/ StartWatcher \/ HandleEvent \/ CheckMtime \/ Reload
    \/ \E t \in Thread : Step(t)

Spec == Init /\ [][Next]_vars

\* Goroutines run on, events are received, the poll ticker keeps ticking.
Fairness ==
    /\ WF_vars(StartWatcher) /\ WF_vars(HandleEvent) /\ WF_vars(CheckMtime)
    /\ \A t \in Thread : WF_vars(Step(t))

FairSpec == Spec /\ Fairness

-----------------------------------------------------------------------------
(* Correctness.                                                            *)

Quiet == \A t \in Thread : pc[t] = "idle"

\* At most one goroutine reloads: events, polling or SIGHUP is all there is.
OneReloader ==
    \/ ~env.polls /\ env.sighups = 0
    \/ ~env.notifies /\ (env.polls => env.sighups = 0)

\* The server runs on the given versions of the two files.
RunsOn(v) ==
    /\ live = v
    /\ checker = v["security"] /\ rewriter = v["security"]
    /\ pool = v["config"]
    /\ audit = v["config"] \/ v["config"] \in env.noLogDir

Readable == \A f \in File : <<f, file[f]>> \notin env.bad

\* With one reloading goroutine: between reloads the holders of configuration
\* that Server.UpdateConfig updates agree, none is left on the rules or clusters
\* of another reload, also after reloads that failed half way.
ComponentsAgree == OneReloader /\ Quiet => RunsOn(live)

\* "Routing updated immediately": between reloads the router follows too.
RoutesAgree == Quiet => routes = live["config"]

\* Received events leave nothing unread: with events delivered, once none is
\* queued and the event goroutine has done its two loads, what it has loaded is
\* what is on disk, whatever the other goroutines do and however the writes
\* fell between the loads (or a file does not parse, or the last write came
\* before the watcher).
NothingOverlooked ==
    env.notifies /\ pending = 0 /\ ~missed /\ Readable /\ ~(pc["event"] \in {"load", "loadSecurity"})
        => file = [f \in File |-> 1] \/ loaded["event"] = file

\* When nothing else reloads, a server with no event left to handle runs on
\* what is on disk.
SettledIsCurrent ==
    env.notifies /\ OneReloader /\ pending = 0 /\ ~missed /\ Readable /\ Quiet => RunsOn(file)

\* With one reloading goroutine, no component goes back to an older version of
\* a file.
NeverBackwards ==
    [][OneReloader =>
          /\ \A f \in File : live'[f] >= live[f]
          /\ checker' >= checker /\ rewriter' >= rewriter
          /\ pool' >= pool /\ audit' >= audit]_vars

\* "Changes are detected automatically": once writing has stopped and both
\* files parse, the server ends up on what is on disk, unless the last write
\* fell into the start of the program.
Converges == <>[](Readable /\ ~missed => RunsOn(file))

\* It does when events are delivered and nothing else reloads.
EventsConverge == env.notifies /\ OneReloader => Converges

\* With events, no write is overlooked, however the three goroutines overlap:
\* some reload has read what is on disk (whether a slower reload of older
\* contents then overwrites it is another matter).
LastWriteIsLoaded ==
    env.notifies =>
        <>[](Readable /\ ~missed =>
                file = [f \in File |-> 1] \/ \E t \in Thread : loaded[t] = file)

\* Polling comes to rest: once writing has stopped and the files parse, the
\* poller does not go on reloading, although every tick compares both files.
PollSettles == <>[](Readable => pc["poll"] = "idle")
=============================================================================
