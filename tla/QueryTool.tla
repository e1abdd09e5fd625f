----------------------------- MODULE QueryTool ------------------------------
(***************************************************************************)
(* The query tool (Handler.executeQuery in internal/mcp/tools.go): several *)
(* calls parse, check, rewrite, run and audit their statements while hot   *)
(* reloads replace the rules of the checker, then those of the rewriter,   *)
(* then the settings of the audit logger, one lock after the other.        *)
(*                                                                         *)
(* Reloads run in several goroutines, those of the file events, of the     *)
(* poller and of SIGHUP, under no common lock: they overlap, and what each *)
(* component has in the end is what the last one of them gave to it.       *)
(*                                                                         *)
(* The router is abstract here: a statement sent to the server succeeds or *)
(* fails.  Writing an audit entry to its file succeeds.                    *)
(***************************************************************************)
EXTENDS Sql, Sequences

CONSTANTS Query,        \* tool calls
          Reloader,     \* the goroutines that run Server.UpdateConfig
          Statements,   \* statements they may ask for
          Malformed,    \* a text the parser refuses
          EmptyText,    \* a text with no statement in it: Parse returns nil, nil
          NoStatement

ASSUME QueryAssumption ==
    /\ Statements \subseteq Statement
    /\ {Malformed, EmptyText, NoStatement} \cap Statement = {}

VARIABLES checker,   \* Checker.rules
          rewriter,  \* Rewriter.rules
          auditOn,   \* Logger.enabled
          live,      \* ReloadableConfig.security
          upc,       \* where a reload is in Server.UpdateConfig
          next,      \* the rules it installs
          pc,        \* where a call is in executeQuery
          stmt,      \* what the call asks for
          sent,      \* sqlToExecute
          status,    \* the Status of the entry it is about to log
          reply,     \* what the caller gets
          entries,   \* the statuses the call has logged
          settled,   \* history: rules of finished reloads, not replaced since
          replaces,  \* history: those that were settled before a reload began
          during,    \* history: the rules in force at some time during a call
          audited    \* history: the audit log was on all through the call

reloadVars == <<checker, rewriter, auditOn, live, upc, next, settled, replaces>>
callVars == <<pc, stmt, sent, status, reply, entries>>
vars == <<reloadVars, callVars, during, audited>>

Text == Statement \cup {Malformed, EmptyText}
Status == {"none", "success", "blocked", "error"}
AnyRules == Rules \cup {NoRules}

TypeOK ==
    /\ {checker, rewriter, live} \subseteq AnyRules
    /\ auditOn \in BOOLEAN
    /\ upc \in [Reloader -> {"idle", "checker", "rewriter", "audit"}]
    /\ next \in [Reloader -> AnyRules]
    /\ settled \in SUBSET AnyRules
    /\ replaces \in [Reloader -> SUBSET AnyRules]
    /\ pc \in [Query -> {"new", "check", "rewrite", "run", "rows", "log", "done", "panicked"}]
    /\ stmt \in [Query -> Text \cup {NoStatement}]
    /\ sent \in [Query -> Statement \cup {NoStatement}]
    /\ status \in [Query -> Status]
    /\ reply \in [Query -> Status]
    /\ entries \in [Query -> Seq(Status)]
    /\ during \in [Query -> SUBSET AnyRules]
    /\ audited \in [Query -> BOOLEAN]

\* Without a security file at the start there are no rules, and never will be.
Init ==
    /\ live \in AnyRules
    /\ checker = live /\ rewriter = live /\ settled = {live}
    /\ auditOn \in BOOLEAN
    /\ upc = [u \in Reloader |-> "idle"]
    /\ next = [u \in Reloader |-> NoRules]
    /\ replaces = [u \in Reloader |-> {}]
    /\ pc = [q \in Query |-> "new"]
    /\ stmt = [q \in Query |-> NoStatement]
    /\ sent = [q \in Query |-> NoStatement]
    /\ status = [q \in Query |-> "none"]
    /\ reply = [q \in Query |-> "none"]
    /\ entries = [q \in Query |-> <<>>]
    /\ during = [q \in Query |-> {}]
    /\ audited = [q \in Query |-> FALSE]

-----------------------------------------------------------------------------
(* The rules in force.                                                     *)

Installing(u) == upc[u] \in {"checker", "rewriter"}

\* The rules a call may meet: those of every reload under way, and those of the
\* finished ones but for what a reload that began after them has replaced.
InForce == settled \cup {next[u] : u \in {v \in Reloader : Installing(v)}}

\* A reload has given its rules to the checker and the rewriter.
Settle(u) ==
    /\ settled' = (settled \ replaces[u]) \cup {next[u]}
    /\ replaces' = [v \in Reloader |-> IF v = u THEN {} ELSE replaces[v] \ {next[u]}]

-----------------------------------------------------------------------------
(* executeQuery.                                                           *)

Goto(q, from, to) == pc[q] = from /\ pc' = [pc EXCEPT ![q] = to]

\* Go to Log with an entry of this status.
LogNext(q, from, s) == Goto(q, from, "log") /\ status' = [status EXCEPT ![q] = s]

\* Return without an entry.
Fail(q, from) == Goto(q, from, "done") /\ reply' = [reply EXCEPT ![q] = "error"]

\* handleQueryTool: the database name or the length of the text is refused.
Refuse(q) ==
    /\ Fail(q, "new")
    /\ UNCHANGED <<reloadVars, stmt, sent, status, entries, during, audited>>

\* handleQueryTool, and Parse.
Parse(q, s) ==
    /\ IF s = Malformed THEN LogNext(q, "new", "error")
                        ELSE Goto(q, "new", "check") /\ UNCHANGED status
    /\ stmt' = [stmt EXCEPT ![q] = s]
    /\ during' = [during EXCEPT ![q] = InForce]
    /\ audited' = [audited EXCEPT ![q] = auditOn]
    /\ UNCHANGED <<reloadVars, sent, reply, entries>>

\* Check refuses a nil statement, and executeQuery reads its Type for the entry.
CheckNil(q) ==
    /\ stmt[q] = EmptyText
    /\ Goto(q, "check", "panicked")
    /\ UNCHANGED <<reloadVars, stmt, sent, status, reply, entries, during, audited>>

\* Fault: a statement that is blocked is not logged.
BlockUnlogged(q) ==
    /\ Goto(q, "check", "done")
    /\ stmt[q] # EmptyText
    /\ ~Allowed(checker, stmt[q])
    /\ reply' = [reply EXCEPT ![q] = "blocked"]
    /\ UNCHANGED <<reloadVars, stmt, sent, status, entries, during, audited>>

Block(q) ==
    /\ LogNext(q, "check", "blocked")
    /\ stmt[q] # EmptyText
    /\ ~Allowed(checker, stmt[q])
    /\ UNCHANGED <<reloadVars, stmt, sent, reply, entries, during, audited>>

Pass(q) ==
    /\ pc[q] = "check"
    /\ stmt[q] # EmptyText
    /\ Allowed(checker, stmt[q])
    /\ IF AutoRewrite(checker, stmt[q])
       THEN Goto(q, "check", "rewrite") /\ UNCHANGED sent
       ELSE Goto(q, "check", "run") /\ sent' = [sent EXCEPT ![q] = stmt[q]]
    /\ UNCHANGED <<reloadVars, stmt, status, reply, entries, during, audited>>

\* Rewrite, under the rules the rewriter has by now; without rules its result
\* is the empty text.
RewriteSql(q) ==
    /\ Goto(q, "rewrite", "run")
    /\ sent' = [sent EXCEPT ![q] = IF rewriter = NoRules THEN NoStatement
                                   ELSE Rewrite(rewriter, stmt[q])]
    /\ UNCHANGED <<reloadVars, stmt, status, reply, entries, during, audited>>

IsQuery(s) == TypeOf(s) \in {"SELECT", "SHOW", "EXPLAIN"}

\* Router.Query or Router.Exec returns an error.
RunFails(q) ==
    /\ LogNext(q, "run", "error")
    /\ UNCHANGED <<reloadVars, stmt, sent, reply, entries, during, audited>>

Exec(q) ==
    /\ LogNext(q, "run", "success")
    /\ ~IsQuery(stmt[q])
    /\ UNCHANGED <<reloadVars, stmt, sent, reply, entries, during, audited>>

RunQuery(q) ==
    /\ Goto(q, "run", "rows")
    /\ IsQuery(stmt[q])
    /\ UNCHANGED <<reloadVars, stmt, sent, status, reply, entries, during, audited>>

\* The rows are read, up to max_rows or to the first error of rows.Next.
Fetch(q) ==
    /\ LogNext(q, "rows", "success")
    /\ UNCHANGED <<reloadVars, stmt, sent, reply, entries, during, audited>>

\* rows.Columns or rows.Scan fails.
FetchFails(q) ==
    /\ Fail(q, "rows")
    /\ UNCHANGED <<reloadVars, stmt, sent, status, entries, during, audited>>

\* Logger.Log, and the return.
Log(q) ==
    /\ Goto(q, "log", "done")
    /\ entries' = [entries EXCEPT ![q] = IF auditOn THEN Append(@, status[q]) ELSE @]
    /\ reply' = [reply EXCEPT ![q] = status[q]]
    /\ UNCHANGED <<reloadVars, stmt, sent, status, during, audited>>

-----------------------------------------------------------------------------
(* Server.UpdateConfig.                                                    *)

Running(q) == pc[q] \notin {"new", "done", "panicked"}

UpdateConfig(u, new) ==
    /\ upc[u] = "idle"
    /\ new = NoRules <=> live = NoRules
    /\ live' = new
    /\ next' = [next EXCEPT ![u] = new]
    /\ upc' = [upc EXCEPT ![u] = IF new = NoRules THEN "audit" ELSE "checker"]
    /\ replaces' = [replaces EXCEPT ![u] = settled]
    /\ during' = [q \in Query |-> IF Running(q) THEN during[q] \cup {new} ELSE during[q]]
    /\ UNCHANGED <<checker, rewriter, auditOn, settled, callVars, audited>>

\* Fault: UpdateSecurityRules forgets the checker.
UpdateCheckerNot(u) ==
    /\ upc[u] = "checker"
    /\ upc' = [upc EXCEPT ![u] = "rewriter"]
    /\ UNCHANGED <<checker, rewriter, auditOn, live, next, settled, replaces, callVars, during, audited>>

UpdateChecker(u) ==
    /\ upc[u] = "checker"
    /\ upc' = [upc EXCEPT ![u] = "rewriter"]
    /\ checker' = next[u]
    /\ UNCHANGED <<rewriter, auditOn, live, next, settled, replaces, callVars, during, audited>>

\* Fault: UpdateSecurityRules forgets the rewriter.
UpdateRewriterNot(u) ==
    /\ upc[u] = "rewriter"
    /\ upc' = [upc EXCEPT ![u] = "audit"]
    /\ Settle(u)
    /\ UNCHANGED <<checker, rewriter, auditOn, live, next, callVars, during, audited>>

UpdateRewriter(u) ==
    /\ upc[u] = "rewriter"
    /\ upc' = [upc EXCEPT ![u] = "audit"]
    /\ rewriter' = next[u]
    /\ Settle(u)
    /\ UNCHANGED <<checker, auditOn, live, next, callVars, during, audited>>

\* The last step: the reload returns.
UpdateAudit(u) ==
    /\ upc[u] = "audit"
    /\ upc' = [upc EXCEPT ![u] = "idle"]
    /\ next' = [next EXCEPT ![u] = NoRules]
    /\ auditOn' \in BOOLEAN
    /\ audited' = [q \in Query |-> audited[q] /\ auditOn']
    /\ UNCHANGED <<checker, rewriter, live, settled, replaces, callVars, during>>

-----------------------------------------------------------------------------
Execute(q) ==
    \/ Refuse(q)
    \/ \E s \in Statements \cup {Malformed, EmptyText} : Parse(q, s)
    \/ CheckNil(q) \/ Block(q) \/ Pass(q) \/ RewriteSql(q)
    \/ RunFails(q) \/ Exec(q) \/ RunQuery(q) \/ Log(q)

Call(q) == Execute(q) \/ Fetch(q) \/ FetchFails(q)

Update(u) == UpdateChecker(u) \/ UpdateRewriter(u) \/ UpdateAudit(u)

Next ==
    \/ \E q \in Query : Call(q)
    \/ \E u \in Reloader :
          \/ \E new \in AnyRules : UpdateConfig(u, new)
          \/ Update(u)

Spec == Init /\ [][Next]_vars

-----------------------------------------------------------------------------
(* Correctness.                                                            *)

AtServer(q) == pc[q] \in {"run", "rows"}

\* No UPDATE or DELETE of all rows reaches the server without a LIMIT, whatever
\* reloads fall between the check and the rewriting, unless rules that set no
\* auto_limit were in force during the call (or the text ends in a comment).
BoundedWrites ==
    \A q \in Query :
        AtServer(q) /\ BareWrite(stmt[q]) /\ ~stmt[q].comment
            => \/ sent[q] \in Statement /\ sent[q].limit # NoLimit
               \/ \E R \in during[q] : R = NoRules \/ R.autoLimit <= 0

\* What executeQuery sends when the checker has R and the rewriter W.
SendsMixed(R, W, s) == IF AutoRewrite(R, s) THEN Rewrite(W, s) ELSE s

\* "New rules apply immediately": whatever reloads fall into a call or overlap
\* each other, the checker admits or blocks it by rules that were in force
\* during the call, and when they ask for a LIMIT, the rewriter sets it by rules
\* that were too; never by rules that a finished reload has replaced.  Reloads
\* that overlapped may have left the checker and the rewriter with different
\* rules: both stay in force until the next reload.
\*
\* Only UPDATE and DELETE without WHERE are promised a LIMIT.  A SELECT is sent
\* as it was asked for, its LIMIT above max_limit too: executeQuery asks for no
\* rewriting of it, although the documents call max_limit the maximum allowed.
VerdictMatchesRules ==
    \A q \in Query :
        /\ AtServer(q) \/ sent[q] # NoStatement
              => \E R \in during[q], W \in during[q] :
                    /\ Allowed(R, stmt[q])
                    /\ W = NoRules <=> R = NoRules
                    /\ sent[q] = SendsMixed(R, W, stmt[q])
        /\ reply[q] = "blocked" \/ (pc[q] = "log" /\ status[q] = "blocked")
              => \E R \in during[q] : ~Allowed(R, stmt[q])

\* A call logs at most one entry, the entry says what the caller was told, and
\* while the audit log is on every success, every blocked statement and every
\* failed write has one.
AuditMatches ==
    \A q \in Query :
        /\ Len(entries[q]) <= 1
        /\ pc[q] # "done" => entries[q] = <<>>
        /\ entries[q] # <<>> => entries[q][1] = reply[q]
        /\ /\ pc[q] = "done" /\ audited[q]
           /\ \/ reply[q] \in {"success", "blocked"}
              \/ sent[q] # NoStatement /\ ~IsQuery(stmt[q])
           => Len(entries[q]) = 1

\* "In-flight queries continue with old rules": what is sent is what one set of
\* rules makes of the statement.
OneRuleSet ==
    \A q \in Query :
        AtServer(q) => \E R \in during[q] : Allowed(R, stmt[q]) /\ sent[q] = Sends(R, stmt[q])
=============================================================================
