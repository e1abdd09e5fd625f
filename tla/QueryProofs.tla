---------------------------- MODULE QueryProofs -----------------------------
(***************************************************************************)
(* The safety of the query tool, for every set of rules, calls and         *)
(* statements, and any number of reloads that overlap.  RulesInv says that *)
(* what the checker and the rewriter hold is in force, whichever reload    *)
(* gave it to them last; DuringInv that it was in force at some time       *)
(* during every call that is running; CallInv what each step of a call can *)
(* rely on.                                                                *)
(***************************************************************************)
EXTENDS QueryTool, TLAPS

\* The checker has the rules of a reload that has yet to reach the rewriter, or
\* settled ones that no reload past the checker is about to replace.
CheckerInForce ==
    \/ \E u \in Reloader : upc[u] = "rewriter" /\ next[u] = checker
    \/ /\ checker \in settled
       /\ \A u \in Reloader : upc[u] = "rewriter" => checker \notin replaces[u]

RulesInv ==
    /\ CheckerInForce
    /\ rewriter \in settled
    /\ \A R \in settled : R = NoRules <=> live = NoRules
    /\ \A u \in Reloader : Installing(u) => next[u] # NoRules /\ live # NoRules

DuringInv(q) ==
    Running(q) => /\ InForce \subseteq during[q]
                  /\ \A R \in during[q] : R = NoRules <=> live = NoRules
                  /\ audited[q] => auditOn

Admitted(q) == \E R \in during[q] : Allowed(R, stmt[q]) /\ AutoRewrite(R, stmt[q])

SentOK(q) ==
    \E R \in during[q], W \in during[q] :
        /\ Allowed(R, stmt[q])
        /\ W = NoRules <=> R = NoRules
        /\ sent[q] = SendsMixed(R, W, stmt[q])

BlockedOK(q) == \E R \in during[q] : ~Allowed(R, stmt[q])

Unlimited(q) == \E R \in during[q] : R = NoRules \/ R.autoLimit <= 0

Bounded(q) ==
    BareWrite(stmt[q]) /\ ~stmt[q].comment
        => (sent[q] \in Statement /\ sent[q].limit # NoLimit) \/ Unlimited(q)

CallInv(q) ==
    /\ pc[q] # "done" => entries[q] = <<>> /\ reply[q] = "none"
    /\ pc[q] \in {"new", "check", "rewrite"} => sent[q] = NoStatement
    /\ pc[q] = "check" => stmt[q] \in Statement \cup {EmptyText}
    /\ pc[q] \in {"rewrite", "run", "rows"} => stmt[q] \in Statement
    /\ pc[q] = "rewrite" => Admitted(q) /\ live # NoRules
    /\ AtServer(q) => Bounded(q)
    /\ AtServer(q) \/ sent[q] # NoStatement => SentOK(q)
    /\ reply[q] = "blocked" \/ (pc[q] = "log" /\ status[q] = "blocked") => BlockedOK(q)
    /\ pc[q] = "rows" => IsQuery(stmt[q])
    /\ pc[q] = "done" =>
          /\ entries[q] = <<>> \/ entries[q] = <<reply[q]>>
          /\ /\ audited[q]
             /\ \/ reply[q] \in {"success", "blocked"}
                \/ sent[q] # NoStatement /\ ~IsQuery(stmt[q])
             => entries[q] # <<>>

IInv == TypeOK /\ RulesInv /\ \A q \in Query : DuringInv(q) /\ CallInv(q)

-----------------------------------------------------------------------------
(* The pipeline of one statement.                                          *)

\* What Rewrite returns is again a statement, of the same kind and WHERE.
LEMMA RewriteType ==
    ASSUME NEW R \in Rules, NEW s \in Statement
    PROVE  /\ Rewrite(R, s) \in Statement
           /\ Rewrite(R, s).kind = s.kind
           /\ Rewrite(R, s).where = s.where
<1>1. R.autoLimit \in Int /\ R.maxLimit \in Int
  BY RulesAssumption DEF SecurityRules
<1>2. \A n \in Int : n > 0 => [s EXCEPT !.limit = n] \in Statement
  BY DEF Statement
<1>3. CASE BareWrite(s) /\ s.limit = NoLimit /\ R.autoLimit > 0
  <2>1. Rewrite(R, s) = AddLimit(s, R.autoLimit)
    BY <1>3 DEF Rewrite, BareWrite
  <2>. QED BY <1>1, <1>2, <1>3, <2>1 DEF AddLimit, Statement
<1>4. CASE ~(BareWrite(s) /\ s.limit = NoLimit /\ R.autoLimit > 0)
  <2>1. CASE TypeOf(s) = "SELECT" /\ s.limit # NoLimit /\ R.maxLimit > 0
    <3>1. Rewrite(R, s) = CapLimit(s, R.maxLimit)
      BY <1>4, <2>1 DEF Rewrite
    <3>. QED BY <1>1, <1>2, <2>1, <3>1 DEF CapLimit, Statement
  <2>2. CASE ~(TypeOf(s) = "SELECT" /\ s.limit # NoLimit /\ R.maxLimit > 0)
    BY <1>4, <2>2 DEF Rewrite
  <2>. QED BY <2>1, <2>2
<1>. QED BY <1>3, <1>4

\* An UPDATE or DELETE of all rows leaves Rewrite with a LIMIT, if the rules
\* have an auto_limit and its text does not end in a comment.
LEMMA RewriteBounds ==
    ASSUME NEW R \in Rules, NEW s \in Statement,
           BareWrite(s), ~s.comment, R.autoLimit > 0
    PROVE  Rewrite(R, s).limit # NoLimit
<1>1. R.autoLimit \in Int
  BY RulesAssumption DEF SecurityRules
<1>2. CASE s.limit = NoLimit
  <2>1. Rewrite(R, s) = [s EXCEPT !.limit = R.autoLimit]
    BY <1>2 DEF Rewrite, AddLimit, BareWrite
  <2>. QED BY <1>1, <2>1 DEF Statement, NoLimit
<1>3. CASE s.limit # NoLimit
  BY <1>3 DEF Rewrite, BareWrite
<1>. QED BY <1>2, <1>3

\* Rewriting changes nothing but the LIMIT, never raises or drops one, adds one
\* to UPDATEs and DELETEs of all rows only, and leaves every verdict as it was:
\* what was admitted before it is admitted after it, under any rules.
THEOREM RewriteNarrows ==
    ASSUME NEW R \in Rules, NEW s \in Statement
    PROVE  /\ Rewrite(R, s) = [s EXCEPT !.limit = Rewrite(R, s).limit]
           /\ s.limit # NoLimit => Rewrite(R, s).limit # NoLimit /\ Rewrite(R, s).limit <= s.limit
           /\ s.limit = NoLimit /\ ~BareWrite(s) => Rewrite(R, s) = s
           /\ \A other \in Rules \cup {NoRules} : Allowed(other, Rewrite(R, s)) <=> Allowed(other, s)
<1> DEFINE t == Rewrite(R, s)
<1>1. R.autoLimit \in Int /\ R.maxLimit \in Int
  BY RulesAssumption DEF SecurityRules
<1>2. t \in Statement /\ t.kind = s.kind /\ t.where = s.where
  BY RewriteType
<1>3. /\ t.comment = s.comment
      /\ s.limit # NoLimit => t.limit # NoLimit /\ t.limit <= s.limit
      /\ s.limit = NoLimit /\ ~BareWrite(s) => t = s
  <2>1. CASE BareWrite(s) /\ s.limit = NoLimit /\ R.autoLimit > 0
    <3>1. t = AddLimit(s, R.autoLimit)
      BY <2>1 DEF Rewrite, BareWrite
    <3>. QED BY <2>1, <3>1 DEF AddLimit, Statement
  <2>2. CASE TypeOf(s) = "SELECT" /\ s.limit # NoLimit /\ R.maxLimit > 0
    <3>1. t = CapLimit(s, R.maxLimit)
      BY <2>2 DEF Rewrite, BareWrite
    <3>2. /\ t.comment = s.comment
          /\ t.limit = IF s.limit > R.maxLimit THEN R.maxLimit ELSE s.limit
      BY <3>1 DEF CapLimit, Statement
    <3>3. s.limit \in Nat /\ t.limit # NoLimit /\ t.limit <= s.limit
      BY <1>1, <2>2, <3>2 DEF Statement, NoLimit
    <3>. QED BY <2>2, <3>2, <3>3
  <2>3. CASE /\ ~(BareWrite(s) /\ s.limit = NoLimit /\ R.autoLimit > 0)
             /\ ~(TypeOf(s) = "SELECT" /\ s.limit # NoLimit /\ R.maxLimit > 0)
    <3>1. t = s
      BY <2>3 DEF Rewrite
    <3>. QED BY <3>1 DEF Statement, NoLimit
  <2>. QED BY <2>1, <2>2, <2>3
<1>4. \A other \in Rules \cup {NoRules} : Allowed(other, t) <=> Allowed(other, s)
  BY <1>2 DEF Allowed, IsBlocked, TypeOf
<1>5. t = [s EXCEPT !.limit = t.limit]
  BY <1>2, <1>3 DEF Statement
<1>. QED BY <1>3, <1>4, <1>5

\* A statement that is rewritten once is not changed by rewriting it again.
THEOREM RewriteIdempotent ==
    ASSUME NEW R \in Rules, NEW s \in Statement
    PROVE  Rewrite(R, Rewrite(R, s)) = Rewrite(R, s)
<1>1. R.autoLimit \in Int /\ R.maxLimit \in Int
  BY RulesAssumption DEF SecurityRules
<1>2. CASE BareWrite(s) /\ s.limit = NoLimit /\ R.autoLimit > 0
  <2>1. Rewrite(R, s) = AddLimit(s, R.autoLimit)
    BY <1>2 DEF Rewrite, BareWrite
  <2>2. CASE s.comment
    BY <2>1, <2>2 DEF AddLimit
  <2>3. CASE ~s.comment
    <3> DEFINE t == [s EXCEPT !.limit = R.autoLimit]
    <3>1. Rewrite(R, s) = t
      BY <2>1, <2>3 DEF AddLimit
    <3>2. t.limit = R.autoLimit /\ t.kind = s.kind /\ t.where = s.where
      BY DEF Statement
    <3>3. Rewrite(R, t) = t
      BY <1>1, <1>2, <3>2 DEF Rewrite, BareWrite, TypeOf, NoLimit
    <3>. QED BY <3>1, <3>3
  <2>. QED BY <2>2, <2>3
<1>3. CASE ~BareWrite(s) /\ TypeOf(s) = "SELECT" /\ s.limit # NoLimit /\ R.maxLimit > 0
  <2>1. Rewrite(R, s) = CapLimit(s, R.maxLimit)
    BY <1>3 DEF Rewrite
  <2>2. CASE s.limit > R.maxLimit
    <3> DEFINE t == [s EXCEPT !.limit = R.maxLimit]
    <3>1. Rewrite(R, s) = t
      BY <2>1, <2>2 DEF CapLimit
    <3>2. t.limit = R.maxLimit /\ t.kind = s.kind /\ t.where = s.where
      BY DEF Statement
    <3>3. Rewrite(R, t) = CapLimit(t, R.maxLimit)
      BY <1>1, <1>3, <3>2 DEF Rewrite, BareWrite, TypeOf, NoLimit
    <3>4. CapLimit(t, R.maxLimit) = t
      BY <1>1, <3>2 DEF CapLimit
    <3>. QED BY <3>1, <3>3, <3>4
  <2>3. CASE ~(s.limit > R.maxLimit)
    BY <2>1, <2>3 DEF CapLimit
  <2>. QED BY <2>2, <2>3
<1>4. CASE /\ ~(BareWrite(s) /\ s.limit = NoLimit /\ R.autoLimit > 0)
           /\ ~(TypeOf(s) = "SELECT" /\ s.limit # NoLimit /\ R.maxLimit > 0)
  BY <1>4 DEF Rewrite
<1>. QED BY <1>2, <1>3, <1>4 DEF BareWrite

-----------------------------------------------------------------------------
(* Reload.                                                                 *)

\* What the checker and the rewriter hold is in force, and they have rules when
\* there are rules at all.
LEMMA HeldRules ==
    ASSUME RulesInv, TypeOK
    PROVE  /\ {checker, rewriter} \subseteq InForce
           /\ checker = NoRules <=> live = NoRules
           /\ rewriter = NoRules <=> live = NoRules
<1>1. CASE \E u \in Reloader : upc[u] = "rewriter" /\ next[u] = checker
  <2>1. PICK u \in Reloader : upc[u] = "rewriter" /\ next[u] = checker
    BY <1>1
  <2>2. Installing(u)
    BY <2>1 DEF Installing
  <2>3. checker \in InForce
    BY <2>1, <2>2 DEF InForce
  <2>. QED BY <2>1, <2>2, <2>3 DEF RulesInv, InForce
<1>2. CASE checker \in settled
  BY <1>2 DEF RulesInv, InForce
<1>. QED BY <1>1, <1>2 DEF RulesInv, CheckerInForce

\* The properties follow from the invariant.
LEMMA Consequences ==
    ASSUME IInv
    PROVE  BoundedWrites /\ VerdictMatchesRules /\ AuditMatches
<1>. USE DEF IInv
<1>1. BoundedWrites
  BY DEF BoundedWrites, CallInv, Bounded, Unlimited
<1>2. VerdictMatchesRules
  BY DEF VerdictMatchesRules, CallInv, SentOK, BlockedOK
<1>3. AuditMatches
  <2>. SUFFICES ASSUME NEW q \in Query
                PROVE  /\ Len(entries[q]) <= 1
                       /\ pc[q] # "done" => entries[q] = <<>>
                       /\ entries[q] # <<>> => entries[q][1] = reply[q]
                       /\ /\ pc[q] = "done" /\ audited[q]
                          /\ \/ reply[q] \in {"success", "blocked"}
                             \/ sent[q] # NoStatement /\ ~IsQuery(stmt[q])
                          => Len(entries[q]) = 1
    BY DEF AuditMatches
  <2>1. CallInv(q)
    OBVIOUS
  <2>2. entries[q] = <<>> \/ entries[q] = <<reply[q]>>
    BY <2>1 DEF CallInv
  <2>3. CASE entries[q] = <<>>
    <3>1. Len(entries[q]) = 0
      BY <2>3
    <3>. QED BY <2>1, <2>3, <3>1 DEF CallInv
  <2>4. CASE entries[q] = <<reply[q]>>
    <3>1. Len(entries[q]) = 1 /\ entries[q][1] = reply[q] /\ entries[q] # <<>>
      BY <2>4
    <3>. QED BY <2>1, <3>1 DEF CallInv
  <2>. QED BY <2>2, <2>3, <2>4
<1>. QED BY <1>1, <1>2, <1>3

-----------------------------------------------------------------------------
(* The invariant is inductive.                                             *)

LEMMA InitInv == Init => IInv
<1>. SUFFICES ASSUME Init PROVE IInv
  OBVIOUS
<1>1. TypeOK
  BY DEF Init, TypeOK, AnyRules, Status
<1>2. RulesInv
  BY DEF Init, RulesInv, CheckerInForce, Installing
<1>3. ASSUME NEW q \in Query PROVE DuringInv(q) /\ CallInv(q)
  BY DEF Init, DuringInv, CallInv, Running, AtServer
<1>. QED BY <1>1, <1>2, <1>3 DEF IInv

\* A step of a reload changes no call, and only adds to what was in force.
LEMMA ReloadKeepsCalls ==
    ASSUME IInv, UNCHANGED callVars, NEW q \in Query,
           Running(q) => during[q] \subseteq during'[q],
           ~Running(q) => during'[q] = during[q],
           audited'[q] => audited[q],
           live' = NoRules <=> live = NoRules
    PROVE  CallInv(q)'
<1>1. CallInv(q)
  BY DEF IInv
<1>2. during[q] \subseteq during'[q]
  OBVIOUS
<1>3. /\ pc'[q] = pc[q] /\ stmt'[q] = stmt[q] /\ sent'[q] = sent[q]
      /\ reply'[q] = reply[q] /\ entries'[q] = entries[q] /\ status'[q] = status[q]
  BY DEF callVars
<1>4. /\ Admitted(q) => Admitted(q)'
      /\ SentOK(q) => SentOK(q)'
      /\ BlockedOK(q) => BlockedOK(q)'
  BY <1>2, <1>3 DEF Admitted, SentOK, BlockedOK
<1>5. Bounded(q) => Bounded(q)'
  BY <1>2, <1>3 DEF Bounded, Unlimited
<1>. QED BY <1>1, <1>3, <1>4, <1>5 DEF CallInv, AtServer

\* A reload begins: its rules are in force from now on, for the calls that run.
LEMMA UpdateConfigInv ==
    ASSUME IInv, NEW u \in Reloader, NEW new \in AnyRules, UpdateConfig(u, new)
    PROVE  IInv'
<1>. USE DEF IInv
<1>1. TypeOK'
  <2>1. during' \in [Query -> SUBSET AnyRules]
    BY DEF UpdateConfig, TypeOK
  <2>2. /\ upc' \in [Reloader -> {"idle", "checker", "rewriter", "audit"}]
        /\ next' \in [Reloader -> AnyRules]
        /\ replaces' \in [Reloader -> SUBSET AnyRules]
    BY DEF UpdateConfig, TypeOK
  <2>. QED BY <2>1, <2>2 DEF UpdateConfig, TypeOK, callVars
<1>2. /\ upc'[u] = IF new = NoRules THEN "audit" ELSE "checker"
      /\ next'[u] = new
      /\ \A v \in Reloader \ {u} :
            upc'[v] = upc[v] /\ next'[v] = next[v] /\ replaces'[v] = replaces[v]
  BY DEF UpdateConfig, TypeOK
<1>3. /\ upc[u] = "idle" /\ settled' = settled /\ checker' = checker /\ rewriter' = rewriter
      /\ live' = new /\ (live' = NoRules <=> live = NoRules)
  BY DEF UpdateConfig
<1>4. RulesInv'
  <2>1. CheckerInForce'
    BY <1>2, <1>3 DEF RulesInv, CheckerInForce
  <2>. QED BY <1>2, <1>3, <2>1 DEF RulesInv, Installing
<1>5. InForce' \subseteq InForce \cup {new}
  BY <1>2, <1>3 DEF InForce, Installing
<1>6. ASSUME NEW q \in Query PROVE DuringInv(q)' /\ CallInv(q)'
  <2>1. during'[q] = IF Running(q) THEN during[q] \cup {new} ELSE during[q]
    BY DEF UpdateConfig
  <2>2. DuringInv(q)'
    BY <1>3, <1>5, <2>1 DEF UpdateConfig, DuringInv, Running, callVars
  <2>3. CallInv(q)'
    BY <1>3, <2>1, ReloadKeepsCalls DEF UpdateConfig
  <2>. QED BY <2>2, <2>3
<1>. QED BY <1>1, <1>4, <1>6

\* A later step of a reload, of which only what it does to the rules is left to
\* show.
LEMMA ReloadStepInv ==
    ASSUME IInv, UNCHANGED <<callVars, during, live>>,
           TypeOK', RulesInv', InForce' \subseteq InForce,
           \/ UNCHANGED <<auditOn, audited>>
           \/ audited' = [q \in Query |-> audited[q] /\ auditOn']
    PROVE  IInv'
<1>1. ASSUME NEW q \in Query PROVE DuringInv(q)' /\ CallInv(q)'
  <2>1. DuringInv(q)
    BY DEF IInv
  <2>2. (audited'[q] => audited[q]) /\ (audited'[q] /\ Running(q) => auditOn')
    <3>1. CASE UNCHANGED <<auditOn, audited>>
      BY <2>1, <3>1 DEF DuringInv
    <3>2. CASE audited' = [o \in Query |-> audited[o] /\ auditOn']
      <4>1. audited'[q] = (audited[q] /\ auditOn')
        BY <3>2
      <4>. QED BY <4>1, Zenon
    <3>. QED BY <3>1, <3>2
  <2>3. DuringInv(q)'
    BY <2>1, <2>2 DEF DuringInv, Running, callVars
  <2>4. CallInv(q)'
    BY <2>2, ReloadKeepsCalls
  <2>. QED BY <2>3, <2>4
<1>. QED BY <1>1 DEF IInv

LEMMA UpdateCheckerInv ==
    ASSUME IInv, NEW u \in Reloader, UpdateChecker(u)
    PROVE  IInv'
<1>. USE DEF IInv
<1>1. TypeOK'
  <2>1. next[u] \in AnyRules
    BY DEF TypeOK
  <2>. QED BY <2>1 DEF UpdateChecker, TypeOK, callVars
<1>2. /\ upc[u] = "checker" /\ upc'[u] = "rewriter"
      /\ \A v \in Reloader \ {u} : upc'[v] = upc[v]
      /\ UNCHANGED <<next, settled, replaces, rewriter, live>> /\ checker' = next[u]
  BY DEF UpdateChecker, TypeOK
<1>3. RulesInv'
  <2>1. CheckerInForce'
    BY <1>2 DEF CheckerInForce
  <2>. QED BY <1>2, <2>1 DEF RulesInv, Installing
<1>4. InForce' \subseteq InForce
  BY <1>2 DEF InForce, Installing
<1>. QED BY <1>1, <1>3, <1>4, ReloadStepInv DEF UpdateChecker

\* The reload replaces what was settled when it began.  The checker does not
\* have that any more, unless a reload still under way has given it anew.
LEMMA UpdateRewriterInv ==
    ASSUME IInv, NEW u \in Reloader, UpdateRewriter(u)
    PROVE  IInv'
<1>. USE DEF IInv
<1>1. TypeOK'
  <2>1. next[u] \in AnyRules
    BY DEF TypeOK
  <2>2. settled' \in SUBSET AnyRules /\ replaces' \in [Reloader -> SUBSET AnyRules]
    BY <2>1 DEF UpdateRewriter, Settle, TypeOK
  <2>. QED BY <2>1, <2>2 DEF UpdateRewriter, TypeOK, callVars
<1>2. /\ upc[u] = "rewriter" /\ upc'[u] = "audit"
      /\ \A v \in Reloader \ {u} : upc'[v] = upc[v]
      /\ UNCHANGED <<next, checker, live>> /\ rewriter' = next[u]
  BY DEF UpdateRewriter, TypeOK
<1>3. /\ settled' = (settled \ replaces[u]) \cup {next[u]}
      /\ \A v \in Reloader : replaces'[v] \subseteq replaces[v] \ {next[u]}
  BY DEF UpdateRewriter, Settle
<1>4. CheckerInForce'
  <2>1. CASE checker = next[u]
    BY <1>2, <1>3, <2>1 DEF CheckerInForce
  <2>2. CASE checker # next[u] /\ \E v \in Reloader : upc[v] = "rewriter" /\ next[v] = checker
    BY <1>2, <2>2 DEF CheckerInForce
  <2>3. CASE checker \in settled /\ \A v \in Reloader : upc[v] = "rewriter" => checker \notin replaces[v]
    BY <1>2, <1>3, <2>3 DEF CheckerInForce
  <2>. QED BY <2>1, <2>2, <2>3 DEF RulesInv, CheckerInForce
<1>5. Installing(u)
  BY <1>2 DEF Installing
<1>6. RulesInv'
  BY <1>2, <1>3, <1>4, <1>5 DEF RulesInv, Installing
<1>7. InForce' \subseteq InForce
  BY <1>2, <1>3, <1>5 DEF InForce, Installing
<1>. QED BY <1>1, <1>6, <1>7, ReloadStepInv DEF UpdateRewriter

LEMMA UpdateAuditInv ==
    ASSUME IInv, NEW u \in Reloader, UpdateAudit(u)
    PROVE  IInv'
<1>. USE DEF IInv
<1>1. TypeOK'
  <2>1. audited' \in [Query -> BOOLEAN]
    BY DEF UpdateAudit, TypeOK
  <2>2. next' \in [Reloader -> AnyRules]
    BY DEF UpdateAudit, TypeOK, AnyRules
  <2>. QED BY <2>1, <2>2 DEF UpdateAudit, TypeOK, callVars
<1>2. /\ upc[u] = "audit" /\ upc'[u] = "idle"
      /\ \A v \in Reloader \ {u} : upc'[v] = upc[v] /\ next'[v] = next[v]
      /\ UNCHANGED <<checker, rewriter, live, settled, replaces>>
  BY DEF UpdateAudit, TypeOK
<1>3. RulesInv'
  <2>1. CheckerInForce'
    BY <1>2 DEF RulesInv, CheckerInForce
  <2>. QED BY <1>2, <2>1 DEF RulesInv, Installing
<1>4. InForce' \subseteq InForce
  BY <1>2 DEF InForce, Installing
<1>. QED BY <1>1, <1>3, <1>4, ReloadStepInv DEF UpdateAudit

-----------------------------------------------------------------------------
\* A call that takes a step keeps its invariant, and the others keep theirs.
LEMMA OthersKeep ==
    ASSUME IInv, UNCHANGED <<reloadVars>>, NEW q \in Query, NEW other \in Query, other # q,
           pc'[other] = pc[other], stmt'[other] = stmt[other], sent'[other] = sent[other],
           reply'[other] = reply[other], entries'[other] = entries[other],
           status'[other] = status[other], during'[other] = during[other], audited'[other] = audited[other]
    PROVE  DuringInv(other)' /\ CallInv(other)'
<1>1. DuringInv(other) /\ CallInv(other)
  BY DEF IInv
<1>2. DuringInv(other)'
  BY <1>1 DEF DuringInv, Running, InForce, Installing, reloadVars
<1>3. CallInv(other)'
  BY <1>1 DEF CallInv, AtServer, Admitted, SentOK, BlockedOK, Bounded, Unlimited, reloadVars
<1>. QED BY <1>2, <1>3

LEMMA CallTyped ==
    ASSUME IInv, NEW q \in Query, Call(q)
    PROVE  TypeOK'
<1>. USE DEF IInv, Goto, LogNext, Fail, callVars, reloadVars
<1>1. CASE Refuse(q)
  BY <1>1 DEF Refuse, TypeOK, Status
<1>2. ASSUME NEW s \in Statements \cup {Malformed, EmptyText}, Parse(q, s) PROVE TypeOK'
  <2>1. s \in Text /\ InForce \subseteq AnyRules
    BY QueryAssumption DEF Text, TypeOK, InForce
  <2>2. stmt' \in [Query -> Text \cup {NoStatement}]
    BY <1>2, <2>1 DEF Parse, TypeOK
  <2>3. during' \in [Query -> SUBSET AnyRules] /\ audited' \in [Query -> BOOLEAN]
    BY <1>2, <2>1 DEF Parse, TypeOK
  <2>4. status' \in [Query -> Status]
    BY <1>2 DEF Parse, TypeOK, Status
  <2>5. pc' \in [Query -> {"new", "check", "rewrite", "run", "rows", "log", "done", "panicked"}]
    BY <1>2 DEF Parse, TypeOK
  <2>. QED BY <1>2, <2>2, <2>3, <2>4, <2>5 DEF Parse, TypeOK
<1>3. CASE CheckNil(q)
  BY <1>3 DEF CheckNil, TypeOK
<1>4. CASE Block(q)
  BY <1>4 DEF Block, TypeOK, Status
<1>5. CASE Pass(q)
  <2>1. stmt[q] \in Statement
    BY <1>5 DEF Pass, CallInv
  <2>2. sent' \in [Query -> Statement \cup {NoStatement}]
    BY <1>5, <2>1 DEF Pass, TypeOK
  <2>3. pc' \in [Query -> {"new", "check", "rewrite", "run", "rows", "log", "done", "panicked"}]
    BY <1>5 DEF Pass, TypeOK
  <2>. QED BY <1>5, <2>2, <2>3 DEF Pass, TypeOK
<1>6. CASE RewriteSql(q)
  <2>1. stmt[q] \in Statement
    BY <1>6 DEF RewriteSql, CallInv
  <2>2. rewriter # NoRules => Rewrite(rewriter, stmt[q]) \in Statement
    BY <2>1, RewriteType DEF TypeOK, AnyRules
  <2>3. sent' \in [Query -> Statement \cup {NoStatement}]
    BY <1>6, <2>2 DEF RewriteSql, TypeOK
  <2>. QED BY <1>6, <2>3 DEF RewriteSql, TypeOK
<1>7. CASE RunFails(q)
  BY <1>7 DEF RunFails, TypeOK, Status
<1>8. CASE Exec(q)
  BY <1>8 DEF Exec, TypeOK, Status
<1>9. CASE RunQuery(q)
  BY <1>9 DEF RunQuery, TypeOK
<1>10. CASE Fetch(q)
  BY <1>10 DEF Fetch, TypeOK, Status
<1>11. CASE FetchFails(q)
  BY <1>11 DEF FetchFails, TypeOK, Status
<1>12. CASE Log(q)
  <2>1. entries' \in [Query -> Seq(Status)]
    BY <1>12 DEF Log, TypeOK
  <2>2. reply' \in [Query -> Status]
    BY <1>12 DEF Log, TypeOK
  <2>. QED BY <1>12, <2>1, <2>2 DEF Log, TypeOK
<1>. QED BY <1>1, <1>2, <1>3, <1>4, <1>5, <1>6, <1>7, <1>8, <1>9, <1>10, <1>11, <1>12 DEF Call, Execute

LEMMA CallKeepsRules ==
    ASSUME NEW q \in Query, Call(q)
    PROVE  live' = live /\ auditOn' = auditOn /\ InForce' = InForce
<1>1. UNCHANGED reloadVars
  BY DEF Call, Execute, Refuse, Parse, CheckNil, Block, Pass, RewriteSql, RunFails, Exec, RunQuery,
         Fetch, FetchFails, Log
<1>. QED BY <1>1 DEF reloadVars, InForce, Installing

LEMMA CallKeeps ==
    ASSUME IInv, NEW q \in Query, Call(q)
    PROVE  DuringInv(q)' /\ CallInv(q)'
<1>. USE DEF Goto, LogNext, Fail, reloadVars
<1>0. /\ TypeOK /\ RulesInv /\ DuringInv(q) /\ CallInv(q)
      /\ EmptyText \notin Statement /\ Malformed \notin Statement /\ NoStatement \notin Statement
  BY QueryAssumption DEF IInv
<1>01. live' = live /\ auditOn' = auditOn /\ InForce' = InForce
  BY CallKeepsRules, Zenon
<1>1. CASE Refuse(q)
  BY <1>0, <1>01, <1>1 DEF Refuse, TypeOK, DuringInv, CallInv, Running, AtServer
<1>2. ASSUME NEW s \in Statements \cup {Malformed, EmptyText}, Parse(q, s)
      PROVE  DuringInv(q)' /\ CallInv(q)'
  <2>1. during'[q] = InForce /\ audited'[q] = auditOn /\ stmt'[q] = s
    BY <1>0, <1>2 DEF Parse, TypeOK
  <2>2. pc'[q] = IF s = Malformed THEN "log" ELSE "check"
    BY <1>0, <1>2 DEF Parse, TypeOK
  <2>3. DuringInv(q)'
    <3>1. \A R \in InForce : R = NoRules <=> live = NoRules
      BY <1>0 DEF RulesInv, InForce
    <3>. QED BY <1>0, <1>01, <1>2, <2>1, <2>2, <3>1 DEF Parse, DuringInv, Running
  <2>4. pc'[q] = "check" => s \in Statement \cup {EmptyText}
    BY <2>2, QueryAssumption
  <2>5. pc'[q] = "log" => status'[q] = "error"
    BY <1>0, <1>2, <2>2 DEF Parse, TypeOK
  <2>6. sent'[q] = NoStatement /\ reply'[q] = "none" /\ entries'[q] = <<>>
    BY <1>0, <1>2 DEF Parse, CallInv
  <2>7. CallInv(q)'
    BY <2>1, <2>2, <2>4, <2>5, <2>6 DEF CallInv, AtServer
  <2>. QED BY <2>3, <2>7
<1>3. CASE CheckNil(q)
  BY <1>0, <1>01, <1>3 DEF CheckNil, TypeOK, DuringInv, CallInv, Running, AtServer
<1>4. CASE Block(q)
  <2>1. checker \in during[q] /\ ~Allowed(checker, stmt[q]) /\ pc[q] = "check"
    BY <1>0, <1>01, <1>4, HeldRules DEF Block, DuringInv, Running
  <2>2. BlockedOK(q)'
    BY <1>4, <2>1 DEF Block, BlockedOK
  <2>. QED BY <1>0, <1>01, <1>4, <2>2 DEF Block, TypeOK, DuringInv, CallInv, Running, AtServer
<1>5. CASE Pass(q)
  <2>1. stmt[q] \in Statement /\ pc[q] = "check"
    BY <1>0, <1>5 DEF Pass, CallInv
  <2>2. checker \in during[q] /\ Allowed(checker, stmt[q])
    BY <1>0, <1>01, <1>5, <2>1, HeldRules DEF Pass, DuringInv, Running
  <2>4. DuringInv(q)'
    BY <1>0, <1>01, <1>5, <2>1 DEF Pass, DuringInv, Running
  <2>5. CASE AutoRewrite(checker, stmt[q])
    <3>1. checker # NoRules /\ BareWrite(stmt[q])
      BY <2>5 DEF AutoRewrite
    <3>2. live # NoRules
      BY <1>0, <3>1, HeldRules
    <3>3. pc'[q] = "rewrite" /\ sent'[q] = sent[q]
      BY <1>0, <1>5, <2>5 DEF Pass, TypeOK
    <3>4. Admitted(q)'
      BY <1>5, <2>2, <2>5 DEF Pass, Admitted
    <3>. QED BY <1>0, <1>5, <2>1, <2>4, <3>2, <3>3, <3>4 DEF Pass, CallInv, AtServer
  <2>6. CASE ~AutoRewrite(checker, stmt[q])
    <3>1. pc'[q] = "run" /\ sent'[q] = stmt[q]
      BY <1>0, <1>5, <2>6 DEF Pass, TypeOK
    <3>2. BareWrite(stmt[q]) => checker = NoRules
      BY <2>2, <2>6 DEF AutoRewrite
    <3>3. Bounded(q)'
      BY <1>5, <2>2, <3>2 DEF Pass, Bounded, Unlimited
    <3>4. SentOK(q)'
      BY <1>5, <2>2, <2>6, <3>1 DEF Pass, SentOK, SendsMixed
    <3>. QED BY <1>0, <1>5, <2>1, <2>4, <3>1, <3>3, <3>4 DEF Pass, CallInv, AtServer
  <2>. QED BY <2>5, <2>6
<1>6. CASE RewriteSql(q)
  <2>1. stmt[q] \in Statement /\ pc[q] = "rewrite" /\ Admitted(q)
        /\ BareWrite(stmt[q])
    BY <1>0, <1>6 DEF RewriteSql, CallInv, Admitted, AutoRewrite
  <2>2. rewriter \in during[q] /\ rewriter \in Rules
    BY <1>0, <1>01, <2>1, HeldRules DEF DuringInv, Running, CallInv, TypeOK, AnyRules
  <2>3. rewriter # NoRules
    BY <2>2, RulesAssumption
  <2>4. pc'[q] = "run" /\ sent'[q] = Rewrite(rewriter, stmt[q])
    BY <1>0, <1>6, <2>3 DEF RewriteSql, TypeOK
  <2>5. Bounded(q)'
    <3>1. CASE rewriter.autoLimit > 0
      BY <1>6, <2>1, <2>2, <2>4, <3>1, RewriteType, RewriteBounds DEF RewriteSql, Bounded
    <3>2. CASE ~(rewriter.autoLimit > 0)
      <4>1. rewriter.autoLimit \in Int
        BY <2>2, RulesAssumption DEF SecurityRules
      <4>2. rewriter.autoLimit <= 0
        BY <3>2, <4>1
      <4>. QED BY <1>6, <2>2, <4>2 DEF RewriteSql, Bounded, Unlimited
    <3>. QED BY <3>1, <3>2
  <2>6. DuringInv(q)'
    BY <1>0, <1>01, <1>6, <2>1, <2>4 DEF RewriteSql, DuringInv, Running
  <2>7. SentOK(q)'
    <3>1. PICK R \in during[q] : Allowed(R, stmt[q]) /\ AutoRewrite(R, stmt[q])
      BY <2>1 DEF Admitted
    <3>2. R # NoRules
      BY <3>1 DEF AutoRewrite
    <3>3. sent'[q] = SendsMixed(R, rewriter, stmt[q])
      BY <2>4, <3>1 DEF SendsMixed
    <3>. QED BY <1>6, <2>2, <2>3, <3>1, <3>2, <3>3 DEF RewriteSql, SentOK
  <2>. QED BY <1>0, <1>6, <2>1, <2>4, <2>5, <2>6, <2>7 DEF RewriteSql, CallInv, AtServer
<1>7. CASE RunFails(q)
  BY <1>0, <1>01, <1>7 DEF RunFails, TypeOK, DuringInv, CallInv, Running, AtServer, SentOK
<1>8. CASE Exec(q)
  BY <1>0, <1>01, <1>8 DEF Exec, TypeOK, DuringInv, CallInv, Running, AtServer, SentOK
<1>9. CASE RunQuery(q)
  <2>1. pc[q] = "run" /\ pc'[q] = "rows"
    BY <1>0, <1>9 DEF RunQuery, TypeOK
  <2>2. DuringInv(q)'
    BY <1>0, <1>01, <1>9, <2>1 DEF RunQuery, DuringInv, Running
  <2>3. SentOK(q)' /\ Bounded(q)'
    BY <1>0, <1>9, <2>1 DEF RunQuery, CallInv, AtServer, SentOK, Bounded, Unlimited
  <2>. QED BY <1>0, <1>9, <2>1, <2>2, <2>3 DEF RunQuery, CallInv, AtServer
<1>10. CASE Fetch(q)
  BY <1>0, <1>01, <1>10 DEF Fetch, TypeOK, DuringInv, CallInv, Running, AtServer, SentOK
<1>11. CASE FetchFails(q)
  BY <1>0, <1>01, <1>11 DEF FetchFails, TypeOK, DuringInv, CallInv, Running, AtServer,
                  SentOK
<1>12. CASE Log(q)
  <2>1. pc[q] = "log" /\ pc'[q] = "done" /\ reply'[q] = status[q] /\ entries[q] = <<>>
    BY <1>0, <1>12 DEF Log, TypeOK, CallInv
  <2>2. entries'[q] = IF auditOn THEN <<status[q]>> ELSE <<>>
    BY <1>0, <1>12, <2>1 DEF Log, TypeOK
  <2>3. audited'[q] => auditOn
    BY <1>0, <1>01, <1>12, <2>1 DEF Log, DuringInv, Running
  <2>4. <<status[q]>> # <<>>
    OBVIOUS
  <2>5. SentOK(q) => SentOK(q)'
    BY <1>12 DEF Log, SentOK
  <2>6. BlockedOK(q) => BlockedOK(q)'
    BY <1>12 DEF Log, BlockedOK
  <2>. QED BY <1>0, <1>12, <2>1, <2>2, <2>3, <2>4, <2>5, <2>6
           DEF Log, DuringInv, CallInv, Running, AtServer
<1>. QED BY <1>1, <1>2, <1>3, <1>4, <1>5, <1>6, <1>7, <1>8, <1>9, <1>10, <1>11, <1>12 DEF Call, Execute

LEMMA CallChangesOnly ==
    ASSUME IInv, NEW q \in Query, Call(q), NEW other \in Query, other # q
    PROVE  /\ UNCHANGED reloadVars
           /\ pc'[other] = pc[other] /\ stmt'[other] = stmt[other] /\ sent'[other] = sent[other]
           /\ reply'[other] = reply[other] /\ entries'[other] = entries[other]
           /\ status'[other] = status[other] /\ during'[other] = during[other] /\ audited'[other] = audited[other]
BY DEF IInv, TypeOK, Call, Execute, Refuse, Parse, CheckNil, Block, Pass, RewriteSql, RunFails, Exec,
       RunQuery, Fetch, FetchFails, Log, Goto, LogNext, Fail

LEMMA NextInv == IInv /\ [Next]_vars => IInv'
<1>. SUFFICES ASSUME IInv, [Next]_vars PROVE IInv'
  OBVIOUS
<1>1. ASSUME NEW q \in Query, Call(q) PROVE IInv'
  <2>1. TypeOK'
    BY <1>1, CallTyped
  <2>2. UNCHANGED reloadVars
    BY <1>1 DEF Call, Execute, Refuse, Parse, CheckNil, Block, Pass, RewriteSql, RunFails, Exec,
                RunQuery, Fetch, FetchFails, Log
  <2>3. RulesInv'
    BY <2>2 DEF IInv, RulesInv, CheckerInForce, Installing, reloadVars
  <2>4. ASSUME NEW other \in Query PROVE DuringInv(other)' /\ CallInv(other)'
    BY <1>1, CallKeeps, CallChangesOnly, OthersKeep
  <2>. QED BY <2>1, <2>3, <2>4 DEF IInv
<1>2. ASSUME UNCHANGED vars PROVE IInv'
  BY <1>2 DEF IInv, TypeOK, RulesInv, CheckerInForce, InForce, Installing, DuringInv, CallInv, Running, AtServer, Admitted, SentOK,
              BlockedOK, Bounded, Unlimited, vars, reloadVars, callVars
<1>3. ASSUME NEW u \in Reloader, NEW new \in AnyRules, UpdateConfig(u, new) PROVE IInv'
  BY <1>3, UpdateConfigInv
<1>4. ASSUME NEW u \in Reloader, Update(u) PROVE IInv'
  BY <1>4, UpdateCheckerInv, UpdateRewriterInv, UpdateAuditInv DEF Update
<1>. QED BY <1>1, <1>2, <1>3, <1>4 DEF Next

-----------------------------------------------------------------------------
(* The theorems.                                                           *)

LEMMA Inductive == Spec => []IInv
BY InitInv, NextInv, PTL DEF Spec

\* Every call and every reload stays within the declared states.
THEOREM QueryTyped == Spec => []TypeOK
<1>1. IInv => TypeOK
  BY DEF IInv
<1>. QED BY <1>1, Inductive, PTL

\* No UPDATE or DELETE of all rows is sent without a LIMIT (BoundedWrites).
THEOREM WritesBounded == Spec => []BoundedWrites
<1>1. IInv => BoundedWrites
  BY Consequences
<1>. QED BY <1>1, Inductive, PTL

\* However reloads overlap each other and the call, what it sends is what rules
\* in force during it admit and make of its statement, and it is blocked only
\* for such rules (VerdictMatchesRules).
THEOREM VerdictsMatch == Spec => []VerdictMatchesRules
<1>1. IInv => VerdictMatchesRules
  BY Consequences
<1>. QED BY <1>1, Inductive, PTL

\* A call during which only one set of rules is in force is checked and
\* rewritten by that one, and blocked only by it: what OneRuleSet asks of every
\* call holds when no reload overlaps it and those before it, if they overlapped
\* each other, left one set in force.
OneRuleSetUnlessReloaded ==
    \A q \in Query, R \in AnyRules :
        during[q] = {R} =>
            /\ AtServer(q) => Allowed(R, stmt[q]) /\ sent[q] = Sends(R, stmt[q])
            /\ reply[q] = "blocked" => ~Allowed(R, stmt[q])

\* The calls that meet one set of rules (OneRuleSetUnlessReloaded).
THEOREM OneRuleSetAlone == Spec => []OneRuleSetUnlessReloaded
<1>1. VerdictMatchesRules => OneRuleSetUnlessReloaded
  BY DEF VerdictMatchesRules, OneRuleSetUnlessReloaded, SendsMixed, Sends
<1>. QED BY <1>1, VerdictsMatch, PTL

-----------------------------------------------------------------------------
(* Reloads that do not overlap.                                            *)

OneReloader == \E u \in Reloader : Reloader = {u}

\* While no reload is under way, the checker, the rewriter and the live
\* configuration have the same rules, and no other rules are in force.  Reloads
\* that overlap do not keep this: one gives its rules to the checker first and
\* to the rewriter last, the other to both in between.
RulesAgree ==
    (\A u \in Reloader : ~Installing(u)) =>
        checker = live /\ rewriter = live /\ InForce = {live}

\* How far the one reload has come.
Progress(u) ==
    CASE upc[u] = "checker" -> /\ next[u] = live /\ checker = rewriter
                               /\ settled = {rewriter} /\ replaces[u] = settled
      [] upc[u] = "rewriter" -> /\ next[u] = live /\ checker = live
                                /\ settled = {rewriter} /\ replaces[u] = settled
      [] OTHER -> checker = live /\ rewriter = live /\ settled = {live}

LEMMA ProgressStep ==
    ASSUME NEW u \in Reloader, Reloader = {u}, TypeOK, Progress(u), [Next]_vars
    PROVE  Progress(u)'
<1>. USE DEF Progress
<1>1. ASSUME NEW q \in Query, Call(q) PROVE Progress(u)'
  <2>1. UNCHANGED reloadVars
    BY <1>1 DEF Call, Execute, Refuse, Parse, CheckNil, Block, Pass, RewriteSql, RunFails, Exec,
                RunQuery, Fetch, FetchFails, Log
  <2>. QED BY <2>1 DEF reloadVars
<1>2. ASSUME NEW new \in AnyRules, UpdateConfig(u, new) PROVE Progress(u)'
  <2>1. /\ upc[u] = "idle" /\ upc'[u] = IF new = NoRules THEN "audit" ELSE "checker"
        /\ next'[u] = new /\ replaces'[u] = settled /\ live' = new
        /\ UNCHANGED <<checker, rewriter, settled>> /\ (new = NoRules <=> live = NoRules)
    BY <1>2 DEF UpdateConfig, TypeOK
  <2>. QED BY <2>1
<1>3. CASE UpdateChecker(u)
  BY <1>3 DEF UpdateChecker, TypeOK
<1>4. CASE UpdateRewriter(u)
  <2>1. /\ upc[u] = "rewriter" /\ upc'[u] = "audit" /\ rewriter' = next[u]
        /\ settled' = (settled \ replaces[u]) \cup {next[u]} /\ UNCHANGED <<checker, live>>
    BY <1>4 DEF UpdateRewriter, Settle, TypeOK
  <2>. QED BY <2>1
<1>5. CASE UpdateAudit(u)
  BY <1>5 DEF UpdateAudit, TypeOK
<1>6. CASE UNCHANGED vars
  BY <1>6 DEF vars, reloadVars
<1>. QED BY <1>1, <1>2, <1>3, <1>4, <1>5, <1>6 DEF Next, Update

\* Where reloads come from one goroutine only, every reload leaves the checker,
\* the rewriter and the live configuration with the same rules (RulesAgree).
THEOREM RulesAgreeAlone == OneReloader /\ Spec => []RulesAgree
<1>1. SUFFICES ASSUME NEW u \in Reloader, Reloader = {u} PROVE Spec => []RulesAgree
  BY DEF OneReloader
<1>2. Init => Progress(u)
  BY DEF Init, Progress
<1>3. TypeOK /\ Progress(u) /\ [Next]_vars => Progress(u)'
  BY <1>1, ProgressStep
<1>4. Progress(u) => RulesAgree
  BY <1>1 DEF Progress, RulesAgree, InForce, Installing
<1>. QED BY <1>2, <1>3, <1>4, QueryTyped, PTL DEF Spec

-----------------------------------------------------------------------------
\* The audit log agrees with what the callers were told (AuditMatches).
THEOREM AuditAgrees == Spec => []AuditMatches
<1>1. IInv => AuditMatches
  BY Consequences
<1>. QED BY <1>1, Inductive, PTL
=============================================================================
