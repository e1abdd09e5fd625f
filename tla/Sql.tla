-------------------------------- MODULE Sql ---------------------------------
(***************************************************************************)
(* The security pipeline of one statement (internal/security): what the    *)
(* parser reports, what the checker decides and what the rewriter makes of *)
(* it, under one set of rules (config.SecurityRules).                      *)
(*                                                                         *)
(* A Statement is the first statement of a text that the TiDB parser       *)
(* accepts: its kind, whether it has a WHERE, the count of its LIMIT, and  *)
(* whether the text ends inside a comment, where text that addLimit        *)
(* appends is no part of the statement.  A SELECT's LIMIT has the form     *)
(* LIMIT n.                                                                *)
(***************************************************************************)
EXTENDS Integers

CONSTANTS Rules,    \* the rule sets of security.yaml over time
          NoRules   \* rules == nil: no security file is configured

DML == {"SELECT", "INSERT", "UPDATE", "DELETE"}
DDL == {"CREATE_TABLE", "CREATE_INDEX", "ALTER_TABLE", "DROP", "TRUNCATE", "RENAME"}
Kind == DML \cup DDL \cup {"SHOW", "EXPLAIN", "OTHER"}

SecurityRules == [allowedDML : SUBSET Kind, allowedDDL : SUBSET Kind, blocked : SUBSET Kind,
                  autoLimit : Int, maxLimit : Int, maxRows : Int]

ASSUME RulesAssumption == Rules \subseteq SecurityRules /\ NoRules \notin SecurityRules

NoLimit == -1
Statement == [kind : Kind, where : BOOLEAN, limit : Nat \cup {NoLimit}, comment : BOOLEAN]

\* Parse: an EXPLAIN is none of the statements parseStmt tells apart.
TypeOf(s) == IF s.kind = "EXPLAIN" THEN "OTHER" ELSE s.kind

\* An UPDATE or DELETE of every row of its tables.
BareWrite(s) == TypeOf(s) \in {"UPDATE", "DELETE"} /\ ~s.where

-----------------------------------------------------------------------------
\* isBlocked.
IsBlocked(R, s) == TypeOf(s) \in {"DROP", "TRUNCATE", "RENAME"} \cap R.blocked

\* Check, Allowed.  Without rules, everything the parser knows is allowed.
Allowed(R, s) ==
    IF R = NoRules
    THEN TypeOf(s) # "OTHER"
    ELSE /\ ~IsBlocked(R, s)
         /\ \/ TypeOf(s) \in DML \cap R.allowedDML
            \/ TypeOf(s) \in DDL \cap R.allowedDDL
            \/ TypeOf(s) = "SHOW"

\* Check, AutoRewrite.
AutoRewrite(R, s) == R # NoRules /\ Allowed(R, s) /\ BareWrite(s)

-----------------------------------------------------------------------------
\* addLimit.
AddLimit(s, n) == IF s.comment THEN s ELSE [s EXCEPT !.limit = n]

\* capLimit.
CapLimit(s, n) == IF s.limit > n THEN [s EXCEPT !.limit = n] ELSE s

\* Rewrite, with rules; the result is the statement of the rewritten text.
Rewrite(R, s) ==
    IF BareWrite(s) /\ s.limit = NoLimit /\ R.autoLimit > 0
    THEN AddLimit(s, R.autoLimit)
    ELSE IF TypeOf(s) = "SELECT" /\ s.limit # NoLimit /\ R.maxLimit > 0
    THEN CapLimit(s, R.maxLimit)
    ELSE s

\* What executeQuery sends when checker and rewriter have the same rules.
Sends(R, s) == IF AutoRewrite(R, s) THEN Rewrite(R, s) ELSE s
=============================================================================
