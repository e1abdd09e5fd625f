------------------------------ MODULE MCQuery -------------------------------
(* The tools with two rule sets: one that admits every DML statement and      *)
(* limits writes, and one that admits fewer, more of the DDL, and limits      *)
(* none; each has another max_rows.                                           *)
EXTENDS Tools, TLC

MCRule(dml, ddl, auto, rows) ==
    [allowedDML |-> dml, allowedDDL |-> ddl, blocked |-> {"DROP", "TRUNCATE"},
     autoLimit |-> auto, maxLimit |-> 2, maxRows |-> rows]

MCRules == {MCRule(DML, {"CREATE_TABLE", "DROP"}, 1, 1), MCRule({"SELECT", "DELETE"}, DDL, 0, 0)}

MCStmt(kind, where, limit, comment) ==
    [kind |-> kind, where |-> where, limit |-> limit, comment |-> comment]

MCStatements ==
    {MCStmt("SELECT", FALSE, 3, FALSE),
     MCStmt("UPDATE", FALSE, NoLimit, FALSE), MCStmt("UPDATE", TRUE, NoLimit, FALSE),
     MCStmt("DELETE", FALSE, NoLimit, FALSE), MCStmt("DELETE", FALSE, NoLimit, TRUE),
     MCStmt("DELETE", FALSE, 3, FALSE),
     MCStmt("CREATE_TABLE", FALSE, NoLimit, FALSE), MCStmt("DROP", FALSE, NoLimit, FALSE),
     MCStmt("RENAME", FALSE, NoLimit, FALSE),
     MCStmt("SHOW", FALSE, NoLimit, FALSE), MCStmt("EXPLAIN", FALSE, NoLimit, FALSE)}

\* Reloads differ in nothing but their state, databases in nothing at all.
MCSymmetry == Permutations(Reloader) \cup Permutations(Database)
=============================================================================
