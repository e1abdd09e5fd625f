SPECIFICATION ToolsSpec
CONSTANTS
  Rules <- MCRules
  NoRules = NoRules
  Query = {q1}
  Reloader = {u1, u2}
  Statements <- MCStatements
  Malformed = Malformed
  EmptyText = EmptyText
  NoStatement = NoStatement
  Database = {d1, d2}
  MaxTables = 2
  DefaultMaxRows = 3
  MaxAnswer = 3
SYMMETRY MCSymmetry
CHECK_DEADLOCK FALSE
INVARIANT OneRuleSet
