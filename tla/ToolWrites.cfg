\* Two tasks of one project that edit files and run statements.
SPECIFICATION FairSpec
CONSTANTS
  t1 = t1
  t2 = t2
  p1 = p1
  p2 = p2
  read = read
  edit = edit
  sql = sql
  Task = {t1, t2}
  Project = {p1, p2}
  ProjectOf <- OneProject
  Capability = {"fs", "db"}
  Scope = {"a"}
  Widened <- Patterns
  RuleId <- RuleIds
  Stored <- OldRules
  Tool = {edit, sql, read}
  Info <- Tools
  MaxCalls <- Calls2And1
  MaxFaults = 1
INVARIANTS ToolInv WritesTakeTurns AuditIsComplete
PROPERTIES ConsentCovers EveryCallReturns
