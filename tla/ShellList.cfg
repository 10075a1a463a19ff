SPECIFICATION Spec
CONSTANTS
  None = None
  Unusable = Unusable
  Stmt <- MCStmt
  Definition <- MCDefinition
  Scans <- OnlyCommands
  Files <- MCFiles
  Answers <- MCAnswers
INVARIANTS
  ClearedWithoutShell
CHECK_DEADLOCK FALSE
