SPECIFICATION Spec
CONSTANTS
  None = None
  Unusable = Unusable
  Stmt <- MCStmt
  Definition <- MCDefinition
  Scans <- MCScans
  Files <- MCFiles
  Answers <- MCAnswers
INVARIANTS
  TypeOK
  ConfirmedIsReal
  ClearedIsSafe
  UnboundJudgesNothing
  ValidatedIsPatched
  PatchStaysInFunction
  NothingMissed
  OrdinaryCallBinds
PROPERTIES
  ImplementsClaims
CHECK_DEADLOCK FALSE
