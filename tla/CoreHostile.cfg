SPECIFICATION Spec
CONSTANTS
  f = f
  g = g
  h = h
  Detached = Detached
  NotLoaded = NotLoaded
  None = None
  Fn = {f, g}
  FileOf <- TwoInOneFile
  Callees <- NoCallees2
  Behaviours <- SqlKinds
  N = 2
  FnOf <- FindGF
  Rule = "sqli"
  Sandboxes = {"local"}
  Starts <- MixedStart
  Faults <- SomeFaults
  MayCrash = TRUE
  MaxRuns = 2
INVARIANTS
  TypeOK
  ReportedPatchIsOnBranch
  AppliedPatchIsThere
PROPERTIES
  NoWorkLost
  ValidatedRanThePatch
CHECK_DEADLOCK FALSE
