SPECIFICATION Spec
CONSTANTS
  f = f
  g = g
  h = h
  Detached = Detached
  NotLoaded = NotLoaded
  None = None
  Fn = {f}
  FileOf <- OneFile
  Callees <- NoCallees1
  Behaviours <- TextBound
  N = 1
  FnOf <- FindF
  Rule = "sqli"
  Sandboxes = {"docker"}
  Starts <- CleanStart
  Faults <- NoFaults
  MayCrash = FALSE
  MaxRuns = 1
INVARIANTS
  ReportsClaimOnlyReproduced
CHECK_DEADLOCK FALSE
