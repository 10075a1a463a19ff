SPECIFICATION Spec
CONSTANTS
  f = f
  g = g
  h = h
  Detached = Detached
  NotLoaded = NotLoaded
  None = None
  Fn = {f, g}
  FileOf <- TwoFiles
  Callees <- FCallsG
  Behaviours <- TextBound
  N = 2
  FnOf <- FindGF
  Rule = "sqli"
  Sandboxes = {"local"}
  Starts <- CleanStart
  Faults <- NoFaults
  MayCrash = FALSE
  MaxRuns = 1
INVARIANTS
  ReportedFixIsReal
CHECK_DEADLOCK FALSE
