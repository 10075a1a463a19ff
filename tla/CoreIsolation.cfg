SPECIFICATION Spec
CONSTANTS
  f = f
  g = g
  h = h
  Detached = Detached
  NotLoaded = NotLoaded
  None = None
  Fn = {f, g, h}
  FileOf <- WithHelper
  Callees <- FCallsH
  Behaviours <- TextBoundBroken
  N = 2
  FnOf <- FindFG
  Rule = "sqli"
  Sandboxes = {"local", "docker"}
  Starts <- CleanStart
  Faults <- TolerableFaults
  MayCrash = FALSE
  MaxRuns = 2
INVARIANTS
  RestoredBetweenFindings
  IsolatedFix
  ReportedFixIsReal
PROPERTIES
  ImplementsLifecycle
CHECK_DEADLOCK FALSE
