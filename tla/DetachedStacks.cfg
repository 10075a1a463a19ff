SPECIFICATION Spec
CONSTANTS
  f = f
  g = g
  h = h
  Detached = Detached
  NotLoaded = NotLoaded
  None = None
  Fn = {f, g}
  FileOf <- TwoFiles
  Callees <- NoCallees2
  Behaviours <- TextBound
  N = 2
  FnOf <- FindFG
  Rule = "sqli"
  Sandboxes = {"docker"}
  Starts <- DetachedStart
  Faults <- NoFaults
  MayCrash = FALSE
  MaxRuns = 1
INVARIANTS
  StartsFromUnpatchedHead
CHECK_DEADLOCK FALSE
