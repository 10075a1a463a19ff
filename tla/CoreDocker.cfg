SPECIFICATION FairSpec
CONSTANTS
  f = f
  g = g
  h = h
  Detached = Detached
  NotLoaded = NotLoaded
  None = None
  Fn = {f, g}
  FileOf <- TwoFiles
  Callees <- FCallsG
  Behaviours <- MostKinds
  N = 2
  FnOf <- FindGF
  Rule = "sqli"
  Sandboxes = {"docker"}
  Starts <- CleanStart
  Faults <- CaughtFaults
  MayCrash = FALSE
  MaxRuns = 1
INVARIANTS
  ReportedFixIsReal
  ConfirmedOnDisk
PROPERTIES
  Terminates
  ConfirmedIsSettled
CHECK_DEADLOCK FALSE
