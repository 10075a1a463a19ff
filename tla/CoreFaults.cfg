SPECIFICATION Spec
CONSTANTS
  f = f
  g = g
  h = h
  Detached = Detached
  NotLoaded = NotLoaded
  None = None
  Fn = {f, g}
  FileOf <- TwoInOneFile
  Callees <- NoCallees2
  Behaviours <- FaultKinds
  N = 2
  FnOf <- FindFG
  Rule = "sqli"
  Sandboxes = {"local", "docker"}
  Starts <- AnyStart
  Faults <- EveryFault
  MayCrash = TRUE
  MaxRuns = 1
INVARIANTS
  ExitZeroMeansFixed
PROPERTIES
  CommitsStayOnScratch
  PublishesOnlyValidated
  ImplementsLifecycle
CHECK_DEADLOCK FALSE
