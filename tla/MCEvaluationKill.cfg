\* One run that may be killed once, with three trials.
CONSTANTS
  Wfs <- SafeWfs
  HelperMayFail = FALSE
  Topos <- OneTopo
  NUM_DISTRIBUTIONS = 1
  RND_REPS = 2
  Artifacts <- OkArtifacts
  Garbage = Garbage
  ParseError = ParseError
  IndexError = IndexError
  StopIteration = StopIteration
  MaxCrashes = 1
  MaxSweeps = 1
  NoPlan = NoPlan
  Infeasible = Infeasible
SPECIFICATION Spec
INVARIANT DurableRows
CHECK_DEADLOCK FALSE
