\* The script run twice on one distribution with PART and one RND trial;
\* the second run finds the first run's result artifacts.
CONSTANTS
  Wfs <- SafeWfs
  HelperMayFail = FALSE
  Topos <- OneTopo
  NUM_DISTRIBUTIONS = 1
  RND_REPS = 1
  Artifacts <- OkArtifacts
  Garbage = Garbage
  ParseError = ParseError
  IndexError = IndexError
  StopIteration = StopIteration
  MaxCrashes = 0
  MaxSweeps = 2
  NoPlan = NoPlan
  Infeasible = Infeasible
SPECIFICATION Spec
INVARIANT StatusReflectsEngine
CHECK_DEADLOCK FALSE
