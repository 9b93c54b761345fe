\* The script run twice on a synthetic workflow that the second run
\* regenerates with other sizes; the input helper may write no csv.
CONSTANTS
  Wfs <- RegeneratedWfs
  HelperMayFail = TRUE
  Topos <- OneTopo
  NUM_DISTRIBUTIONS = 1
  RND_REPS = 0
  Artifacts <- OkArtifacts
  Garbage = Garbage
  ParseError = ParseError
  IndexError = IndexError
  StopIteration = StopIteration
  MaxCrashes = 0
  MaxSweeps = 2
  NoPlan = NoPlan
  Infeasible = Infeasible
SPECIFICATION Spec
INVARIANT InputMatchesWorkflow
CHECK_DEADLOCK FALSE
