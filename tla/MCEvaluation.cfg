\* One run of the script, which may be killed once: one topology, two
\* distributions, PART plus two RND repetitions (6 trials).
CONSTANTS
  Wfs <- SafeWfs
  HelperMayFail = FALSE
  Topos <- OneTopo
  NUM_DISTRIBUTIONS = 2
  RND_REPS = 2
  Artifacts <- OkArtifacts
  Garbage = Garbage
  ParseError = ParseError
  IndexError = IndexError
  StopIteration = StopIteration
  MaxCrashes = 1
  MaxSweeps = 1
  NoPlan = NoPlan
  Infeasible = Infeasible
SPECIFICATION Spec
INVARIANTS
  TypeOK
  StatusReflectsEngine
  SuccessHasMetrics
PROPERTIES
  TableRefinement
\* The script ends: finished or killed.
CHECK_DEADLOCK FALSE
