\* The script run twice: two workflows, two topologies, one distribution,
\* the PART trial only (4 trials per run; the RND loop is checked by
\* MCEvaluation.cfg).  The first workflow
\* has an input file that may find no site and the engine may report a
\* zero Makespan or a malformed row, so a run may end in an exception; the second run starts
\* after the first finished or failed and finds its result artifacts; the
\* input helper may write no csv, so a run may read the earlier csv or fail
\* to open one.
CONSTANTS
  Wfs <- MixedWfs
  HelperMayFail = TRUE
  Topos <- TwoTopos
  NUM_DISTRIBUTIONS = 1
  RND_REPS = 0
  Artifacts <- RerunArtifacts
  Garbage = Garbage
  ParseError = ParseError
  IndexError = IndexError
  StopIteration = StopIteration
  MaxCrashes = 0
  MaxSweeps = 2
  NoPlan = NoPlan
  Infeasible = Infeasible
SPECIFICATION Spec
PROPERTIES
  TableRefinement
\* The script ends: finished or failed.
CHECK_DEADLOCK FALSE
