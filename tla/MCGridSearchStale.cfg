\* The script run twice on one workflow, topology and distribution with a
\* single grid point; the second run finds the first run's artifact.
CONSTANTS
  Wfs <- SafeGridWfs
  HelperMayFail = FALSE
  Topos <- OneTopo
  NUM_DISTRIBUTIONS = 1
  NS <- OneValue
  TS <- OneValue
  Artifacts <- GridArtifacts
  Garbage = Garbage
  ParseError = ParseError
  IndexError = IndexError
  StopIteration = StopIteration
  MaxCrashes = 0
  MaxSweeps = 2
  NoPlan = NoPlan
  Infeasible = Infeasible
SPECIFICATION Spec
INVARIANT StatusReflectsEngine
CHECK_DEADLOCK FALSE
