\* One run of the script, which may be killed once: one workflow, one
\* topology, two distributions, a 2 x 2 grid (8 trials).
CONSTANTS
  Wfs <- SafeGridWfs
  HelperMayFail = FALSE
  Topos <- OneTopo
  NUM_DISTRIBUTIONS = 2
  NS <- TwoValues
  TS <- TwoValues
  Artifacts <- GridArtifacts
  Garbage = Garbage
  ParseError = ParseError
  IndexError = IndexError
  StopIteration = StopIteration
  MaxCrashes = 1
  MaxSweeps = 1
  NoPlan = NoPlan
  Infeasible = Infeasible
SPECIFICATION Spec
INVARIANTS
  TypeOK
PROPERTIES
  TableRefinement
\* The script ends: finished or killed.
CHECK_DEADLOCK FALSE
