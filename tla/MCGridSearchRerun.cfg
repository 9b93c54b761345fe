\* The script run twice: two workflows, two topologies, one distribution,
\* a single grid point (4 trials per run).  A run may end in the
\* IndexError of distribute_input_files or in the ZeroDivisionError of a
\* zero input_size or in the ValueError of a malformed artifact; the next
\* run starts over.
CONSTANTS
  Wfs <- GridWfs
  HelperMayFail = TRUE
  Topos <- TwoTopos
  NUM_DISTRIBUTIONS = 1
  NS <- OneValue
  TS <- OneValue
  Artifacts <- RerunGridArtifacts
  Garbage = Garbage
  ParseError = ParseError
  IndexError = IndexError
  StopIteration = StopIteration
  MaxCrashes = 0
  MaxSweeps = 2
  NoPlan = NoPlan
  Infeasible = Infeasible
SPECIFICATION Spec
PROPERTIES
  TableRefinement
\* The script ends: finished or failed.
CHECK_DEADLOCK FALSE
