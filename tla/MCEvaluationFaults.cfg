\* One run on a workflow whose 6-byte input file fits only on the large
\* site of site_conf_2_site, which the random placement of the 4-byte
\* file may already have filled; the engine may report a zero Makespan,
\* write a row of three fields, or leave out the Makespan row.
CONSTANTS
  Wfs <- BigFileWfs
  HelperMayFail = FALSE
  Topos <- OneTopo
  NUM_DISTRIBUTIONS = 1
  RND_REPS = 1
  Artifacts <- FaultArtifacts
  Garbage = Garbage
  ParseError = ParseError
  IndexError = IndexError
  StopIteration = StopIteration
  MaxCrashes = 0
  MaxSweeps = 1
  NoPlan = NoPlan
  Infeasible = Infeasible
SPECIFICATION Spec
INVARIANT FaultsContained
CHECK_DEADLOCK FALSE
