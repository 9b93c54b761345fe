\* Two workflows of each kind, four jobs per generator and two pipelines
\* of three jobs (the code uses 5, 100, 100 and 3): every loop of every
\* generator turns over more than once.
CONSTANTS
  SYNTHETIC_WFS = 2
  NUM_JOBS = 4
  NUM_PIPELINES = 2
  NUM_JOBS_PER_PIPELINE = 3
SPECIFICATION Spec
INVARIANTS
  TypeOK
  DependenciesMatchDataFlow
  FilesConsistent
\* generate_synthetic_workflows returns after the last generator.
CHECK_DEADLOCK FALSE
