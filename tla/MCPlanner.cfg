CONSTANTS
  NoPlan = NoPlan
  Infeasible = Infeasible
  TopologyIds <- MCTopologyIds
  Workloads <- MCWorkloads
SPECIFICATION Spec
INVARIANTS
  TypeOK
  BudgetsProportional
  FailureOnlyForLargeFile
PROPERTIES
  PlannerRefinement
\* A call of distribute_input_files returns or raises: both end the call.
CHECK_DEADLOCK FALSE
