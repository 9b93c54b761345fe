--------------------------- MODULE PlannerAbstract ---------------------------
(***************************************************************************)
(* What the File Distribution Planner promises (spec 4.2 and 8): one call *)
(* either yields a plan that places every input file on exactly one site  *)
(* with no site holding more than its storage budget, or fails with       *)
(* NoFeasibleSite and yields no plan at all.  Nothing more is promised:   *)
(* the choice among feasible plans is random.                             *)
(***************************************************************************)
EXTENDS Naturals, Sequences, FiniteSetsExt

CONSTANTS
  Pending,         \* model value: no call has returned yet
  Infeasible       \* model value: the call failed with NoFeasibleSite

VARIABLES
  budget,   \* site id -> storage budget
  sizes,    \* file index -> size, in the same units as budget
  outcome   \* Pending, Infeasible, or a plan file index -> site id

vars == <<budget, sizes, outcome>>

\* Storage a plan puts on one site.
Load(plan, s) ==
  MapThenSumSet(LAMBDA i : sizes[i], {i \in DOMAIN plan : plan[i] = s})

FeasiblePlans ==
  {plan \in [DOMAIN sizes -> DOMAIN budget] :
      \A s \in DOMAIN budget : Load(plan, s) <= budget[s]}

Init == outcome = Pending

Decide ==
  /\ outcome = Pending
  /\ outcome' \in FeasiblePlans \cup {Infeasible}
  /\ UNCHANGED <<budget, sizes>>

Spec == Init /\ [][Decide]_vars

=============================================================================
