------------------------------- MODULE Planner -------------------------------
(***************************************************************************)
(* The File Distribution Planner: distribute_input_files of evaluation.py *)
(* (identical in gridSearch.py).  One call copies the site budgets, walks *)
(* the input files in insertion order and puts each on a site chosen      *)
(* uniformly at random among those whose remaining storage strictly       *)
(* exceeds the file's size; the plan is stored in the run configuration   *)
(* only after the last file.  random.choice on an empty list raises       *)
(* IndexError: that is the NoFeasibleSite failure of the spec.            *)
(*                                                                         *)
(* The inputs (topology, workflow total size, file sizes, budgets) are    *)
(* variables that no action of the planner changes, so that a sweep can   *)
(* instantiate them with its own state.                                   *)
(***************************************************************************)
EXTENDS Naturals, Sequences, FiniteSetsExt, Allocation

CONSTANTS
  NoPlan,          \* model value: config has no "files" key
  Infeasible,      \* model value: the IndexError of random.choice
  TopologyIds,   \* indices of SiteConfigs a call may run on
  Workloads      \* set of [total |-> Nat, files |-> Seq(Nat)]

VARIABLES
  sites,        \* topology: site id -> "small" | "large"
  total,        \* total_size of the workflow
  files,        \* files2size: file index -> size, in insertion order
  id2storage,   \* budgets from setup_sites, in units of 1/Den(sites)
  free,         \* free_storage, the copy the loop decrements
  k,            \* index of the file the loop is at
  additions,    \* config_file_additions: file index -> chosen site id
  configFiles,  \* config["files"]; NoPlan while the key is absent
  ppc           \* "idle", "loop", "done", "failed"

inputs == <<sites, total, files, id2storage>>
vars == <<inputs, free, k, additions, configFiles, ppc>>

\* A file's size in storage units.
Size(i) == files[i] * Den(sites)

\* The call on a fresh deepcopy of the base configuration (no "files"
\* key yet): free_storage = copy.copy(id2storage), additions = list().
Call ==
  /\ ppc # "loop"
  /\ free' = id2storage
  /\ k' = 1
  /\ additions' = <<>>
  /\ configFiles' = NoPlan
  /\ ppc' = "loop"
  /\ UNCHANGED inputs

\* ids: the sites whose available_storage > size.
FitSites == {id \in DOMAIN free : free[id] > Size(k)}

(***************************************************************************)
(* Mutant: the fit test is dropped and any site may be chosen.            *)
(***************************************************************************)
PlaceFileAnySite ==
  /\ ppc = "loop"
  /\ k <= Len(files)
  /\ FitSites # {}
  /\ \E target \in DOMAIN free :
        /\ free' = [free EXCEPT ![target] = @ - Size(k)]
        /\ additions' = Append(additions, target)
  /\ k' = k + 1
  /\ UNCHANGED <<inputs, configFiles, ppc>>

(***************************************************************************)
(* Mutant: config["files"] is extended inside the loop, so a failing call *)
(* leaves a partial plan behind.                                          *)
(***************************************************************************)
PlaceFileEagerConfig ==
  /\ ppc = "loop"
  /\ k <= Len(files)
  /\ FitSites # {}
  /\ \E target \in FitSites :
        /\ free' = [free EXCEPT ![target] = @ - Size(k)]
        /\ additions' = Append(additions, target)
        /\ configFiles' = additions'
  /\ k' = k + 1
  /\ UNCHANGED <<inputs, ppc>>

\* One iteration of the loop: target_id = random.choice(list(ids)),
\* free_storage[target_id] -= size, append the assignment.
PlaceFile ==
  /\ ppc = "loop"
  /\ k <= Len(files)
  /\ FitSites # {}
  /\ \E target \in FitSites :
        /\ free' = [free EXCEPT ![target] = @ - Size(k)]
        /\ additions' = Append(additions, target)
  /\ k' = k + 1
  /\ UNCHANGED <<inputs, configFiles, ppc>>

\* random.choice(list(ids)) with ids empty raises IndexError.
NoFeasibleSite ==
  /\ ppc = "loop"
  /\ k <= Len(files)
  /\ FitSites = {}
  /\ ppc' = "failed"
  /\ UNCHANGED <<inputs, free, k, additions, configFiles>>

\* After the loop: config["files"] = config_file_additions.
StoreFiles ==
  /\ ppc = "loop"
  /\ k > Len(files)
  /\ configFiles' = additions
  /\ ppc' = "done"
  /\ UNCHANGED <<inputs, free, k, additions>>

Init ==
  /\ \E topo \in TopologyIds, wl \in Workloads :
        /\ sites = SiteConfigs[topo].sites
        /\ total = wl.total
        /\ files = wl.files
  /\ id2storage = SetupSites(sites, total)
  /\ free = id2storage
  /\ k = 1
  /\ additions = <<>>
  /\ configFiles = NoPlan
  /\ ppc = "idle"

\* One call of distribute_input_files.
Next ==
  \/ ppc = "idle" /\ Call
  \/ PlaceFile
  \/ NoFeasibleSite
  \/ StoreFiles

Spec == Init /\ [][Next]_vars

-----------------------------------------------------------------------------
(***************************************************************************)
(* Properties                                                              *)
(***************************************************************************)

SumOf(f) == MapThenSumSet(LAMBDA x : f[x], DOMAIN f)

TypeOK ==
  /\ id2storage \in [DOMAIN sites -> Nat]
  /\ free \in [DOMAIN id2storage -> Nat]
  /\ k \in 1..Len(files) + 1
  /\ additions \in Seq(DOMAIN sites)
  /\ configFiles \in Seq(DOMAIN sites) \cup {NoPlan}
  /\ ppc \in {"idle", "loop", "done", "failed"}

(***************************************************************************)
(* setup_sites: the budgets add up to 1.5 times the workflow's total size *)
(* and every large site gets exactly twice what every small site gets     *)
(* (spec 8, first property).                                              *)
(***************************************************************************)
BudgetsProportional ==
  /\ 2 * SumOf(id2storage) = 3 * total * Den(sites)
  /\ \A s, l \in DOMAIN id2storage :
        sites[s] = "small" /\ sites[l] = "large" => id2storage[l] = 2 * id2storage[s]

(***************************************************************************)
(* distribute_input_files raises IndexError only at a file larger than    *)
(* total / (2 * (n - 1)) for n sites, when the input files add up to at   *)
(* most the workflow's total size: the 50% slack of setup_sites rules out *)
(* a dead end for every smaller file, whatever the random choices were.   *)
(***************************************************************************)
FailureOnlyForLargeFile ==
  ppc = "failed" =>
     2 * (Cardinality(DOMAIN id2storage) - 1) * files[k] >= total

(***************************************************************************)
(* One call of distribute_input_files implements the planner's contract   *)
(* PlannerAbstract: a complete plan within every site's budget, or        *)
(* NoFeasibleSite with no plan in the configuration.                      *)
(***************************************************************************)
Abstract == INSTANCE PlannerAbstract WITH
  budget <- id2storage,
  sizes <- [i \in DOMAIN files |-> Size(i)],
  Pending <- NoPlan,
  outcome <- IF configFiles # NoPlan THEN configFiles
             ELSE IF ppc = "failed" THEN Infeasible ELSE NoPlan

PlannerRefinement == Abstract!Spec

=============================================================================
