# TLA+ models of the evaluation and grid-search sweeps

This directory holds TLA+ models of the experiment drivers in
`src/master_code/experiments/`. `evaluation.py` compares a partitioning
strategy (PART) with randomized placement (RND). `gridSearch.py` sweeps the
(n, t) thresholds of PART. The results are checked with TLC.

## The system

Both scripts are sequential. Each runs a nested loop over workflows, site
topologies and distribution indices. For each (workflow, topology, distribution)
it does the following:

0. **Synthetic workflow generators**: at the start of every run of
   `evaluation.py`, `generate_synthetic_workflows` calls the `run` of
   `aggregation`, `distribution`, `longPipeline` and `multiPipeline` (and of
   `groups` and `redistribution`, which are not in the repository). Each one
   rewrites a DAX (XML) workflow file with newly drawn random sizes.
1. **Workflow Catalog**: `get_files_and_size` runs the engine's
   `getInputFilesHelper`, which writes a CSV of the workflow's sizes into
   `evaluation_inputs/`. It then reads the total size, the input size and the
   input file sizes from that CSV, in insertion order. The helper's result is
   never checked.
2. **Site Topology Builder**: `site_configs` holds four topologies, each made of
   small and large sites.
3. **Capacity Allocator**: `setup_sites` gives each site a storage budget.
   Together the budgets total 1.5 × the workflow's total size, and a large site
   gets twice a small site's share.
4. **File Distribution Planner**: `distribute_input_files` copies the budgets.
   It then walks the files and puts each on a site chosen uniformly at random
   among the sites whose free storage is strictly greater than the file's size.
   The plan is stored in the configuration after the last file. If no site
   fits, `random.choice([])` raises `IndexError`.
5. **Trial Executor and Result Aggregator**, inlined in the loop. Each trial
   does the following:
   - It writes a run configuration and calls the external Java engine as a
     blocking subprocess.
   - It then checks `os.path.exists(result_path)`. If the artifact is absent,
     it appends a FAILURE row with zero metrics. If present, it reads the
     artifact's CSV rows, with each metric starting at −1 (0 in grid search),
     and appends a SUCCESS row with the transfer factors. A row that is not a
     (name, value) pair, or a value `float()` rejects, raises `ValueError`.

   The trials differ by script:
   - evaluation.py runs one PART trial and `RND_REPS` RND trials per
     distribution, and increments `run_counter` once per distribution.
   - gridSearch.py runs one trial per (n, t) grid point and increments
     `run_counter` per trial. Its trial names contain no run counter.

The master table is opened with mode `'w'` inside a `with` block. It is written
through `csv.writer`, which goes through a buffered file object. The result
directories are created with `exist_ok=True` and are never cleaned.

These parts interact only through state inside one process: the budgets, the
plan, `run_counter` and the table. The external engine is reached only through
files: a run configuration goes in, and a result artifact may come out.

## Modules

| Module | Models | State and actions |
|---|---|---|
| `Allocation` | `site_configs`, `setup_sites` | Operators only. A topology is a map from site id to site type. Budgets are exact integers in units of 1/Den(sites), where Den = 2(s + 2l), so the float `fractions` is the integer `3 * total`. |
| `PlannerAbstract` | the planner's contract (spec 4.2, 8) | `outcome` goes from Pending to a feasible complete plan or to Infeasible, in one step. |
| `Planner` | `distribute_input_files` | `free` (the copy), `k` (the file index), `additions`, `configFiles`, and `ppc`. Actions: `Call`, then one `PlaceFile` per file, then `NoFeasibleSite` (the IndexError) or `StoreFiles`. The inputs (`sites`, `total`, `files`, `id2storage`) are variables that no planner action changes, so a sweep can bind them to its own state. |
| `ResultParser` | the artifact read loop of both scripts | Operators only. `ReadRows` is the recursive `for row in reader` loop from a record of defaults (`EvalDefaults`, `GridDefaults`) to the metrics read, or `ParseError` (the `ValueError`). `ReferenceRead` states the artifact format of spec §6 without the loop. `ReadInputs` is the read of the input CSV in `get_files_and_size`: `HeaderSize` for each `int(next(reader)[1])`, giving `StopIteration`, `IndexError` or `ParseError` on a short or bad row, then the recursive file loop `ReadFiles`, where a later row of a name overwrites its size. `ReferenceInputs` states the CSV format without the loop. |
| `ResultArtifact` | the engine writing an artifact (spec §6) | `rows`, appended one at a time by `WriteRow`, from empty rows, pairs, and rows of one or three fields. Its names are the three metrics plus another name, and its values are numbers plus `Garbage` (text `float()` rejects). |
| `Evaluation` | `evaluation.py` `__main__`, `random_trial`, `get_files_and_size` | Loop indices, `run_counter`, the Planner through `INSTANCE`, the result directory `results` (trial name -> artifact rows, read by `ResultParser`), the table as on-disk rows `table` plus unflushed rows `buffer`, and the auxiliary `wrote`. `dax` holds the workflow files on disk, which `Start` regenerates. `inputs` is `evaluation_inputs`, where `LoadWorkflow` has the helper write a CSV; with `HelperMayFail`, `LoadStaleInput` and `MissingInput` are the helper writing nothing. Each step of the loop is an action. The environment adds `Crash` (a kill) and `Restart` (running the script again). |
| `GridSearch` | `gridSearch.py` `__main__`, `get_files_and_size`, `generate_synthetic_workflows` | Same as Evaluation, with the loops over n and t, reading only `TransferredData`. The workflow files, `grid_search_inputs` and the helper's failures (`LoadStaleInput`, `MissingInput`) are modelled as in Evaluation. |
| `SweepAbstract` | what both sweeps promise of the master table (spec §5, §8) | `rows` (the trial of each row in the file) and `phase`. `Open` empties the table, `AppendNext` appends the next trial of the constant sequence `Order`, `Complete` ends a run that has every row, `Stop` keeps a prefix of the rows (an exception, or a kill losing buffered rows), and `Rerun` starts the script again. |
| `SyntheticWorkflows` | `generate_synthetic_workflows` and the four generators | `jobs` (job id -> its `<uses>` elements), `deps` (the `<child>/<parent>` pairs), and `dependencyStr` (multiPipeline's buffered dependencies). One action per loop iteration of each generator's `run`. A file is `<<prefix, index>>`, and a size is the random draw `<<list, index>>` it comes from. |
| `MCPlanner`, `MCEvaluation`, `MCGridSearch` | model values and bounds | Small workloads, topology subsets and artifact sets. |

A trial name is the tuple of the values its f-string is built from. So two
names are equal exactly when the strings would be, given that workflow and
topology names are distinct. Each row keeps the columns the properties compare,
plus the auxiliary `engineWrote`. That field records whether this trial's own
engine call wrote an artifact.

The buffered writer is modelled by what it does. A `writerow` either appends
the row to `buffer` or flushes `buffer` together with the row to `table`, and
the choice is nondeterministic because it depends on the buffer size. An
exception leaves the `with` block, which closes and flushes the file (`Abort`
and `CloseTable`). A kill loses `buffer`.

## Runs

| Run | Checks | Result |
|---|---|---|
| `planner` | TypeOK, BudgetsProportional, FailureOnlyForLargeFile, PlannerRefinement | pass |
| `eval_single` | TypeOK, StatusReflectsEngine, SuccessHasMetrics, TableRefinement | pass |
| `eval_rerun` | TableRefinement | pass |
| `grid_single` | TypeOK, TableRefinement | pass |
| `grid_rerun` | TableRefinement | pass |
| `eval_faults` | FaultsContained | violated |
| `eval_kill` | DurableRows | violated |
| `eval_stale` | StatusReflectsEngine | violated |
| `grid_stale` | StatusReflectsEngine | violated |
| `eval_stale_input` | InputMatchesWorkflow | violated |
| `result_read` | ReadMatchesFormat, InputsMatchFormat | pass |
| `synthetic` | TypeOK, DependenciesMatchDataFlow, FilesConsistent | pass |

What the passing runs show:

- **planner**: runs one call on each of the four topologies, with four
  workloads whose inputs sum to at most the total.
  - **BudgetsProportional**: the budgets sum to 1.5 × total, and a large site
    gets exactly twice a small site's budget.
  - **FailureOnlyForLargeFile**: if the inputs sum to at most total, the
    IndexError can only happen at a file of size ≥ total / (2(n−1)). This holds
    whatever the earlier random choices were.
  - **PlannerRefinement**: every call implements `PlannerAbstract`. It yields
    either a complete plan that stays within every site's budget, or
    Infeasible with no plan stored.
- **eval_single**:
  - Every row's status matches its own trial's engine call.
  - **TableRefinement**: the table implements `SweepAbstract`, with `Order`
    the trials in loop order (`EvalOrder`: per distribution, PART and then
    RND 0..R−1, numbered by `run_counter` and `RND_COUNT`). Rows are appended
    in that order, with none skipped or repeated. A finished run has all of
    them, and a killed run keeps a prefix. The refinement mapping takes the
    file's content: the flushed rows, plus the buffer unless the process was
    killed.
  - **SuccessHasMetrics**: with complete artifacts, a SUCCESS row carries all
    three metrics and no −1 default.
- **eval_rerun** and **grid_rerun**: a run may end in one of several errors:
  - an IndexError;
  - a ZeroDivisionError;
  - the ValueError of a malformed artifact;
  - in evaluation, the FileNotFoundError of a missing input CSV.

  Each run's table still refines `SweepAbstract`: the re-run starts from an
  empty table, and no row of the failed run is left. In both runs the second
  workflow is synthetic, and each run may regenerate it with other sizes.
  The input helper may write nothing, so a run may read the earlier CSV or
  fail to open one.
- **result_read**: for every artifact of up to four rows, both scripts' read
  loop gives exactly the reading of spec §6. That reading is either
  `ValueError`, or, for each metric, the last value reported for it or else
  its default. The same rows read as an input CSV (**InputsMatchFormat**)
  give exactly the total size, the input size and the file sizes, with a
  file listed twice keeping its last size. Otherwise they raise the
  exception of the first defective row: `StopIteration` for a missing header
  row, `IndexError` for a header row of one field, and `ValueError` for a
  non-integer size or a file row that is not a pair. None of these is caught,
  so the script ends.
- **synthetic**: every document the four generators write satisfies three
  checks:
  - **DependenciesMatchDataFlow**: its dependencies are exactly the data
    edges of its files (a consumer depends on the producer of each of its
    inputs), and they form a DAG (`IsDag` of the community module Graphs).
  - **FilesConsistent**: each file has one producer and one size.
  - **TypeOK**: every size is drawn from inside its list.
- **grid_single**:
  - **TableRefinement**: the table implements `SweepAbstract`, with
    `GridOrder` the grid points in the order of the five nested loops.

What the violation runs show (the findings in `PROJECT.json`):

- **eval_faults** checks `FaultsContained`: spec §7 says the sweep always
  completes and the table says which trials succeeded. Its configuration
  admits four faults, each a finding:
  - a file with no site (IndexError, the counterexample TLC prints, because
    it is the shortest);
  - a zero Makespan (ZeroDivisionError; spec §4.5 says inf/NaN is
    propagated; gridSearch.py divides by a zero input size the same way);
  - a result row of three fields (ValueError; spec §7 says FAILURE for that
    trial);
  - an artifact without Makespan, written SUCCESS with −1 (spec §4.4).

  Each reproduces alone when `BigFileWfs` is replaced by `SafeWfs` and
  `FaultArtifacts` by the one artifact set of that case in `MCEvaluation`.
- **eval_stale_input**: the helper writes no CSV on the second run, so the
  previous run's CSV is read. The regenerated workflow is then planned with
  the old workflow's sizes.
- **eval_kill**: a kill loses rows of finished trials that are still in the
  file buffer. Spec §5 says rows are written synchronously.
- **eval_stale** and **grid_stale**: on a re-run, the artifact of an earlier run
  with the same trial name turns a trial whose engine wrote nothing into a
  SUCCESS row.

Each property of a passing run has a mutant in `PROJECT.json`. A mutant is a
plausible bug in a mapped definition (for example, a dropped fit test, a large
site counted once, RND names without `j`, or a loop index not reset), and TLC
finds the property violated when that mutant replaces the definition.

## Bounds and why they are enough

- **Workflows**: one or two, with 1–2 input files. Sizes are small integers,
  chosen so that each case the properties distinguish occurs:
  - a file that fits anywhere;
  - a file that fits only on the large site;
  - a file whose fit depends on an earlier random choice;
  - a workflow with input size 0.

  `MCPlanner` covers all four topologies. The sweeps use one or two
  topologies, because every topology takes the same control path through the
  loop.
- **Distribution and trial loops**: `NUM_DISTRIBUTIONS` ≤ 2, `RND_REPS` ≤ 2,
  and a 2 × 2 grid. These make every loop turn over at least once. The code
  uses 5, 30 and 4 × 4.
- **Kills and re-runs**: `MaxCrashes` ≤ 1 and `MaxSweeps` ≤ 2. One kill and one
  re-run are all the crash and stale-artifact hazards need.
- **Artifacts**: the complete artifact `Report(1)`, plus `Report(0)`, an
  artifact without Makespan, or one with a three-field row where those cases
  are in question. `result_read` enumerates every artifact of up to four rows
  over four names and the values {0, 1, Garbage}, which is 406,901 artifacts.
  This includes every combination of an empty row, a malformed row, an
  unknown name and a repeated metric. Read as an input CSV, four rows are the
  two header rows and two file rows, the fewest in which a file is listed twice.
- **Workflow versions**: one version per workflow, or two for the synthetic
  workflow that `eval_stale_input` and `grid_rerun` regenerate.
- **Generators**: 4 jobs, 2 pipelines of 3 jobs, and 2 workflows of each
  kind. The code uses 100, 100 × 3 and 5. Every loop turns over more than
  once, and the group-end branch of multiPipeline is taken in both
  pipelines. The documents do not depend on the random draws, so the run is
  one deterministic behaviour.

## Fairness

No fairness is assumed and no liveness property is checked. Every loop of
both scripts is a `for` loop over a finite list or range, so a run ends
unless the engine subprocess hangs. That hang is the one way a run can fail
to end, and the model leaves it out (see below). A termination property
would therefore only check the model's own loop bookkeeping. Kills and
re-runs are never forced to happen either.

## Not modelled

- `groups.py` and `redistribution.py`: these generators are not in the
  repository. The runtimes and XML text the other generators write are also
  not modelled.
- The Java engine and its helper, which are outside the repository.
- The log files.
- Float rounding in `setup_sites`: the model uses exact units. This is
  faithful for every realistic size. `1.5 * total` is exact below 2^52,
  and a quotient that is an integer is computed exactly. Subtracting integer
  sizes from it is then exact as well. Otherwise the budget is at least
  1/12 away from every integer, far beyond the rounding error of a double for
  totals below about 10^13 bytes. Either way, the strict `>` test of
  `distribute_input_files` decides as it would in exact arithmetic.
- The lack of a timeout on `subprocess.run`. Spec §5 accepts a hang as a
  limitation. In the model, `RunEngine` always returns an outcome.
- `get_real_workflows`: a fixed list of files, modelled as workflows with a
  single version.

`groups.py` and `redistribution.py`, which both scripts import, are not in the
repository.

## Plan for further work

1. Larger sweep instances. `eval_single` over both topologies, with a
   workflow safe on both, did not finish within 10 minutes with its temporal
   properties, so it stays on one topology. `eval_rerun` and `grid_rerun` walk both
   topologies.
