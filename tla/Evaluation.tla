------------------------------ MODULE Evaluation ------------------------------
(***************************************************************************)
(* The Trial Sweep Controller of evaluation.py (its __main__ loop and      *)
(* random_trial), with the Trial Executor and Result Aggregator inlined   *)
(* there.  For every workflow, topology and distribution index it runs    *)
(* setup_sites and distribute_input_files (the Planner, composed below),  *)
(* then one PART trial and RND_REPS randomized trials.  A trial writes a  *)
(* run configuration, runs the external engine as a blocking subprocess,  *)
(* and appends one row to the master table: FAILURE with zero metrics if  *)
(* the result artifact is absent, else SUCCESS with the parsed metrics.   *)
(*                                                                         *)
(* Environment: the engine writes a result artifact or writes nothing;    *)
(* the process can be killed (SIGKILL, power loss) at any step and the    *)
(* script run again.  The result directory is created with exist_ok and  *)
(* never cleaned, so artifacts survive a restart; the master table is     *)
(* opened with mode 'w' and is a buffered file: a row reaches the disk    *)
(* when the buffer fills or when the with-block closes the file.          *)
(*                                                                         *)
(* Data is abstracted: a workflow is its sizes, a trial name is the tuple *)
(* of the coordinates its f-string is built from (N and T are the         *)
(* constants 0 and are left out), an artifact is its csv rows, read by   *)
(* ResultParser, and a row keeps the metrics its columns are computed    *)
(* from (the transfer factors divide them by input_size and makespan).   *)
(***************************************************************************)
EXTENDS Naturals, Sequences, FiniteSets, Functions, TLC, Allocation,
        ResultParser

CONSTANTS
  Wfs,                \* sequence of sets of [total, input, files]: for each
                      \* workflow, in order, the versions its file may have
  HelperMayFail,      \* whether getInputFilesHelper may write no csv
  Topos,              \* sequence of SiteConfigs indices: site_configs
  NUM_DISTRIBUTIONS,  \* distributions per workflow and topology
  RND_REPS,           \* randomized repetitions per distribution
  Artifacts,          \* result artifacts (csv rows) the engine may write
  MaxCrashes,         \* bound on process kills
  MaxSweeps,          \* bound on runs of the script
  NoPlan, Infeasible  \* model values of the Planner

ASSUME NUM_DISTRIBUTIONS \in Nat \ {0} /\ RND_REPS \in Nat
ASSUME HelperMayFail \in BOOLEAN

VARIABLES
  pc,          \* where the main loop is
  w, t, d,     \* workflow, topology and distribution loop indices
  trial,       \* 0: the PART trial; j + 1: RND repetition j
  runCounter,  \* run_counter
  totalSize, inputSize, fileMap,   \* get_files_and_size(wf)
  id2storage, free, k, additions, configFiles, ppc,  \* the Planner
  results,     \* result directory: trial name -> rows of its artifact
  wrote,       \* auxiliary: the engine wrote an artifact in this trial
  table,       \* rows of the master table that are on disk
  buffer,      \* rows written to the file object but not yet flushed
  crashes, sweeps,
  dax,         \* workflow file (its sizes) of every workflow, on disk
  inputs       \* evaluation_inputs: workflow -> sizes in its csv

plannerVars == <<id2storage, free, k, additions, configFiles, ppc>>
loopVars == <<w, t, d, trial, runCounter, totalSize, inputSize, fileMap>>
vars == <<pc, loopVars, plannerVars, results, wrote, table, buffer,
          crashes, sweeps, dax, inputs>>

\* What generate_synthetic_workflows can leave on disk: one version of
\* every workflow file (a real workflow has a single version).
Generated == {f \in [1..Len(Wfs) -> UNION Range(Wfs)] :
                \A i \in 1..Len(Wfs) : f[i] \in Wfs[i]}

Sites == SiteConfigs[Topos[t]].sites

P == INSTANCE Planner WITH
  sites <- Sites, total <- totalSize, files <- fileMap,
  TopologyIds <- DOMAIN Topos, Workloads <- {}

\* run_counter is incremented once per distribution.
MaxRunCounter == Len(Wfs) * Len(Topos) * NUM_DISTRIBUTIONS

(***************************************************************************)
(* The trials of one run in the order of the loops for wf, for           *)
(* site_config, for i, for approach in ('PART', 'RND') and random_trial's *)
(* for j: a trial is <<wf, config, i, run_counter, RND_COUNT>>, with      *)
(* run_counter counting the distributions and RND_COUNT -1 for PART.     *)
(***************************************************************************)
EvalOrder ==
  [j \in 1..MaxRunCounter * (RND_REPS + 1) |->
     LET x == j - 1
         run0 == x \div (RND_REPS + 1)
         d0 == run0 % NUM_DISTRIBUTIONS
         t0 == (run0 \div NUM_DISTRIBUTIONS) % Len(Topos)
         w0 == run0 \div (NUM_DISTRIBUTIONS * Len(Topos))
     IN  <<w0 + 1, t0 + 1, d0, run0 + 1, (x % (RND_REPS + 1)) - 1>>]

-----------------------------------------------------------------------------
(***************************************************************************)
(* Trial names and rows                                                    *)
(***************************************************************************)

\* name = f"{approach}_{run_counter}_{wf}_{site_config}_distribution{i}_n{N}_t{T}"
PartName == <<"PART", runCounter, w, t, d>>

(***************************************************************************)
(* Mutant: the repetition index j is left out of the RND name.            *)
(***************************************************************************)
RndNameNoRep(j) == <<"RND", runCounter, w, t, d>>

\* name = f"RND_{run_counter}_{j}_{wf}_{site_config}_distribution{..}_n{N}_t{T}"
RndName(j) == <<"RND", runCounter, j, w, t, d>>

TrialName == IF trial = 0 THEN PartName ELSE RndName(trial - 1)

\* The metrics the read loop takes from this trial's artifact.
Read == ReadRows(results[TrialName], EvalDefaults)

\* The metric columns of a FAILURE row.
NoMetrics == [m \in DOMAIN EvalDefaults |-> 0]

\* The RND_COUNT column: -1 for PART, j for RND.
RndCount == trial - 1

(***************************************************************************)
(* Mutant: random_trial's FAILURE row copies the PART row's RND_COUNT -1. *)
(***************************************************************************)
FailureRowPartIndex ==
  [wf |-> w, status |-> "FAILURE", metrics |-> NoMetrics, config |-> t,
   distribution |-> d, run |-> runCounter, rnd |-> -1, engineWrote |-> wrote]

\* [wf, 0, 0, 0, N, T, "FAILURE", config, i, run_counter, j]: zero metrics
FailureRow ==
  [wf |-> w, status |-> "FAILURE", metrics |-> NoMetrics, config |-> t,
   distribution |-> d, run |-> runCounter, rnd |-> RndCount,
   engineWrote |-> wrote]

\* [wf, transfer_factor, transfer_factor_time, makespan, N, T, "SUCCESS", ...]
SuccessRow(p) ==
  [wf |-> w, status |-> "SUCCESS", metrics |-> p, config |-> t,
   distribution |-> d, run |-> runCounter, rnd |-> RndCount,
   engineWrote |-> wrote]

\* final_result_writer.writerow: the row goes to the file object's buffer,
\* and the buffer is written out when it is full.
WriteRow(r) ==
  \/ /\ buffer' = Append(buffer, r)
     /\ UNCHANGED table
  \/ /\ table' = table \o Append(buffer, r)
     /\ buffer' = <<>>

\* An exception leaves the with-block, which closes (flushes) the table.
Abort ==
  /\ table' = table \o buffer
  /\ buffer' = <<>>
  /\ pc' = "aborted"

-----------------------------------------------------------------------------
(***************************************************************************)
(* The main loop                                                           *)
(***************************************************************************)

(***************************************************************************)
(* Mutant: the table is opened with mode 'a' and keeps an earlier run's   *)
(* rows.                                                                   *)
(***************************************************************************)
StartAppend ==
  /\ pc = "start"
  /\ UNCHANGED table
  /\ buffer' = <<>>
  /\ runCounter' = 0
  /\ w' = 1
  /\ dax' \in Generated
  /\ pc' = "load"
  /\ UNCHANGED <<t, d, trial, totalSize, inputSize, fileMap, plannerVars,
                 results, wrote, crashes, sweeps, inputs>>

\* makedirs(exist_ok=True), open(final_result_file, 'w'), header row,
\* run_counter = 0, first workflow.
Start ==
  /\ pc = "start"
  /\ table' = <<>>
  /\ buffer' = <<>>
  /\ runCounter' = 0
  /\ w' = 1
  /\ dax' \in Generated
  /\ pc' = "load"
  /\ UNCHANGED <<t, d, trial, totalSize, inputSize, fileMap, plannerVars,
                 results, wrote, crashes, sweeps, inputs>>

\* The sizes get_files_and_size reads from a csv.
LoadSizes(v) ==
  /\ totalSize' = v.total
  /\ inputSize' = v.input
  /\ fileMap' = v.files
  /\ t' = 1
  /\ pc' = "setup"

\* total_size, input_size, file_map = get_files_and_size(wf): the helper
\* writes the csv of the workflow file, which is then read.
LoadWorkflow ==
  /\ pc = "load"
  /\ inputs' = (w :> dax[w]) @@ inputs
  /\ LoadSizes(dax[w])
  /\ UNCHANGED <<w, d, trial, runCounter, plannerVars, results, wrote,
                 table, buffer, crashes, sweeps, dax>>

\* The helper's exit status is not checked: when it writes nothing, the
\* csv an earlier run left under the workflow's name is read.
LoadStaleInput ==
  /\ pc = "load"
  /\ HelperMayFail
  /\ w \in DOMAIN inputs
  /\ LoadSizes(inputs[w])
  /\ UNCHANGED <<w, d, trial, runCounter, plannerVars, results, wrote,
                 table, buffer, crashes, sweeps, dax, inputs>>

\* The helper writes nothing and there is no earlier csv: open raises
\* FileNotFoundError, which leaves the with-block.
MissingInput ==
  /\ pc = "load"
  /\ HelperMayFail
  /\ w \notin DOMAIN inputs
  /\ Abort
  /\ UNCHANGED <<loopVars, plannerVars, results, wrote, crashes, sweeps,
                 dax, inputs>>

\* base_config = deepcopy(site_config); id2storage = setup_sites(...)
SetupTopology ==
  /\ pc = "setup"
  /\ id2storage' = SetupSites(Sites, totalSize)
  /\ d' = 0
  /\ pc' = "distribute"
  /\ UNCHANGED <<w, t, trial, runCounter, totalSize, inputSize, fileMap,
                 free, k, additions, configFiles, ppc, results, wrote,
                 table, buffer, crashes, sweeps, dax, inputs>>

\* distribution_config = deepcopy(base_config); distribute_input_files(...)
BeginDistribution ==
  /\ pc = "distribute"
  /\ UNCHANGED <<pc, loopVars, results, wrote, table, buffer, crashes, sweeps,
                 dax, inputs>>
  /\ ppc # "loop"
  /\ P!Call

PlaceFile ==
  /\ pc = "distribute"
  /\ UNCHANGED <<pc, loopVars, results, wrote, table, buffer, crashes, sweeps,
                 dax, inputs>>
  /\ P!PlaceFile

\* The IndexError of random.choice is not caught: the sweep ends.
DistributionFailed ==
  /\ pc = "distribute"
  /\ UNCHANGED <<loopVars, results, wrote, crashes, sweeps, dax, inputs>>
  /\ P!NoFeasibleSite
  /\ Abort

\* The plan is stored; run_counter += 1; the PART approach comes first.
DistributionStored ==
  /\ pc = "distribute"
  /\ UNCHANGED <<w, t, d, totalSize, inputSize, fileMap, results, wrote,
                 table, buffer, crashes, sweeps, dax, inputs>>
  /\ P!StoreFiles
  /\ runCounter' = runCounter + 1
  /\ trial' = 0
  /\ pc' = "engine"

\* json.dump(run_config); subprocess.run(engine, config, log, result):
\* the engine writes the result artifact, or writes nothing.
RunEngine ==
  /\ pc = "engine"
  /\ \/ \E a \in Artifacts :
           /\ results' = (TrialName :> a) @@ results
           /\ wrote' = TRUE
     \/ /\ UNCHANGED results
        /\ wrote' = FALSE
  /\ pc' = "record"
  /\ UNCHANGED <<loopVars, plannerVars, table, buffer, crashes, sweeps,
                 dax, inputs>>

\* not os.path.exists(result_path): "ERROR:" and stderr to the log, a
\* FAILURE row, continue.
RecordFailure ==
  /\ pc = "record"
  /\ TrialName \notin DOMAIN results
  /\ WriteRow(FailureRow)
  /\ pc' = "advance"
  /\ UNCHANGED <<loopVars, plannerVars, results, wrote, crashes, sweeps,
                 dax, inputs>>

\* The artifact is read; transfer_factor = transferred_size / input_size,
\* transfer_factor_time = transferred_time / makespan, a SUCCESS row.
RecordSuccess ==
  /\ pc = "record"
  /\ TrialName \in DOMAIN results
  /\ Read # ParseError
  /\ inputSize # 0
  /\ Read.Makespan # 0
  /\ WriteRow(SuccessRow(Read))
  /\ pc' = "advance"
  /\ UNCHANGED <<loopVars, plannerVars, results, wrote, crashes, sweeps,
                 dax, inputs>>

\* Python float division by a zero input_size or Makespan raises
\* ZeroDivisionError, which leaves the with-block.
ZeroDivision ==
  /\ pc = "record"
  /\ TrialName \in DOMAIN results
  /\ Read # ParseError
  /\ inputSize = 0 \/ Read.Makespan = 0
  /\ Abort
  /\ UNCHANGED <<loopVars, plannerVars, results, wrote, crashes, sweeps,
                 dax, inputs>>

\* measure, value = row or float(value) raises ValueError in the read
\* loop, which leaves the with-block.
MalformedArtifact ==
  /\ pc = "record"
  /\ TrialName \in DOMAIN results
  /\ Read = ParseError
  /\ Abort
  /\ UNCHANGED <<loopVars, plannerVars, results, wrote, crashes, sweeps,
                 dax, inputs>>

(***************************************************************************)
(* Mutant: run_counter is incremented per trial, as gridSearch.py does.   *)
(***************************************************************************)
NextRepCounting ==
  /\ pc = "advance"
  /\ trial < RND_REPS
  /\ trial' = trial + 1
  /\ runCounter' = runCounter + 1
  /\ pc' = "engine"
  /\ UNCHANGED <<w, t, d, totalSize, inputSize, fileMap,
                 plannerVars, results, wrote, table, buffer, crashes, sweeps,
                 dax, inputs>>

\* for j in range(RND_REPS), entered after the PART trial.
NextRep ==
  /\ pc = "advance"
  /\ trial < RND_REPS
  /\ trial' = trial + 1
  /\ pc' = "engine"
  /\ UNCHANGED <<w, t, d, runCounter, totalSize, inputSize, fileMap,
                 plannerVars, results, wrote, table, buffer, crashes, sweeps,
                 dax, inputs>>

\* for i in range(NUM_DISTRIBUTIONS)
NextDistribution ==
  /\ pc = "advance"
  /\ trial = RND_REPS
  /\ d < NUM_DISTRIBUTIONS - 1
  /\ d' = d + 1
  /\ pc' = "distribute"
  /\ UNCHANGED <<w, t, trial, runCounter, totalSize, inputSize, fileMap,
                 plannerVars, results, wrote, table, buffer, crashes, sweeps,
                 dax, inputs>>

\* for site_config in site_configs
NextTopology ==
  /\ pc = "advance"
  /\ trial = RND_REPS
  /\ d = NUM_DISTRIBUTIONS - 1
  /\ t < Len(Topos)
  /\ t' = t + 1
  /\ pc' = "setup"
  /\ UNCHANGED <<w, d, trial, runCounter, totalSize, inputSize, fileMap,
                 plannerVars, results, wrote, table, buffer, crashes, sweeps,
                 dax, inputs>>

\* for wf in wfs
NextWorkflow ==
  /\ pc = "advance"
  /\ trial = RND_REPS
  /\ d = NUM_DISTRIBUTIONS - 1
  /\ t = Len(Topos)
  /\ w < Len(Wfs)
  /\ w' = w + 1
  /\ pc' = "load"
  /\ UNCHANGED <<t, d, trial, runCounter, totalSize, inputSize, fileMap,
                 plannerVars, results, wrote, table, buffer, crashes, sweeps,
                 dax, inputs>>

\* The loops end; leaving the with-block closes (flushes) the table.
Finish ==
  /\ pc = "advance"
  /\ trial = RND_REPS
  /\ d = NUM_DISTRIBUTIONS - 1
  /\ t = Len(Topos)
  /\ w = Len(Wfs)
  /\ table' = table \o buffer
  /\ buffer' = <<>>
  /\ pc' = "done"
  /\ UNCHANGED <<loopVars, plannerVars, results, wrote, crashes, sweeps,
                 dax, inputs>>

\* The process is killed: the unflushed buffer dies with it.
Crash ==
  /\ pc \notin {"done", "aborted", "crashed"}
  /\ crashes < MaxCrashes
  /\ crashes' = crashes + 1
  /\ pc' = "crashed"
  /\ UNCHANGED <<loopVars, plannerVars, results, wrote, table, buffer, sweeps,
                 dax, inputs>>

\* The script is run again; the result directory is kept as it is.
Restart ==
  /\ pc \in {"done", "aborted", "crashed"}
  /\ sweeps < MaxSweeps
  /\ sweeps' = sweeps + 1
  /\ ppc' = "idle"
  /\ pc' = "start"
  /\ UNCHANGED <<loopVars, id2storage, free, k, additions, configFiles,
                 results, wrote, table, buffer, crashes, dax, inputs>>

Init ==
  /\ pc = "start"
  /\ w = 1 /\ t = 1 /\ d = 0 /\ trial = 0 /\ runCounter = 0
  /\ totalSize = 0 /\ inputSize = 0 /\ fileMap = <<>>
  /\ id2storage = <<>> /\ free = <<>> /\ k = 1 /\ additions = <<>>
  /\ configFiles = NoPlan /\ ppc = "idle"
  /\ results = <<>>
  /\ wrote = FALSE
  /\ table = <<>> /\ buffer = <<>>
  /\ crashes = 0 /\ sweeps = 1
  /\ dax = [i \in 1..Len(Wfs) |-> CHOOSE v \in Wfs[i] : TRUE]
  /\ inputs = <<>>

\* The steps of the script itself.
SweepStep ==
  \/ Start \/ LoadWorkflow \/ LoadStaleInput \/ MissingInput \/ SetupTopology
  \/ BeginDistribution \/ PlaceFile \/ DistributionFailed \/ DistributionStored
  \/ RunEngine \/ RecordFailure \/ RecordSuccess \/ ZeroDivision
  \/ MalformedArtifact
  \/ NextRep \/ NextDistribution \/ NextTopology \/ NextWorkflow \/ Finish

Next == SweepStep \/ Crash \/ Restart

\* The script is sequential and never waits except on the engine, which
\* is assumed to return; kills and re-runs are not forced.
Spec == Init /\ [][Next]_vars

-----------------------------------------------------------------------------
(***************************************************************************)
(* Properties                                                              *)
(***************************************************************************)

Row == [wf : 1..Len(Wfs), status : {"SUCCESS", "FAILURE"},
        metrics : [DOMAIN EvalDefaults -> Int], config : 1..Len(Topos),
        distribution : 0..NUM_DISTRIBUTIONS - 1, run : 1..MaxRunCounter,
        rnd : -1..RND_REPS - 1, engineWrote : BOOLEAN]

TypeOK ==
  /\ pc \in {"start", "load", "setup", "distribute", "engine", "record",
             "advance", "done", "aborted", "crashed"}
  /\ w \in 1..Len(Wfs) /\ t \in 1..Len(Topos)
  /\ d \in 0..NUM_DISTRIBUTIONS - 1 /\ trial \in 0..RND_REPS
  /\ runCounter \in 0..MaxRunCounter
  /\ ppc \in {"idle", "loop", "done", "failed"}
  /\ \A n \in DOMAIN results : results[n] \in Artifacts
  /\ table \in Seq(Row) /\ buffer \in Seq(Row)
  /\ crashes \in 0..MaxCrashes /\ sweeps \in 1..MaxSweeps
  /\ dax \in Generated
  /\ \A i \in DOMAIN inputs : i \in 1..Len(Wfs) /\ inputs[i] \in Wfs[i]

(***************************************************************************)
(* Every row of the current run says SUCCESS exactly when the engine call *)
(* of that very trial wrote a result artifact: the existence check of     *)
(* os.path.exists(result_path) never sees an artifact of another trial,   *)
(* which rests on every trial name of a sweep being distinct.             *)
(***************************************************************************)
StatusReflectsEngine ==
  \A r \in Range(table) \cup Range(buffer) :
     (r.status = "SUCCESS") = r.engineWrote

(***************************************************************************)
(* No failure of a trial or of a distribution escalates to an exception   *)
(* that ends the sweep (spec 4.4, 7: the sweep always completes).         *)
(***************************************************************************)
NoAbort == pc # "aborted"

(***************************************************************************)
(* A row written for a finished trial is on disk when the process is      *)
(* killed between trials (spec 5: the table is written synchronously      *)
(* after every trial).                                                     *)
(***************************************************************************)
DurableRows == pc = "crashed" => buffer = <<>>

(***************************************************************************)
(* A SUCCESS row carries the three metrics the engine reported: none of  *)
(* the -1 values the read loop starts from is left in it (spec 4.4: on   *)
(* artifact presence, SUCCESS with the three numeric metrics).           *)
(***************************************************************************)
SuccessHasMetrics ==
  \A r \in Range(table) \cup Range(buffer) :
     r.status = "SUCCESS" => \A m \in DOMAIN r.metrics : r.metrics[m] # -1

(***************************************************************************)
(* Spec 7: whatever goes wrong in one distribution or one trial (no site  *)
(* for a file, a zero divisor, a malformed or incomplete artifact), the  *)
(* sweep completes and the table tells which trials succeeded: the       *)
(* script never ends in an exception and never writes SUCCESS with a     *)
(* metric the engine did not report.                                      *)
(***************************************************************************)
FaultsContained == NoAbort /\ SuccessHasMetrics

(***************************************************************************)
(* The sizes the distributions of a workflow are planned with are those  *)
(* of the workflow file the engine is run on (spec 3: the Workflow       *)
(* Catalog supplies each workflow's sizes): a csv is never read for a    *)
(* workflow file other than the one it was written from.                 *)
(***************************************************************************)
InputMatchesWorkflow ==
  pc \in {"setup", "distribute", "engine", "record", "advance"} =>
     [total |-> totalSize, input |-> inputSize, files |-> fileMap] = dax[w]


(***************************************************************************)
(* The master table as the file holds it: the rows flushed, and those     *)
(* still in the buffer unless the process was killed (at "start" of a     *)
(* re-run, only what the earlier run left on disk).                       *)
(***************************************************************************)
FileRows == IF pc \in {"start", "crashed"} THEN table ELSE table \o buffer

Table == INSTANCE SweepAbstract WITH
  Order <- EvalOrder,
  rows <- [j \in 1..Len(FileRows) |->
             <<FileRows[j].wf, FileRows[j].config, FileRows[j].distribution,
               FileRows[j].run, FileRows[j].rnd>>],
  phase <- CASE pc = "start" -> "starting"
             [] pc = "done" -> "done"
             [] pc \in {"aborted", "crashed"} -> "stopped"
             [] OTHER -> "running"

(***************************************************************************)
(* evaluation.py implements SweepAbstract: every run opens a fresh table  *)
(* and appends one row per trial, the PART trial and then RND_REPS       *)
(* repetitions per distribution, in loop order and with run_counter and  *)
(* RND_COUNT numbering them, none skipped, repeated or left over from an *)
(* earlier run; a finished run has every trial's row, and a killed one   *)
(* keeps a prefix of them.                                                *)
(***************************************************************************)
TableRefinement == Table!Spec

=============================================================================
