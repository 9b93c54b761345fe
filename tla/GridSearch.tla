------------------------------ MODULE GridSearch ------------------------------
(***************************************************************************)
(* The grid-search mode of the Trial Sweep Controller: the __main__ loop  *)
(* of gridSearch.py.  For every workflow, topology and distribution index *)
(* it runs setup_sites and distribute_input_files (the Planner), then one *)
(* trial of the deterministic-partition strategy for every point (n, t)  *)
(* of the hyperparameter grid, each on a deep copy of the same plan.  A   *)
(* trial's name is built from wf, site_config, i, n and t only; the       *)
(* master table gets one row per trial: FAILURE when the result artifact *)
(* is absent, else SUCCESS with transfer_factor.                          *)
(*                                                                         *)
(* The environment is the one of Evaluation: the engine writes a result  *)
(* artifact or nothing, the process may be killed and the script run     *)
(* again, the result directory survives, and the table (mode 'w') is a   *)
(* buffered file flushed when its buffer fills or the with-block closes. *)
(* An artifact is its csv rows, read by ResultParser with the single     *)
(* metric TransferredData; transfer_factor divides it by input_size.     *)
(* As in Evaluation, every run rewrites the synthetic workflow files and *)
(* get_files_and_size reads the csv that getInputFilesHelper writes into *)
(* grid_search_inputs, without checking that the helper succeeded.       *)
(***************************************************************************)
EXTENDS Naturals, Sequences, FiniteSets, Functions, Allocation, ResultParser

CONSTANTS
  Wfs,                \* sequence of sets of [total, input, files]: for each
                      \* workflow, in order, the sizes its file may have
  HelperMayFail,      \* whether getInputFilesHelper may write no csv
  Topos,              \* sequence of SiteConfigs indices: site_configs
  NUM_DISTRIBUTIONS,  \* distributions per workflow and topology
  NS, TS,             \* the hyperparameter lists [0, 1, 10, 100], [0, 1, 10, 60]
  Artifacts,          \* result artifacts (csv rows) the engine may write
  MaxCrashes,         \* bound on process kills
  MaxSweeps,          \* bound on runs of the script
  NoPlan, Infeasible  \* model values of the Planner

ASSUME HelperMayFail \in BOOLEAN
ASSUME NUM_DISTRIBUTIONS \in Nat \ {0} /\ Len(NS) > 0 /\ Len(TS) > 0

VARIABLES
  pc,          \* where the main loop is
  w, sc, i,    \* workflow, site_config and distribution loop indices
  ni, ti,      \* indices of n in NS and of t in TS
  runCounter,  \* run_counter, incremented per trial
  totalSize, inputSize, fileMap,   \* get_files_and_size(wf)
  id2storage, free, k, additions, configFiles, ppc,  \* the Planner
  results,     \* result directory: trial name -> rows of its artifact
  wrote,       \* auxiliary: the engine wrote an artifact in this trial
  table,       \* rows of the master table that are on disk
  buffer,      \* rows written to the file object but not yet flushed
  crashes, sweeps,
  dax,         \* workflow file (its sizes) of every workflow, on disk
  inputs       \* grid_search_inputs: workflow -> sizes in its csv

plannerVars == <<id2storage, free, k, additions, configFiles, ppc>>
loopVars == <<w, sc, i, ni, ti, runCounter, totalSize, inputSize, fileMap>>
fsVars == <<results, wrote, table, buffer, crashes, sweeps,
                 dax, inputs>>
vars == <<pc, loopVars, plannerVars, fsVars>>

\* wfs: generate_synthetic_workflows() rewrites every synthetic workflow
\* file with newly drawn sizes; get_real_workflows() lists fixed files.
Generated == {f \in [1..Len(Wfs) -> UNION Range(Wfs)] :
                \A j \in 1..Len(Wfs) : f[j] \in Wfs[j]}

Sites == SiteConfigs[Topos[sc]].sites

P == INSTANCE Planner WITH
  sites <- Sites, total <- totalSize, files <- fileMap,
  TopologyIds <- DOMAIN Topos, Workloads <- {}

MaxRunCounter ==
  Len(Wfs) * Len(Topos) * NUM_DISTRIBUTIONS * Len(NS) * Len(TS)

(***************************************************************************)
(* The trials of one run in the order of the nested loops for wf, for    *)
(* site_config, for i, for n, for t: the j-th trial, counted from 0, has *)
(* the mixed-radix digits of j as its loop indices.                      *)
(***************************************************************************)
GridOrder ==
  [j \in 1..MaxRunCounter |->
     LET x == j - 1
         ti0 == x % Len(TS)
         ni0 == (x \div Len(TS)) % Len(NS)
         i0 == (x \div (Len(TS) * Len(NS))) % NUM_DISTRIBUTIONS
         sc0 == (x \div (Len(TS) * Len(NS) * NUM_DISTRIBUTIONS)) % Len(Topos)
         w0 == x \div (Len(TS) * Len(NS) * NUM_DISTRIBUTIONS * Len(Topos))
     IN  <<w0 + 1, sc0 + 1, i0, NS[ni0 + 1], TS[ti0 + 1]>>]

\* name = f"{wf}_{site_config}_distribution{i}_n{n}_t{t}"
TrialName == <<w, sc, i, NS[ni], TS[ti]>>

\* The metrics the read loop takes from this trial's artifact.
Read == ReadRows(results[TrialName], GridDefaults)

\* [wf, transfer_factor (0 on FAILURE), n, t, status, config, i]
TrialRow(status) ==
  [wf |-> w, n |-> NS[ni], t |-> TS[ti], status |-> status, config |-> sc,
   distribution |-> i, engineWrote |-> wrote]

\* final_result_writer.writerow: buffered; the buffer is written out when
\* it is full.
WriteRow(r) ==
  \/ /\ buffer' = Append(buffer, r)
     /\ UNCHANGED table
  \/ /\ table' = table \o Append(buffer, r)
     /\ buffer' = <<>>

\* Leaving the with-block, by an exception or at the end, closes the file.
CloseTable(final) ==
  /\ table' = table \o buffer
  /\ buffer' = <<>>
  /\ pc' = final

-----------------------------------------------------------------------------

\* makedirs(exist_ok=True), wfs = generate_synthetic_workflows() +
\* get_real_workflows(), open(final_result_file, 'w'), header row,
\* run_counter = 0, first workflow.
Start ==
  /\ pc = "start"
  /\ dax' \in Generated
  /\ table' = <<>>
  /\ buffer' = <<>>
  /\ runCounter' = 0
  /\ w' = 1
  /\ pc' = "load"
  /\ UNCHANGED <<sc, i, ni, ti, totalSize, inputSize, fileMap, plannerVars,
                 results, wrote, crashes, sweeps, inputs>>

\* The sizes get_files_and_size reads from a csv; the site_config loop
\* starts.
LoadSizes(v) ==
  /\ totalSize' = v.total
  /\ inputSize' = v.input
  /\ fileMap' = v.files
  /\ sc' = 1
  /\ pc' = "setup"

(***************************************************************************)
(* Mutant: the site_config loop is not restarted for the next workflow.  *)
(***************************************************************************)
LoadWorkflowNoReset ==
  /\ pc = "load"
  /\ inputs' = (w :> dax[w]) @@ inputs
  /\ totalSize' = dax[w].total
  /\ inputSize' = dax[w].input
  /\ fileMap' = dax[w].files
  /\ pc' = "setup"
  /\ UNCHANGED <<w, sc, i, ni, ti, runCounter, plannerVars, results, wrote,
                 table, buffer, crashes, sweeps, dax>>

\* total_size, input_size, file_map = get_files_and_size(wf): the helper
\* writes the csv of the workflow file, which is then read.
LoadWorkflow ==
  /\ pc = "load"
  /\ inputs' = (w :> dax[w]) @@ inputs
  /\ LoadSizes(dax[w])
  /\ UNCHANGED <<w, i, ni, ti, runCounter, plannerVars, results, wrote,
                 table, buffer, crashes, sweeps, dax>>

\* The helper's result is not checked: when it writes nothing, the csv an
\* earlier run left under the workflow's name is read.
LoadStaleInput ==
  /\ pc = "load"
  /\ HelperMayFail
  /\ w \in DOMAIN inputs
  /\ LoadSizes(inputs[w])
  /\ UNCHANGED <<w, i, ni, ti, runCounter, plannerVars, fsVars>>

\* The helper writes nothing and there is no earlier csv: open raises
\* FileNotFoundError, which leaves the with-block of the table.
MissingInput ==
  /\ pc = "load"
  /\ HelperMayFail
  /\ w \notin DOMAIN inputs
  /\ CloseTable("aborted")
  /\ UNCHANGED <<loopVars, plannerVars, results, wrote, crashes, sweeps,
                 dax, inputs>>

\* base_config = deepcopy(site_config); id2storage = setup_sites(...)
SetupTopology ==
  /\ pc = "setup"
  /\ id2storage' = SetupSites(Sites, totalSize)
  /\ i' = 0
  /\ pc' = "distribute"
  /\ UNCHANGED <<w, sc, ni, ti, runCounter, totalSize, inputSize, fileMap,
                 free, k, additions, configFiles, ppc, fsVars>>

\* distribution_config = deepcopy(base_config); distribute_input_files(...)
BeginDistribution ==
  /\ pc = "distribute"
  /\ UNCHANGED <<pc, loopVars, fsVars>>
  /\ ppc # "loop"
  /\ P!Call

PlaceFile ==
  /\ pc = "distribute"
  /\ UNCHANGED <<pc, loopVars, fsVars>>
  /\ P!PlaceFile

\* The IndexError of random.choice is not caught: the sweep ends.
DistributionFailed ==
  /\ pc = "distribute"
  /\ UNCHANGED <<loopVars, results, wrote, crashes, sweeps,
                 dax, inputs>>
  /\ P!NoFeasibleSite
  /\ CloseTable("aborted")

\* The plan is stored; the grid starts at its first point.
DistributionStored ==
  /\ pc = "distribute"
  /\ UNCHANGED <<w, sc, i, runCounter, totalSize, inputSize, fileMap, fsVars>>
  /\ P!StoreFiles
  /\ ni' = 1
  /\ ti' = 1
  /\ pc' = "engine"

\* run_counter += 1; run_config = deepcopy(distribution_config) with the
\* thresholds; json.dump; subprocess.run(engine): an artifact or nothing.
RunTrial ==
  /\ pc = "engine"
  /\ runCounter' = runCounter + 1
  /\ \/ \E a \in Artifacts :
           /\ results' = (TrialName :> a) @@ results
           /\ wrote' = TRUE
     \/ /\ UNCHANGED results
        /\ wrote' = FALSE
  /\ pc' = "record"
  /\ UNCHANGED <<w, sc, i, ni, ti, totalSize, inputSize, fileMap, plannerVars,
                 table, buffer, crashes, sweeps,
                 dax, inputs>>

\* not os.path.exists(result_path): "ERROR:" and stderr to the log, a
\* FAILURE row, continue.
RecordFailure ==
  /\ pc = "record"
  /\ TrialName \notin DOMAIN results
  /\ WriteRow(TrialRow("FAILURE"))
  /\ pc' = "advance"
  /\ UNCHANGED <<loopVars, plannerVars, results, wrote, crashes, sweeps,
                 dax, inputs>>

\* TransferredData is read; transfer_factor = transferred_size / input_size.
RecordSuccess ==
  /\ pc = "record"
  /\ TrialName \in DOMAIN results
  /\ Read # ParseError
  /\ inputSize # 0
  /\ WriteRow(TrialRow("SUCCESS"))
  /\ pc' = "advance"
  /\ UNCHANGED <<loopVars, plannerVars, results, wrote, crashes, sweeps,
                 dax, inputs>>

\* A zero input_size raises ZeroDivisionError, which leaves the with-block.
ZeroDivision ==
  /\ pc = "record"
  /\ TrialName \in DOMAIN results
  /\ Read # ParseError
  /\ inputSize = 0
  /\ CloseTable("aborted")
  /\ UNCHANGED <<loopVars, plannerVars, results, wrote, crashes, sweeps,
                 dax, inputs>>

\* measure, value = row or float(value) raises ValueError in the read
\* loop, which leaves the with-block.
MalformedArtifact ==
  /\ pc = "record"
  /\ TrialName \in DOMAIN results
  /\ Read = ParseError
  /\ CloseTable("aborted")
  /\ UNCHANGED <<loopVars, plannerVars, results, wrote, crashes, sweeps,
                 dax, inputs>>

(***************************************************************************)
(* Mutant: the inner loop runs one t past the end of TS.                  *)
(***************************************************************************)
NextTOffByOne ==
  /\ pc = "advance"
  /\ ti <= Len(TS)
  /\ ti' = ti + 1
  /\ pc' = "engine"
  /\ UNCHANGED <<w, sc, i, ni, runCounter, totalSize, inputSize, fileMap,
                 plannerVars, fsVars>>

\* for t in [0, 1, 10, 60]
NextT ==
  /\ pc = "advance"
  /\ ti < Len(TS)
  /\ ti' = ti + 1
  /\ pc' = "engine"
  /\ UNCHANGED <<w, sc, i, ni, runCounter, totalSize, inputSize, fileMap,
                 plannerVars, fsVars>>

(***************************************************************************)
(* Mutant: the t loop is not restarted for the next n.                    *)
(***************************************************************************)
NextNNoReset ==
  /\ pc = "advance"
  /\ ti = Len(TS)
  /\ ni < Len(NS)
  /\ ni' = ni + 1
  /\ pc' = "engine"
  /\ UNCHANGED <<w, sc, i, ti, runCounter, totalSize, inputSize, fileMap,
                 plannerVars, fsVars>>

\* for n in [0, 1, 10, 100]
NextN ==
  /\ pc = "advance"
  /\ ti = Len(TS)
  /\ ni < Len(NS)
  /\ ni' = ni + 1
  /\ ti' = 1
  /\ pc' = "engine"
  /\ UNCHANGED <<w, sc, i, runCounter, totalSize, inputSize, fileMap,
                 plannerVars, fsVars>>

\* The grid of this distribution is done.
GridDone == pc = "advance" /\ ti = Len(TS) /\ ni = Len(NS)

\* for i in range(NUM_DISTRIBUTIONS)
NextDistribution ==
  /\ GridDone
  /\ i < NUM_DISTRIBUTIONS - 1
  /\ i' = i + 1
  /\ pc' = "distribute"
  /\ UNCHANGED <<w, sc, ni, ti, runCounter, totalSize, inputSize, fileMap,
                 plannerVars, fsVars>>

\* for site_config in site_configs
NextTopology ==
  /\ GridDone
  /\ i = NUM_DISTRIBUTIONS - 1
  /\ sc < Len(Topos)
  /\ sc' = sc + 1
  /\ pc' = "setup"
  /\ UNCHANGED <<w, i, ni, ti, runCounter, totalSize, inputSize, fileMap,
                 plannerVars, fsVars>>

\* for wf in wfs
NextWorkflow ==
  /\ GridDone
  /\ i = NUM_DISTRIBUTIONS - 1
  /\ sc = Len(Topos)
  /\ w < Len(Wfs)
  /\ w' = w + 1
  /\ pc' = "load"
  /\ UNCHANGED <<sc, i, ni, ti, runCounter, totalSize, inputSize, fileMap,
                 plannerVars, fsVars>>

\* The loops end; leaving the with-block closes (flushes) the table.
Finish ==
  /\ GridDone
  /\ i = NUM_DISTRIBUTIONS - 1
  /\ sc = Len(Topos)
  /\ w = Len(Wfs)
  /\ CloseTable("done")
  /\ UNCHANGED <<loopVars, plannerVars, results, wrote, crashes, sweeps,
                 dax, inputs>>

\* The process is killed: the unflushed buffer dies with it.
Crash ==
  /\ pc \notin {"done", "aborted", "crashed"}
  /\ crashes < MaxCrashes
  /\ crashes' = crashes + 1
  /\ pc' = "crashed"
  /\ UNCHANGED <<loopVars, plannerVars, results, wrote, table, buffer, sweeps,
                 dax, inputs>>

\* The script is run again; the result directory is kept as it is.
Restart ==
  /\ pc \in {"done", "aborted", "crashed"}
  /\ sweeps < MaxSweeps
  /\ sweeps' = sweeps + 1
  /\ ppc' = "idle"
  /\ pc' = "start"
  /\ UNCHANGED <<loopVars, id2storage, free, k, additions, configFiles,
                 results, wrote, table, buffer, crashes, dax, inputs>>

Init ==
  /\ pc = "start"
  /\ w = 1 /\ sc = 1 /\ i = 0 /\ ni = 1 /\ ti = 1 /\ runCounter = 0
  /\ totalSize = 0 /\ inputSize = 0 /\ fileMap = <<>>
  /\ id2storage = <<>> /\ free = <<>> /\ k = 1 /\ additions = <<>>
  /\ configFiles = NoPlan /\ ppc = "idle"
  /\ results = <<>> /\ wrote = FALSE
  /\ table = <<>> /\ buffer = <<>>
  /\ crashes = 0 /\ sweeps = 1
  /\ dax = [j \in 1..Len(Wfs) |-> CHOOSE v \in Wfs[j] : TRUE]
  /\ inputs = <<>>

SweepStep ==
  \/ Start \/ LoadWorkflow \/ LoadStaleInput \/ MissingInput \/ SetupTopology
  \/ BeginDistribution \/ PlaceFile \/ DistributionFailed \/ DistributionStored
  \/ RunTrial \/ RecordFailure \/ RecordSuccess \/ ZeroDivision
  \/ MalformedArtifact
  \/ NextT \/ NextN \/ NextDistribution \/ NextTopology \/ NextWorkflow
  \/ Finish

Next == SweepStep \/ Crash \/ Restart

Spec == Init /\ [][Next]_vars

-----------------------------------------------------------------------------

Row == [wf : 1..Len(Wfs), n : Range(NS), t : Range(TS),
        status : {"SUCCESS", "FAILURE"}, config : 1..Len(Topos),
        distribution : 0..NUM_DISTRIBUTIONS - 1, engineWrote : BOOLEAN]

TypeOK ==
  /\ pc \in {"start", "load", "setup", "distribute", "engine", "record",
             "advance", "done", "aborted", "crashed"}
  /\ w \in 1..Len(Wfs) /\ sc \in 1..Len(Topos)
  /\ i \in 0..NUM_DISTRIBUTIONS - 1
  /\ ni \in 1..Len(NS) /\ ti \in 1..Len(TS)
  /\ runCounter \in 0..MaxRunCounter
  /\ \A n \in DOMAIN results : results[n] \in Artifacts
  /\ table \in Seq(Row) /\ buffer \in Seq(Row)
  /\ crashes \in 0..MaxCrashes /\ sweeps \in 1..MaxSweeps
  /\ dax \in Generated
  /\ \A j \in DOMAIN inputs : j \in 1..Len(Wfs) /\ inputs[j] \in Wfs[j]

(***************************************************************************)
(* Every row of the current run says SUCCESS exactly when the engine call *)
(* of that very trial wrote a result artifact, although the existence     *)
(* check of os.path.exists(result_path) looks at a directory that earlier *)
(* runs of the script left behind.                                        *)
(***************************************************************************)
StatusReflectsEngine ==
  \A r \in Range(table) \cup Range(buffer) :
     (r.status = "SUCCESS") = r.engineWrote


(***************************************************************************)
(* The master table as the file holds it: the rows flushed, and those     *)
(* still in the buffer unless the process was killed (at "start" of a     *)
(* re-run, only what the earlier run left on disk).                       *)
(***************************************************************************)
FileRows == IF pc \in {"start", "crashed"} THEN table ELSE table \o buffer

Table == INSTANCE SweepAbstract WITH
  Order <- GridOrder,
  rows <- [j \in 1..Len(FileRows) |->
             <<FileRows[j].wf, FileRows[j].config, FileRows[j].distribution,
               FileRows[j].n, FileRows[j].t>>],
  phase <- CASE pc = "start" -> "starting"
             [] pc = "done" -> "done"
             [] pc \in {"aborted", "crashed"} -> "stopped"
             [] OTHER -> "running"

(***************************************************************************)
(* gridSearch.py implements SweepAbstract: every run opens a fresh table  *)
(* and appends exactly one row per trial in the order of the five nested  *)
(* loops, none skipped, repeated or left over from an earlier run; a run  *)
(* that finishes has every trial's row, and one that is killed keeps a    *)
(* prefix of them.                                                        *)
(***************************************************************************)
TableRefinement == Table!Spec

=============================================================================
