------------------------- MODULE SyntheticWorkflows -------------------------
(***************************************************************************)
(* generate_synthetic_workflows of evaluation.py and the generators it    *)
(* calls, each of which writes a workflow as a DAX document: one <job>   *)
(* element per job with its <uses> of files (link input or output), then *)
(* <child>/<parent> elements for the control dependencies.  A run of a   *)
(* generator is one step per iteration of its loops.                     *)
(*                                                                         *)
(* Data is abstracted: a file name f"{prefix}{i:03d}" is <<prefix, i>>, a *)
(* job id f"ID{i:05d}" is i, and a size is the random draw it comes from, *)
(* <<list, index>> (an index outside its list is the IndexError of the    *)
(* list access).  Runtimes, namespaces and the XML text are left out.    *)
(* groups.py and redistribution.py are not part of the repository.       *)
(***************************************************************************)
EXTENDS Naturals, FiniteSets, Functions, Graphs

CONSTANTS
  SYNTHETIC_WFS,          \* workflows of each kind
  NUM_JOBS,               \* num_jobs of aggregation, distribution, longPipeline
  NUM_PIPELINES,          \* num_pipelines of multiPipeline
  NUM_JOBS_PER_PIPELINE   \* num_jobs_per_pipeline of multiPipeline

ASSUME SYNTHETIC_WFS \in Nat \ {0} /\ NUM_JOBS \in Nat \ {0}
ASSUME NUM_PIPELINES \in Nat \ {0} /\ NUM_JOBS_PER_PIPELINE \in Nat \ {0}

\* The generators in the order generate_synthetic_workflows calls them.
Generators == <<"aggregation", "distribution", "longPipeline", "multiPipeline">>

VARIABLES
  n,              \* for i in range(SYNTHETIC_WFS)
  g,              \* index into Generators of the generator running
  pc,             \* where the running generator is
  i,              \* its loop index (k in multiPipeline)
  jobs,           \* job id -> its <uses> elements, of the document open
  deps,           \* <<child, parent>> pairs written to the document
  dependencyStr   \* multiPipeline's dependency_str, written at the end

vars == <<n, g, pc, i, jobs, deps, dependencyStr>>

\* <uses file=... link=... size=...>
Uses(f, link, s) == [file |-> f, link |-> link, size |-> s]

\* A job's <uses> elements, input then output.
InOut(fin, sin, fout, sout) ==
  {Uses(fin, "input", sin), Uses(fout, "output", sout)}

TotalJobs == NUM_PIPELINES * NUM_JOBS_PER_PIPELINE

-----------------------------------------------------------------------------
(***************************************************************************)
(* Opening the next document                                             *)
(***************************************************************************)

\* wf['path'] = ...; <gen>.run(path): open(path, "w") truncates the file
\* and the <adag> header is written.
Open ==
  /\ pc = "open"
  /\ jobs' = <<>>
  /\ deps' = {}
  /\ dependencyStr' = {}
  /\ i' = 0
  /\ pc' = Generators[g]
  /\ UNCHANGED <<n, g>>

\* The next generator of this iteration, or the next iteration.
NextGenerator ==
  /\ pc = "closed"
  /\ \/ /\ g < Len(Generators)
        /\ g' = g + 1
        /\ UNCHANGED n
     \/ /\ g = Len(Generators)
        /\ n < SYNTHETIC_WFS - 1
        /\ n' = n + 1
        /\ g' = 1
  /\ pc' = "open"
  /\ UNCHANGED <<i, jobs, deps, dependencyStr>>

\* for i in range(SYNTHETIC_WFS) ends: the workflow list is returned.
Generated ==
  /\ pc = "closed"
  /\ g = Len(Generators)
  /\ n = SYNTHETIC_WFS - 1
  /\ pc' = "done"
  /\ UNCHANGED <<n, g, i, jobs, deps, dependencyStr>>

-----------------------------------------------------------------------------
(***************************************************************************)
(* aggregation.run: NUM_JOBS jobs taskA, file_input i -> file_output i,   *)
(* then the aggregator job NUM_JOBS reading every file_output and        *)
(* writing file{num_jobs}, child of every taskA job.                     *)
(***************************************************************************)

AggregationJob ==
  /\ pc = "aggregation"
  /\ i < NUM_JOBS
  /\ jobs' = jobs @@ (i :> InOut(<<"file_input", i>>, <<"random_sizes_input", i>>,
                                 <<"file_output", i>>, <<"random_sizes_output", i>>))
  /\ i' = i + 1
  /\ UNCHANGED <<n, g, pc, deps, dependencyStr>>

\* The head of the aggregator job.
AggregatorJob ==
  /\ pc = "aggregation"
  /\ i = NUM_JOBS
  /\ jobs' = jobs @@ (NUM_JOBS :> {})
  /\ i' = 0
  /\ pc' = "aggregator_inputs"
  /\ UNCHANGED <<n, g, deps, dependencyStr>>

AggregatorInput ==
  /\ pc = "aggregator_inputs"
  /\ i < NUM_JOBS
  /\ jobs' = [jobs EXCEPT ![NUM_JOBS] =
                @ \cup {Uses(<<"file_output", i>>, "input",
                             <<"random_sizes_output", i>>)}]
  /\ i' = i + 1
  /\ UNCHANGED <<n, g, pc, deps, dependencyStr>>

\* Its output, the end of the job, and <child ref=ID{num_jobs}>.
AggregatorOutput ==
  /\ pc = "aggregator_inputs"
  /\ i = NUM_JOBS
  /\ jobs' = [jobs EXCEPT ![NUM_JOBS] =
                @ \cup {Uses(<<"file", NUM_JOBS>>, "output", <<"b_output_size", 0>>)}]
  /\ i' = 0
  /\ pc' = "aggregator_parents"
  /\ UNCHANGED <<n, g, deps, dependencyStr>>

AggregatorParent ==
  /\ pc = "aggregator_parents"
  /\ i < NUM_JOBS
  /\ deps' = deps \cup {<<NUM_JOBS, i>>}
  /\ i' = i + 1
  /\ UNCHANGED <<n, g, pc, jobs, dependencyStr>>

\* </child>, </adag>; the with-block closes the file.
AggregationClose ==
  /\ pc = "aggregator_parents"
  /\ i = NUM_JOBS
  /\ pc' = "closed"
  /\ UNCHANGED <<n, g, i, jobs, deps, dependencyStr>>

-----------------------------------------------------------------------------
(***************************************************************************)
(* distribution.run: job 0 (taskA) reads input_file and writes file i for *)
(* every i; job i + 1 (taskB) reads file i and writes file_out i and is  *)
(* a child of job 0.                                                      *)
(***************************************************************************)

DistributionInit ==
  /\ pc = "distribution"
  /\ jobs' = (0 :> {Uses(<<"input_file", 0>>, "input", <<"size_A_in", 0>>)})
  /\ pc' = "distribution_outputs"
  /\ UNCHANGED <<n, g, i, deps, dependencyStr>>

DistributionOutput ==
  /\ pc = "distribution_outputs"
  /\ i < NUM_JOBS
  /\ jobs' = [jobs EXCEPT ![0] =
                @ \cup {Uses(<<"file", i>>, "output", <<"random_sizes_A_out", i>>)}]
  /\ i' = i + 1
  /\ UNCHANGED <<n, g, pc, deps, dependencyStr>>

\* The init job is closed; the taskB loop starts.
DistributionJobs ==
  /\ pc = "distribution_outputs"
  /\ i = NUM_JOBS
  /\ i' = 0
  /\ pc' = "distribution_jobs"
  /\ UNCHANGED <<n, g, jobs, deps, dependencyStr>>

(***************************************************************************)
(* Mutant: taskB declares its input with the size of its own output.     *)
(***************************************************************************)
DistributionJobSizeB ==
  /\ pc = "distribution_jobs"
  /\ i < NUM_JOBS
  /\ jobs' = jobs @@ (i + 1 :> InOut(<<"file", i>>, <<"random_sizes_B_out", i>>,
                                     <<"file_out", i>>, <<"random_sizes_B_out", i>>))
  /\ i' = i + 1
  /\ UNCHANGED <<n, g, pc, deps, dependencyStr>>

DistributionJob ==
  /\ pc = "distribution_jobs"
  /\ i < NUM_JOBS
  /\ jobs' = jobs @@ (i + 1 :> InOut(<<"file", i>>, <<"random_sizes_A_out", i>>,
                                     <<"file_out", i>>, <<"random_sizes_B_out", i>>))
  /\ i' = i + 1
  /\ UNCHANGED <<n, g, pc, deps, dependencyStr>>

\* for i in range(1, num_jobs + 1)
DistributionDeps ==
  /\ pc = "distribution_jobs"
  /\ i = NUM_JOBS
  /\ i' = 1
  /\ pc' = "distribution_deps"
  /\ UNCHANGED <<n, g, jobs, deps, dependencyStr>>

DistributionDep ==
  /\ pc = "distribution_deps"
  /\ i <= NUM_JOBS
  /\ deps' = deps \cup {<<i, 0>>}
  /\ i' = i + 1
  /\ UNCHANGED <<n, g, pc, jobs, dependencyStr>>

DistributionClose ==
  /\ pc = "distribution_deps"
  /\ i = NUM_JOBS + 1
  /\ pc' = "closed"
  /\ UNCHANGED <<n, g, i, jobs, deps, dependencyStr>>

-----------------------------------------------------------------------------
(***************************************************************************)
(* longPipeline.run: job i reads file i and writes file i + 1, and is a  *)
(* child of job i - 1.                                                    *)
(***************************************************************************)

(***************************************************************************)
(* Mutant: the output size is taken one position too far in random_sizes.*)
(***************************************************************************)
LongPipelineJobSizeShift ==
  /\ pc = "longPipeline"
  /\ i < NUM_JOBS
  /\ jobs' = jobs @@ (i :> InOut(<<"file", i>>, <<"random_sizes", i>>,
                                 <<"file", i + 1>>, <<"random_sizes", i + 2>>))
  /\ i' = i + 1
  /\ UNCHANGED <<n, g, pc, deps, dependencyStr>>

LongPipelineJob ==
  /\ pc = "longPipeline"
  /\ i < NUM_JOBS
  /\ jobs' = jobs @@ (i :> InOut(<<"file", i>>, <<"random_sizes", i>>,
                                 <<"file", i + 1>>, <<"random_sizes", i + 1>>))
  /\ i' = i + 1
  /\ UNCHANGED <<n, g, pc, deps, dependencyStr>>

\* for i in range(1, num_jobs)
LongPipelineDeps ==
  /\ pc = "longPipeline"
  /\ i = NUM_JOBS
  /\ i' = 1
  /\ pc' = "longPipeline_deps"
  /\ UNCHANGED <<n, g, jobs, deps, dependencyStr>>

LongPipelineDep ==
  /\ pc = "longPipeline_deps"
  /\ i < NUM_JOBS
  /\ deps' = deps \cup {<<i, i - 1>>}
  /\ i' = i + 1
  /\ UNCHANGED <<n, g, pc, jobs, dependencyStr>>

LongPipelineClose ==
  /\ pc = "longPipeline_deps"
  /\ i = NUM_JOBS
  /\ pc' = "closed"
  /\ UNCHANGED <<n, g, i, jobs, deps, dependencyStr>>

-----------------------------------------------------------------------------
(***************************************************************************)
(* multiPipeline.run: job k is at position k % J of pipeline k \div J;  *)
(* it reads file k, and writes file k + 1, or outputFileGroup of its     *)
(* pipeline when it is the last of it.  Every job but a pipeline's first *)
(* is a child of job k - 1; the dependencies are collected in            *)
(* dependency_str and written after all jobs.                            *)
(***************************************************************************)

Group == i \div NUM_JOBS_PER_PIPELINE
Position == i % NUM_JOBS_PER_PIPELINE

(***************************************************************************)
(* Mutant: the group-end branch adds no dependency to dependency_str.    *)
(***************************************************************************)
MultiPipelineGroupEndNoDep ==
  /\ pc = "multiPipeline"
  /\ i < TotalJobs
  /\ (i + 1) % NUM_JOBS_PER_PIPELINE = 0
  /\ jobs' = jobs @@ (i :> InOut(<<"file", i>>, <<"random_sizes", <<Group, Position>>>>,
                                 <<"outputFileGroup", Group>>,
                                 <<"random_sizes", <<Group, Position + 1>>>>))
  /\ i' = i + 1
  /\ UNCHANGED <<n, g, pc, deps, dependencyStr>>

\* if (k+1) % num_jobs_per_pipeline == 0: the group end.
MultiPipelineGroupEnd ==
  /\ pc = "multiPipeline"
  /\ i < TotalJobs
  /\ (i + 1) % NUM_JOBS_PER_PIPELINE = 0
  /\ jobs' = jobs @@ (i :> InOut(<<"file", i>>, <<"random_sizes", <<Group, Position>>>>,
                                 <<"outputFileGroup", Group>>,
                                 <<"random_sizes", <<Group, Position + 1>>>>))
  /\ dependencyStr' = dependencyStr \cup {<<i, i - 1>>}
  /\ i' = i + 1
  /\ UNCHANGED <<n, g, pc, deps>>

\* else: the output is the next job's input; a start job gets no parent.
MultiPipelineJob ==
  /\ pc = "multiPipeline"
  /\ i < TotalJobs
  /\ (i + 1) % NUM_JOBS_PER_PIPELINE # 0
  /\ jobs' = jobs @@ (i :> InOut(<<"file", i>>, <<"random_sizes", <<Group, Position>>>>,
                                 <<"file", i + 1>>,
                                 <<"random_sizes", <<Group, Position + 1>>>>))
  /\ \/ Position = 0 /\ UNCHANGED dependencyStr
     \/ Position # 0 /\ dependencyStr' = dependencyStr \cup {<<i, i - 1>>}
  /\ i' = i + 1
  /\ UNCHANGED <<n, g, pc, deps>>

\* file.write(dependency_str); </adag>
MultiPipelineClose ==
  /\ pc = "multiPipeline"
  /\ i = TotalJobs
  /\ deps' = deps \cup dependencyStr
  /\ pc' = "closed"
  /\ UNCHANGED <<n, g, i, jobs, dependencyStr>>

-----------------------------------------------------------------------------

Init ==
  /\ n = 0 /\ g = 1 /\ pc = "open" /\ i = 0
  /\ jobs = <<>> /\ deps = {} /\ dependencyStr = {}

Next ==
  \/ Open \/ NextGenerator \/ Generated
  \/ AggregationJob \/ AggregatorJob \/ AggregatorInput \/ AggregatorOutput
  \/ AggregatorParent \/ AggregationClose
  \/ DistributionInit \/ DistributionOutput \/ DistributionJobs
  \/ DistributionJob \/ DistributionDeps \/ DistributionDep \/ DistributionClose
  \/ LongPipelineJob \/ LongPipelineDeps \/ LongPipelineDep \/ LongPipelineClose
  \/ MultiPipelineGroupEnd \/ MultiPipelineJob \/ MultiPipelineClose

Spec == Init /\ [][Next]_vars

-----------------------------------------------------------------------------
(***************************************************************************)
(* Properties of every document when its generator has closed it         *)
(***************************************************************************)

(***************************************************************************)
(* The random lists each generator draws its sizes from, one element per *)
(* index of the range that builds the list.  The bounds of the uniform   *)
(* and Gaussian draws and the rounding to two decimals are left out.     *)
(***************************************************************************)

\* random_sizes_input and random_sizes_output of num_jobs draws each, and
\* the single b_output_size.
AggregationDraws ==
  {<<"random_sizes_input", x>> : x \in 0..NUM_JOBS - 1}
  \cup {<<"random_sizes_output", x>> : x \in 0..NUM_JOBS - 1}
  \cup {<<"b_output_size", 0>>}

\* size_A_in, and random_sizes_A_out and random_sizes_B_out of num_jobs
\* draws each.
DistributionDraws ==
  {<<"size_A_in", 0>>}
  \cup {<<"random_sizes_A_out", x>> : x \in 0..NUM_JOBS - 1}
  \cup {<<"random_sizes_B_out", x>> : x \in 0..NUM_JOBS - 1}

\* random_sizes: num_jobs + 1 draws.
LongPipelineDraws == {<<"random_sizes", x>> : x \in 0..NUM_JOBS}

\* random_sizes: num_pipelines rows of num_jobs_per_pipeline + 1 draws.
MultiPipelineDraws ==
  {<<"random_sizes", <<p, x>>>> :
     p \in 0..NUM_PIPELINES - 1, x \in 0..NUM_JOBS_PER_PIPELINE}

Draws ==
  [aggregation |-> AggregationDraws, distribution |-> DistributionDraws,
   longPipeline |-> LongPipelineDraws, multiPipeline |-> MultiPipelineDraws]

(***************************************************************************)
(* Every size a document declares is an element of the list it is taken  *)
(* from: no list index of a generator's loops is out of range (an        *)
(* IndexError in the code).                                               *)
(***************************************************************************)
TypeOK ==
  /\ n \in 0..SYNTHETIC_WFS - 1 /\ g \in 1..Len(Generators)
  /\ pc # "open" =>
        \A j \in DOMAIN jobs :
           \A u \in jobs[j] :
              /\ u.link \in {"input", "output"}
              /\ u.size \in Draws[Generators[g]]

\* <<child, parent>>: the consumer of a file depends on its producer.
DataEdges ==
  {e \in (DOMAIN jobs) \X (DOMAIN jobs) :
     \E u \in jobs[e[1]], v \in jobs[e[2]] :
        u.link = "input" /\ v.link = "output" /\ u.file = v.file}

\* The document as a graph with an edge from each parent to its child.
Dag == [node |-> DOMAIN jobs, edge |-> {<<e[2], e[1]>> : e \in deps}]

(***************************************************************************)
(* The <child>/<parent> elements of a closed document are exactly the    *)
(* data dependencies of its <uses> elements (a job depends on the jobs   *)
(* producing its inputs, and on no other), and they form a DAG: the      *)
(* dependency loops, written separately from the job loops and with      *)
(* their own index ranges, agree with the files the jobs exchange.       *)
(***************************************************************************)
DependenciesMatchDataFlow ==
  pc = "closed" => deps = DataEdges /\ IsDag(Dag)

(***************************************************************************)
(* In a closed document every file is written by at most one job, and    *)
(* all <uses> of a file declare the same size: the producer and the      *)
(* consumers index the same random list at the same position.            *)
(***************************************************************************)
FilesConsistent ==
  pc = "closed" =>
     \A j1, j2 \in DOMAIN jobs :
        \A u \in jobs[j1], v \in jobs[j2] :
           u.file = v.file =>
              /\ u.size = v.size
              /\ (u.link = "output" /\ v.link = "output" => j1 = j2)

====
