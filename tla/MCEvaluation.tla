---------------------------- MODULE MCEvaluation ----------------------------
(***************************************************************************)
(* Instances of the evaluation sweep.  Workflow sizes are small integers  *)
(* with the input files adding up to at most the total size.  SafeWfs    *)
(* has no file larger than total / (2 * (n - 1)) on the topology it is   *)
(* run on, so distribute_input_files cannot fail (FailureOnlyForLargeFile *)
(* of Planner); BigFileWfs has an input file the 2-site topology may not  *)
(* place; MixedWfs has one workflow of each kind, on two topologies, so a *)
(* re-run after an aborted sweep walks every loop of the script;         *)
(* RegeneratedWfs is a synthetic workflow whose file is regenerated with *)
(* other sizes by the next run.                                           *)
(***************************************************************************)
EXTENDS Evaluation

SafeWfs == << {[total |-> 9, input |-> 8, files |-> <<4, 4>>]} >>

MixedWfs ==
  << {[total |-> 10, input |-> 8, files |-> <<3, 5>>]},
     {[total |-> 4, input |-> 1, files |-> <<1>>]} >>

BigFileWfs == << {[total |-> 10, input |-> 10, files |-> <<4, 6>>]} >>

\* A synthetic workflow its generator may write with either of two sizes.
RegeneratedWfs ==
  << {[total |-> 9, input |-> 8, files |-> <<4, 4>>],
      [total |-> 4, input |-> 1, files |-> <<1>>]} >>

\* A complete artifact of the engine, with the given Makespan.
Report(ms) ==
  << <<"TransferredData", 1>>, <<"TransferTime", 1>>, <<"Makespan", ms>> >>

OkArtifacts == {Report(1)}
ZeroArtifacts == {Report(0), Report(1)}
\* An artifact without its Makespan row.
NoMakespanArtifacts == {Report(1), SubSeq(Report(1), 1, 2)}
\* An artifact with a Makespan row of three fields.
MalformedArtifacts == {Report(1), << <<"Makespan", 1, 1>> >>}
RerunArtifacts == ZeroArtifacts \cup MalformedArtifacts
FaultArtifacts == RerunArtifacts \cup NoMakespanArtifacts

\* site_conf_2_site and site_conf_3_site_small
TwoTopos == <<1, 2>>
OneTopo == <<1>>

=============================================================================
