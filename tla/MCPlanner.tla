------------------------------ MODULE MCPlanner ------------------------------
(***************************************************************************)
(* One call of distribute_input_files on every topology of site_configs   *)
(* and on small workloads whose input files add up to at most the total   *)
(* size (the inputs are part of the workflow).  The workloads include a   *)
(* file too large for the small site's budget and sequences where an      *)
(* early random choice decides whether a later file still fits.           *)
(***************************************************************************)
EXTENDS Planner

MCTopologyIds == 1..4

MCWorkloads ==
  { [total |-> 10, files |-> <<4, 4, 2>>],
    [total |-> 10, files |-> <<4, 6>>],
    [total |-> 12, files |-> <<1, 5, 5>>],
    [total |-> 7,  files |-> <<3, 2, 2>>] }

ASSUME \A wl \in MCWorkloads :
  MapThenSumSet(LAMBDA i : wl.files[i], DOMAIN wl.files) <= wl.total

=============================================================================
