----------------------------- MODULE MCGridSearch -----------------------------
(***************************************************************************)
(* Instances of the grid-search sweep.  The first workflow of GridWfs     *)
(* places both its files on site_conf_2_site whatever the random choices, *)
(* but its 5-unit file may find no site on site_conf_3_site_small once    *)
(* the 3-unit file took the large site; the second is a synthetic         *)
(* workflow that a run may write with no input files (input_size 0) or   *)
(* with one input file of size 1.  SafeGridWfs cannot fail on            *)
(* site_conf_2_site; a 2 x 2 grid has both hyperparameter loops turn     *)
(* over.                                                                  *)
(***************************************************************************)
EXTENDS GridSearch

GridWfs ==
  << {[total |-> 10, input |-> 8, files |-> <<3, 5>>]},
     {[total |-> 4, input |-> 0, files |-> << >>],
      [total |-> 4, input |-> 1, files |-> <<1>>]} >>

SafeGridWfs == << {[total |-> 9, input |-> 8, files |-> <<4, 4>>]} >>

TwoTopos == <<1, 2>>
OneTopo == <<1>>
TwoValues == <<0, 1>>
OneValue == <<0>>

\* Artifacts with a TransferredData row, and one whose value float()
\* rejects.
GridArtifacts == { << <<"TransferredData", 1>> >> }
RerunGridArtifacts ==
  GridArtifacts \cup { << <<"TransferredData", Garbage>> >> }

=============================================================================
