---------------------------- MODULE SweepAbstract ----------------------------
(***************************************************************************)
(* What the Trial Sweep Controller promises of its master result table    *)
(* (spec 5 and 8): a run of the script opens a fresh table and appends    *)
(* one row per trial, in the order in which the nested loops enumerate    *)
(* the trials, and the table of a finished run has a row for every trial. *)
(* A run may stop early (an exception or a kill); the table then holds a  *)
(* prefix of the rows the run appended, since a kill may lose the last    *)
(* ones.  A row is identified by its trial: its status and metrics are    *)
(* left to the other properties.                                          *)
(***************************************************************************)
EXTENDS Naturals, Sequences

CONSTANT Order   \* the trials of one run, in enumeration order

VARIABLES
  rows,    \* the trials of the rows in the table file
  phase    \* "starting", "running", "stopped" or "done"

vars == <<rows, phase>>

Init == rows = <<>> /\ phase = "starting"

\* The table is opened with mode 'w': it is emptied.
Open ==
  /\ phase = "starting"
  /\ rows' = <<>>
  /\ phase' = "running"

\* The row of the next trial is appended.
AppendNext ==
  /\ phase = "running"
  /\ Len(rows) < Len(Order)
  /\ rows' = Append(rows, Order[Len(rows) + 1])
  /\ UNCHANGED phase

\* Every trial has its row.
Complete ==
  /\ phase = "running"
  /\ Len(rows) = Len(Order)
  /\ phase' = "done"
  /\ UNCHANGED rows

\* The run stops early; the file keeps a prefix of its rows.
Stop ==
  /\ phase \in {"starting", "running"}
  /\ phase' = "stopped"
  /\ \E j \in 0..Len(rows) : rows' = SubSeq(rows, 1, j)

\* The script is run again; the file is untouched until it is opened.
Rerun ==
  /\ phase \in {"stopped", "done"}
  /\ phase' = "starting"
  /\ UNCHANGED rows

Next == Open \/ AppendNext \/ Complete \/ Stop \/ Rerun

Spec == Init /\ [][Next]_vars

=============================================================================
