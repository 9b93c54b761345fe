--------------------------- MODULE ResultArtifact ---------------------------
(***************************************************************************)
(* The external engine writing a trial's result artifact one csv row at  *)
(* a time, and the scripts' read loop (ResultParser) applied to every     *)
(* artifact it can have written.  Row names are the three metrics and one *)
(* name neither script recognizes; a row may be empty, a (name, value)    *)
(* pair, or have one or three fields.  The same rows also stand for the  *)
(* input csv of a workflow, file names and sizes in place of metrics.     *)
(***************************************************************************)
EXTENDS ResultParser

CONSTANTS
  Names,     \* metric names the engine may write
  Values,    \* numeric values it may write
  MaxRows    \* bound on the length of an artifact

VARIABLE rows   \* the rows of the artifact written so far

RowKinds ==
  {<<>>}
  \cup {<<m, v>> : m \in Names, v \in Values \cup {Garbage}}
  \cup {<<m>> : m \in Names}
  \cup {<<m, v, v>> : m \in Names, v \in Values}

Init == rows = <<>>

\* The engine appends one row to the artifact.
WriteRow ==
  /\ Len(rows) < MaxRows
  /\ \E r \in RowKinds : rows' = Append(rows, r)

Spec == Init /\ [][WriteRow]_rows

(***************************************************************************)
(* Whatever the engine wrote, the read loop of evaluation.py and of       *)
(* gridSearch.py computes exactly the reading of spec 6: ValueError for a *)
(* row that is not a pair or a recognized value that is not a number, and *)
(* otherwise the last value reported for each metric, or its default.     *)
(***************************************************************************)
ReadMatchesFormat ==
  \A defaults \in {EvalDefaults, GridDefaults} :
     ReadRows(rows, defaults) = ReferenceRead(rows, defaults)

(***************************************************************************)
(* The same rows read as the input csv the helper writes: the two         *)
(* next(reader) calls and the loop of get_files_and_size return exactly   *)
(* the sizes of the csv format of spec 4, a file listed twice keeping its *)
(* last size, or raise the exception of the first defective row.          *)
(***************************************************************************)
InputsMatchFormat == ReadInputs(rows) = ReferenceInputs(rows)

=============================================================================
