---------------------------- MODULE ResultParser ----------------------------
(***************************************************************************)
(* The loop that reads a trial's result artifact, in evaluation.py        *)
(* (random_trial and __main__) and in gridSearch.py:                      *)
(*                                                                         *)
(*   with open(result_path) as file:                                       *)
(*       for row in csv.reader(file):                                      *)
(*           if not row: continue                                          *)
(*           measure, value = row                                          *)
(*           if measure == "TransferredData": transferred_size = float(v)  *)
(*           ...                                                           *)
(*                                                                         *)
(* A csv row is the sequence of its fields.  A value field is an integer *)
(* or the model value Garbage, a text float() rejects.  The metrics a    *)
(* script recognizes are the domain of its record of defaults, which     *)
(* also gives the value a metric keeps when no row reports it.  Both a   *)
(* row of other than two fields (the unpacking) and float(Garbage) raise *)
(* ValueError, which the model writes ParseError.                        *)
(***************************************************************************)
EXTENDS Integers, Sequences, SequencesExt

CONSTANTS
  Garbage,     \* model value: a field float() cannot convert
  ParseError,  \* model value: the ValueError of the loop
  IndexError,  \* model value: next(reader)[1] of a row with fewer than two fields
  StopIteration \* model value: next(reader) past the last row

\* Mutant: one measure name of the elif chain misspelled, so that metric
\* is never matched.
EvalDefaultsMisspelled ==
  [TransferredData |-> -1, TransferredTime |-> -1, Makespan |-> -1]

\* transferred_size = transferred_time = makespan = -1 (evaluation.py)
EvalDefaults ==
  [TransferredData |-> -1, TransferTime |-> -1, Makespan |-> -1]

\* transferred_size = 0, the only metric gridSearch.py reads
GridDefaults == [TransferredData |-> 0]

(***************************************************************************)
(* Mutant: the empty-row test (if not row: continue) is missing, so an   *)
(* empty row reaches the unpacking.                                       *)
(***************************************************************************)
RECURSIVE ReadRowsNoSkip(_, _)
ReadRowsNoSkip(rows, metrics) ==
  IF rows = <<>> THEN metrics
  ELSE LET row == Head(rows) IN
       IF Len(row) # 2 THEN ParseError
       ELSE IF row[1] \notin DOMAIN metrics THEN ReadRowsNoSkip(Tail(rows), metrics)
       ELSE IF row[2] = Garbage THEN ParseError
       ELSE ReadRowsNoSkip(Tail(rows), [metrics EXCEPT ![row[1]] = row[2]])

\* The for loop over the rows, from the defaults to the metrics read.
RECURSIVE ReadRows(_, _)
ReadRows(rows, metrics) ==
  IF rows = <<>> THEN metrics
  ELSE LET row == Head(rows) IN
       IF row = <<>> THEN ReadRows(Tail(rows), metrics)
       ELSE IF Len(row) # 2 THEN ParseError
       ELSE IF row[1] \notin DOMAIN metrics THEN ReadRows(Tail(rows), metrics)
       ELSE IF row[2] = Garbage THEN ParseError
       ELSE ReadRows(Tail(rows), [metrics EXCEPT ![row[1]] = row[2]])

-----------------------------------------------------------------------------
(***************************************************************************)
(* The read of a workflow's input csv in get_files_and_size (evaluation.py *)
(* and gridSearch.py, the same code):                                      *)
(*                                                                         *)
(*   total_file_size = int(next(reader)[1])                                *)
(*   input_size = int(next(reader)[1])                                     *)
(*   for row in reader:                                                    *)
(*       if not row: continue                                              *)
(*       name, size = row                                                  *)
(*       file2size[name] = int(size)                                       *)
(*                                                                         *)
(* int() rejects Garbage with ValueError (ParseError); none of these      *)
(* exceptions is caught, so each ends the script.  The dict is a function *)
(* from file names to sizes; an assignment to a name already present      *)
(* overwrites its size.                                                    *)
(***************************************************************************)

\* Mutant: file2size.setdefault(name, size), the first size of a name kept.
RECURSIVE ReadFilesFirstWins(_, _)
ReadFilesFirstWins(rows, file2size) ==
  IF rows = <<>> THEN file2size
  ELSE LET row == Head(rows) IN
       IF row = <<>> THEN ReadFilesFirstWins(Tail(rows), file2size)
       ELSE IF Len(row) # 2 \/ row[2] = Garbage THEN ParseError
       ELSE ReadFilesFirstWins(Tail(rows), file2size @@ (row[1] :> row[2]))

\* The for loop over the rows after the two header rows.
RECURSIVE ReadFiles(_, _)
ReadFiles(rows, file2size) ==
  IF rows = <<>> THEN file2size
  ELSE LET row == Head(rows) IN
       IF row = <<>> THEN ReadFiles(Tail(rows), file2size)
       ELSE IF Len(row) # 2 \/ row[2] = Garbage THEN ParseError
       ELSE ReadFiles(Tail(rows), (row[1] :> row[2]) @@ file2size)

\* int(next(reader)[1]) on the rows left: the size, or the exception.
HeaderSize(rows) ==
  CASE rows = <<>>        -> StopIteration
    [] Len(Head(rows)) < 2 -> IndexError
    [] Head(rows)[2] = Garbage -> ParseError
    [] OTHER              -> Head(rows)[2]

InputErrors == {StopIteration, IndexError, ParseError}

\* get_files_and_size after the helper ran: the three values it returns,
\* or the exception that ends the script.
ReadInputs(rows) ==
  LET total == HeaderSize(rows)
      input == HeaderSize(Tail(rows))
      files == ReadFiles(Tail(Tail(rows)), <<>>)
  IN  CASE total \in InputErrors -> total
        [] input \in InputErrors -> input
        [] files = ParseError    -> ParseError
        [] OTHER -> [total |-> total, input |-> input, files |-> files]

-----------------------------------------------------------------------------
(***************************************************************************)
(* The reading of the artifact format of spec 6, stated without the loop: *)
(* the artifact is rejected if a non-empty row is not a (name, value)     *)
(* pair or a recognized metric's value is not a number; otherwise each    *)
(* recognized metric has the value of the last row that names it, or its  *)
(* default when none does.                                                *)
(***************************************************************************)
Pair(r) == r # <<>> /\ Len(r) = 2

Rejects(rows, defaults) ==
  \E j \in DOMAIN rows :
     /\ rows[j] # <<>>
     /\ \/ ~Pair(rows[j])
        \/ rows[j][1] \in DOMAIN defaults /\ rows[j][2] = Garbage

ReferenceRead(rows, defaults) ==
  IF Rejects(rows, defaults) THEN ParseError
  ELSE [m \in DOMAIN defaults |->
          LET j == SelectLastInSeq(rows, LAMBDA r : Pair(r) /\ r[1] = m)
          IN  IF j = 0 THEN defaults[m] ELSE rows[j][2]]

(***************************************************************************)
(* The input csv format of spec 4 stated without the loop: a row with the *)
(* workflow's total size, a row with its input size, then one (file,      *)
(* size) row per input file, empty lines allowed; a file named twice has  *)
(* the size of its last row.  The first defect met reading from the top   *)
(* decides the exception.                                                 *)
(***************************************************************************)
ReferenceInputs(rows) ==
  LET body  == [j \in 1..(Len(rows) - 2) |-> rows[j + 2]]
      names == {body[j][1] : j \in {k \in DOMAIN body : Pair(body[k])}}
  IN  CASE Len(rows) = 0 -> StopIteration
        [] Len(rows[1]) < 2 -> IndexError
        [] rows[1][2] = Garbage -> ParseError
        [] Len(rows) = 1 -> StopIteration
        [] Len(rows[2]) < 2 -> IndexError
        [] rows[2][2] = Garbage -> ParseError
        [] \E j \in DOMAIN body :
              body[j] # <<>> /\ (~Pair(body[j]) \/ body[j][2] = Garbage)
              -> ParseError
        [] OTHER ->
             [total |-> rows[1][2], input |-> rows[2][2],
              files |-> [n \in names |->
                           body[SelectLastInSeq(body,
                                  LAMBDA r : Pair(r) /\ r[1] = n)][2]]]

=============================================================================
