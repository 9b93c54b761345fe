\* Every artifact of at most four rows over the three metrics and one
\* unrecognized name, with values 0 and 1; read as an input csv, four rows
\* are two header rows and two file rows, so a file can be listed twice.
CONSTANTS
  Garbage = Garbage
  ParseError = ParseError
  IndexError = IndexError
  StopIteration = StopIteration
  Names = {"TransferredData", "TransferTime", "Makespan", "Other"}
  Values = {0, 1}
  MaxRows = 4
SPECIFICATION Spec
INVARIANTS ReadMatchesFormat InputsMatchFormat
\* An artifact is complete once it has MaxRows rows.
CHECK_DEADLOCK FALSE
