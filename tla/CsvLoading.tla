----------------------------- MODULE CsvLoading -----------------------------
(***************************************************************************)
(* Typing of CSV columns.  A cell is known by how std::stol and std::stod  *)
(* treat its text:                                                         *)
(*   "empty"     nothing between the separators                            *)
(*   "int"       an integer literal that fits an int64_t                   *)
(*   "overflow"  one that does not: stol throws std::out_of_range          *)
(*   "real"      a number that stol stops in the middle of                 *)
(*   "huge"      one that does not fit a double: stod throws out_of_range  *)
(*   "text"      not a number                                              *)
(*   "absent"    its row is too short: GetCell throws std::out_of_range    *)
(* A column is a sequence of cells, a table a sequence of columns that all *)
(* have the same number of rows.                                           *)
(***************************************************************************)
EXTENDS Integers, Sequences, FiniteSetsExt

Cell == {"empty", "int", "overflow", "real", "huge", "text", "absent"}
ColumnType == {"int64_t", "double_t", "string"}

RowCount(table) == IF table = <<>> THEN 0 ELSE Len(table[1])

\* What std::stol and std::stod make of a cell, empty ones left out.
AsLong ==
  [empty |-> "missing", int |-> "value", overflow |-> "out_of_range",
   real |-> "invalid_argument", huge |-> "invalid_argument", text |-> "invalid_argument"]
AsDouble ==
  [empty |-> "missing", int |-> "value", overflow |-> "value",
   real |-> "value", huge |-> "out_of_range", text |-> "invalid_argument"]

\* Mutant: the empty cells of a string column are missing too.
ConvertCellMissing(T, cell) ==
  IF cell = "absent" THEN "out_of_range"
  ELSE IF T = "int64_t" THEN AsLong[cell]
  ELSE IF T = "double_t" THEN AsDouble[cell]
  ELSE IF cell = "empty" THEN "missing" ELSE "value"

\* GetCell with the conversion lambda of loadCsvData<T>: a value, an empty
\* optional, std::invalid_argument or std::out_of_range.
ConvertCell(T, cell) ==
  IF cell = "absent" THEN "out_of_range"
  ELSE IF T = "int64_t" THEN AsLong[cell]
  ELSE IF T = "double_t" THEN AsDouble[cell]
  ELSE "value"

\* loadCsvData<T> stops at the first cell that throws.
Throws(T, cell) == ConvertCell(T, cell) \in {"invalid_argument", "out_of_range"}
FirstThrow(T, column) ==
  {r \in DOMAIN column :
     Throws(T, column[r]) /\ \A q \in 1 .. r - 1 : ~Throws(T, column[q])}

\* It catches invalid_argument and answers an empty vector; out_of_range goes
\* through.  An empty vector is also what a table without rows gives.
loadCsvData(T, column) ==
  IF \E r \in FirstThrow(T, column) : ConvertCell(T, column[r]) = "out_of_range"
  THEN "exception"
  ELSE IF FirstThrow(T, column) # {} \/ column = <<>> THEN "empty" ELSE "loaded"

\* handleCsvFile tries int64_t, then double_t, then std::string, and throws
\* when none of them loads.
TypeOfCsvColumn(column) ==
  LET tried(T) == loadCsvData(T, column)
  IN IF tried("int64_t") # "empty"
     THEN IF tried("int64_t") = "loaded" THEN "int64_t" ELSE "exception"
     ELSE IF tried("double_t") # "empty"
     THEN IF tried("double_t") = "loaded" THEN "double_t" ELSE "exception"
     ELSE IF tried("string") = "loaded" THEN "string" ELSE "exception"

(***************************************************************************)
(* The same typing into a json value, for the conversions and for CSV      *)
(* files of the command line.  A column is an array of the kinds of its    *)
(* cells; null stands for a column that does not load as T.                *)
(***************************************************************************)
JsonKind == [int64_t |-> "integer", double_t |-> "float", string |-> "string"]

\* Mutant: an empty cell is a value of its column like any other.
JsonCellEmpty(T, cell) ==
  IF cell = "absent" THEN "out_of_range"
  ELSE LET number == IF T = "int64_t" THEN AsLong[cell] ELSE AsDouble[cell]
       IN IF T = "string" \/ number \in {"value", "missing"} THEN JsonKind[T] ELSE number

\* GetCell with the conversion lambda of loadCsvDataToJson<T>.
JsonCell(T, cell) ==
  IF cell = "absent" THEN "out_of_range"
  ELSE LET number == IF T = "int64_t" THEN AsLong[cell] ELSE AsDouble[cell]
       IN IF T = "string" \/ number = "value" THEN JsonKind[T]
          ELSE IF number = "missing" THEN "null" ELSE number

loadCsvDataToJson(T, column) ==
  LET cells  == [r \in DOMAIN column |-> JsonCell(T, column[r])]
      throws == {r \in DOMAIN column : cells[r] \in {"invalid_argument", "out_of_range"}}
  IN IF throws = {} THEN [is |-> "array", cells |-> cells]
     ELSE IF cells[Min(throws)] = "invalid_argument" THEN [is |-> "null", cells |-> <<>>]
     ELSE [is |-> "exception", cells |-> <<>>]

\* int64_t, then double_t, then std::string: the first that is not null.
JsonColumn(column) ==
  LET tried == [k \in 1 .. 3 |-> loadCsvDataToJson(<<"int64_t", "double_t", "string">>[k], column)]
  IN tried[Min({3} \cup {k \in 1 .. 3 : tried[k].is # "null"})]
=============================================================================
