---------------------------- MODULE JsonConversion ----------------------------
(***************************************************************************)
(* load of BsonSerializer on the document that the loader has read:        *)
(* json::parse builds it in the memory of the process, with an object      *)
(* {"Table": {column: [cell, ...]}} in place of every name of a CSV file.  *)
(* Nothing comes between the events of a conversion, and what is not in a  *)
(* CSV file is copied by the JSON library: so here a conversion is what    *)
(* becomes of the tables.  Its text or BSON goes to shared memory in one   *)
(* piece (LoadAllocate and LoadCopy of WisentServer).                      *)
(***************************************************************************)
EXTENDS LoadedTree

TablesAt == {p \in DOMAIN file : IsCsv(file[p])}

\* The array a column becomes, or the exception that ends the conversion.
Converted(p, col) == JsonColumn(file[p].table[col])

\* The whole document is converted.
Loads == \A p \in TablesAt : \A col \in DOMAIN file[p].table : Converted(p, col).is = "array"

(***************************************************************************)
(* A dataset is the same in every format.  What loads into the Wisent      *)
(* format loads into JSON, with the same kinds of cells in every column,   *)
(* read through the run headers of the block; and a column that ends the   *)
(* load of one ends the load of the other, but for one without rows, which *)
(* is an empty array in JSON and an error in the Wisent format.            *)
(***************************************************************************)
Tag == [null |-> ARGUMENT_TYPE_SYMBOL, integer |-> ARGUMENT_TYPE_LONG,
        float |-> ARGUMENT_TYPE_DOUBLE, string |-> ARGUMENT_TYPE_STRING]

FormatsAgree ==
  /\ CleanRoot /\ stage = "done" => Loads
  /\ CleanRoot /\ stage = "failed" /\ csv.col > 0 => Converted(pos, csv.col).is = "exception" \/ Column = <<>>
  /\ \A e \in Finished :
       LET read  == ReadTypes(w.types, StartSlot(e), EndSlot(e))
           cells == Converted(HeadOf(e).at[1], HeadOf(e).at[2]).cells
       IN HeadOf(e).text = "column" =>
            [k \in 1 .. EndSlot(e) - StartSlot(e) |-> read[StartSlot(e) + k - 1]]
              = [k \in DOMAIN cells |-> Tag[cells[k]]]
=============================================================================
