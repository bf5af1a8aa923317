---------------------------- MODULE ExpressionTree ----------------------------
(***************************************************************************)
(* What a loaded document is, without buffers: the tree of expressions its *)
(* events spell.  An object or array is an expression over its members, a  *)
(* key an expression over its one value, a CSV file a Table expression of  *)
(* one expression per column.  A tree only grows, at the node that is      *)
(* open: nodes[1] holds the document, path leads from it to the open node. *)
(***************************************************************************)
EXTENDS Integers, SequencesExt

VARIABLES options, file, pos, csv, nodes, path

vars == <<options, file, pos, csv, nodes, path>>

Idle == [col |-> 0, row |-> 0]
Text(text) == [text |-> text, at |-> <<pos, csv.col, csv.row>>]
Node(n) == [text |-> "node", at |-> <<n>>]
Table == file[pos].table

\* The narrowest type that holds every cell of a column.
ColumnHas(cells) == \A r \in DOMAIN Table[csv.col] : Table[csv.col][r] \in cells
ColumnType ==
  IF ColumnHas({"empty", "int"}) THEN "Long"
  ELSE IF ColumnHas({"empty", "int", "real", "overflow"}) THEN "Double"
  ELSE "String"

Added(type, value) == [nodes EXCEPT ![Last(path)].kids = Append(@, [type |-> type, value |-> value])]

\* A node headed by a key has one member, and is closed with it.
Outside(n, tree) == IF tree[Last(n)].head.text = "key" THEN Front(n) ELSE n

Advance == pos' = pos + 1 /\ csv' = Idle
Step(col, row) == pos' = pos /\ csv' = [col |-> col, row |-> row]
Reading(events) == pos <= Len(file) /\ csv = Idle /\ file[pos].event \in events
ReadingTable == pos <= Len(file) /\ csv.col > 0

Init ==
  /\ pos = 1 /\ csv = Idle
  /\ nodes = <<[head |-> [text |-> "document", at |-> <<>>], kids |-> <<>>]>> /\ path = <<1>>

\* The document is drawn before it is read.
Draw == pos = 1 /\ csv = Idle /\ Len(nodes[1].kids) = 0 /\ UNCHANGED <<pos, csv, nodes, path>>

Open(head) ==
  /\ nodes' = Append(Added("Expression", Node(Len(nodes) + 1)), [head |-> head, kids |-> <<>>])
  /\ path' = Append(path, Len(nodes) + 1)

AddLeaf(type, value) == nodes' = Added(type, value)

ReadOpen ==
  /\ Reading({"object", "array", "key"}) /\ Advance
  /\ Open(Text(file[pos].event))

ReadClose ==
  /\ Reading({"end"}) /\ Advance
  /\ path' = Outside(Front(path), nodes) /\ UNCHANGED nodes

ReadLeaf ==
  /\ Reading({"null", "boolean", "integer", "float", "string", "longstring", "csv"})
  /\ file[pos].event = "csv" => options.disableCsvHandling
  /\ Advance
  /\ path' = Outside(path, nodes)
  /\ CASE file[pos].event \in {"null", "boolean"} -> AddLeaf("Symbol", Text(file[pos].event))
       [] file[pos].event = "integer"             -> AddLeaf("Long", Text("number"))
       [] file[pos].event = "float"               -> AddLeaf("Double", Text("number"))
       [] OTHER                                   -> AddLeaf("String", Text(file[pos].event))

OpenTable ==
  /\ Reading({"csv"}) /\ ~options.disableCsvHandling /\ Step(1, 0)
  /\ Open(Text("table"))

OpenColumn ==
  /\ ReadingTable /\ csv.row = 0 /\ csv.col <= Len(Table) /\ Step(csv.col, 1)
  /\ Open(Text("column"))

ReadCell ==
  /\ ReadingTable /\ csv.row > 0 /\ csv.row <= Len(Table[csv.col]) /\ Step(csv.col, csv.row + 1)
  /\ UNCHANGED path
  /\ \/ Table[csv.col][csv.row] = "empty" /\ ColumnType # "String" /\ AddLeaf("Symbol", Text("missing"))
     \/ Table[csv.col][csv.row] # "empty" /\ ColumnType # "String" /\ AddLeaf(ColumnType, Text("number"))
     \/ ColumnType = "String" /\ AddLeaf("String", Text("cell"))

CloseColumn ==
  /\ ReadingTable /\ csv.row > 0 /\ csv.row = Len(Table[csv.col]) + 1 /\ Step(csv.col + 1, 0)
  /\ path' = Front(path) /\ UNCHANGED nodes

CloseTable ==
  /\ ReadingTable /\ csv.row = 0 /\ csv.col = Len(Table) + 1 /\ Advance
  /\ path' = Outside(Front(path), nodes) /\ UNCHANGED nodes

Next ==
  /\ UNCHANGED options
  /\ \/ Draw
     \/ /\ UNCHANGED file
        /\ \/ ReadOpen \/ ReadClose \/ ReadLeaf
           \/ OpenTable \/ OpenColumn \/ ReadCell \/ CloseColumn \/ CloseTable

Spec == Init /\ [][Next]_vars
=============================================================================
