----------------------------- MODULE JsonToWisent -----------------------------
(***************************************************************************)
(* wisent::serializer::load on one JSON file, from the first traversal to  *)
(* the returned root.  The first traversal (the callback of json::parse)   *)
(* only counts; JsonToWisent's constructor allocates one block from the    *)
(* counts; the second traversal (the SAX handlers of JsonToWisent) fills   *)
(* the block and trusts the counts: it has no bounds check.                *)
(*                                                                         *)
(* A document is a sequence of parser events.  The first traversal draws   *)
(* the document while it counts it, so every document within the bounds is *)
(* loaded; the second reads the same sequence again.                       *)
(***************************************************************************)
EXTENDS WisentHelpers, CsvLoading, FiniteSets, SequencesExt

CONSTANTS
  Leaves,              \* events without nesting that a document may hold
  Tables,              \* contents of the CSV files a document may name
  Options,             \* values of disableRLE, disableCsvHandling and forceReload
  Leftovers,           \* what an object that is loaded again by force may hold
  MaxTokens,           \* bound: events of a document
  MaxDepth             \* bound: open objects and arrays

ASSUME LoadAssumption ==
  /\ Leaves \subseteq {"null", "boolean", "integer", "float", "string", "longstring", "csv"}
  /\ Tables \subseteq Seq(Seq(Cell))
  /\ \A t \in Tables : \A i, j \in DOMAIN t : Len(t[i]) = Len(t[j])
  /\ Options \subseteq [disableRLE : BOOLEAN, disableCsvHandling : BOOLEAN, forceReload : BOOLEAN]
  /\ Leftovers \subseteq [type : Nat, arg : Seq(Nat), expr : [head : Nat, start : Nat, end : Nat]]
  /\ MaxTokens \in Nat /\ MaxDepth \in Nat

VARIABLES
  options,  \* the parameters of this call of load
  leftover, \* what the bytes of the shared memory hold where the block will be
  stage,    \* "count", "write", "done", or "failed" by an exception
  file,     \* the events of the document
  parser,   \* json::parse: the open containers, and whether a key waits
  c,        \* the counters captured by the callback
  seen,     \* history: [parser, c] before each event
  pos,      \* the event sax_parse is at
  csv,      \* the loop of handleCsvFile, [col |-> 0, row |-> 0] outside
  w         \* JsonToWisent and the buffers it fills

vars == <<options, leftover, stage, file, parser, c, seen, pos, csv, w>>

Token == [event : Leaves \cup {"object", "array", "key", "end"}, table : Tables \cup {<<>>}]

\* Mutant: the option is not looked at.
IsCsvAlways(token) == token.event = "csv"

\* The filename tests of the two traversals are the same: extension ".csv".
IsCsv(token) == ~options.disableCsvHandling /\ token.event = "csv"

(***************************************************************************)
(* First traversal.  layer and keyValue are the captured layerIndex and    *)
(* wasKeyValue, the latter as the set of depths whose bit is set; depth is *)
(* what nlohmann passes, the containers open around the event.             *)
(***************************************************************************)
InitCounters ==
  [expressionCount |-> 0, perLayer |-> [l \in {} |-> 0], layer |-> 0, keyValue |-> {}]

\* std::vector::resize, which every callback calls before it counts.
Resize(perLayer, n) ==
  [l \in DOMAIN perLayer \cup 0 .. n - 1 |-> IF l \in DOMAIN perLayer THEN perLayer[l] ELSE 0]

Resized(k) == [k EXCEPT !.perLayer = Resize(@, k.layer + 1)]

\* Mutant: the expression that a key becomes is not counted.
CountKeyUncounted(k, depth) ==
  [Resized(k) EXCEPT !.perLayer[k.layer] = @ + 1,
                     !.keyValue = @ \cup {depth}, !.layer = @ + 1]

CountKey(k, depth) ==
  [Resized(k) EXCEPT !.perLayer[k.layer] = @ + 1, !.expressionCount = @ + 1,
                     !.keyValue = @ \cup {depth}, !.layer = @ + 1]

CountStart(k) ==
  [Resized(k) EXCEPT !.perLayer[k.layer] = @ + 1, !.expressionCount = @ + 1, !.layer = @ + 1]

LeaveKey(k, depth) ==
  IF depth \in k.keyValue
  THEN [k EXCEPT !.keyValue = @ \ {depth}, !.layer = @ - 1]
  ELSE k

\* Mutant: the end of a container counts as an argument.
CountEndCounts(k, depth) ==
  LeaveKey([Resized(k) EXCEPT !.layer = @ - 1, !.perLayer[k.layer] = @ + 1], depth)

CountEnd(k, depth) == LeaveKey([Resized(k) EXCEPT !.layer = @ - 1], depth)

AddTable(k, expressions, columns, cells) ==
  [k EXCEPT !.expressionCount = @ + expressions,
            !.perLayer = [l \in DOMAIN Resize(@, k.layer + 3) |->
                            Resize(@, k.layer + 3)[l]
                            + (IF l = k.layer + 1 THEN columns ELSE 0)
                            + (IF l = k.layer + 2 THEN cells ELSE 0)]]

\* Mutants: columns are no expressions; the row of names counts as data.
CountTableOnly(k, table) == AddTable(k, 1, Len(table), Len(table) * RowCount(table))
CountTableNames(k, table) == AddTable(k, 1 + Len(table), Len(table), Len(table) * (RowCount(table) + 1))

\* A table is one expression, its columns a layer below it, its cells two.
CountTable(k, table) == AddTable(k, 1 + Len(table), Len(table), Len(table) * RowCount(table))

\* Mutant: the first traversal always looks into CSV files.
CountValueAlways(k, depth, token) ==
  LET counted == [Resized(k) EXCEPT !.perLayer[k.layer] = @ + 1]
  IN LeaveKey(IF token.event = "csv" THEN CountTable(counted, token.table) ELSE counted, depth)

CountValue(k, depth, token) ==
  LET counted == [Resized(k) EXCEPT !.perLayer[k.layer] = @ + 1]
  IN LeaveKey(IF IsCsv(token) THEN CountTable(counted, token.table) ELSE counted, depth)

(***************************************************************************)
(* The block: Argument and Type Vector, Structure Vector, String Buffer.   *)
(* A string takes one place in the buffer whatever its length, and is      *)
(* known by its text and by where the document holds it, <<event, column,  *)
(* row>>; so is a number.                                                  *)
(*                                                                         *)
(* malloc sets the size of the object and neither it nor                   *)
(* allocateExpressionTree clears the vectors.  A new object is zero.  One  *)
(* that exists and is not mapped, after a crash for instance, is written   *)
(* again only if the load is forced, and then still has its old bytes,     *)
(* which follow no layout of the new block: one value for each vector      *)
(* stands for them.                                                        *)
(***************************************************************************)
Zeros == [type |-> 0, arg |-> <<0>>, expr |-> [head |-> 0, start |-> 0, end |-> 0]]

Filled(n, value) == [i \in 0 .. n - 1 |-> value]

\* std::partial_sum, in place: the arguments of the layers up to l.
PartialSum(perLayer) ==
  [l \in DOMAIN perLayer |->
     Cardinality(UNION {{k} \X (0 .. perLayer[k] - 1) : k \in 0 .. l})]

\* Constructor.  cumul is cumulArgCountPerLayer, keyValue the set of layers
\* whose wasKeyValue bit is set; wild records a store outside the block.
NewWriter(k, found) ==
  LET cumul == PartialSum(k.perLayer)
      size  == cumul[Cardinality(DOMAIN cumul) - 1]
  IN [types |-> Filled(size, found.type), args |-> Filled(size, found.arg),
      exprs |-> Filled(k.expressionCount, found.expr),
      strings |-> <<>>, cumul |-> cumul, keyValue |-> {}, argIter |-> <<0>>,
      exprStack |-> <<0>>, nextExpr |-> 0, layer |-> 0, run |-> 0, wild |-> FALSE]

NoBlock ==
  [types |-> Filled(0, 0), args |-> Filled(0, 0), exprs |-> Filled(0, 0), strings |-> <<>>,
   cumul |-> Filled(0, 0), keyValue |-> {}, argIter |-> <<0>>, exprStack |-> <<0>>,
   nextExpr |-> 0, layer |-> 0, run |-> 0, wild |-> FALSE]

Text(text, at) == [text |-> text, at |-> at]

storeString(v, text) == [v EXCEPT !.strings = Append(@, text)]

\* Index 0 stands for the root on expressionIndexStack: for the document's own
\* argument the offset is read before startExpression has written it.  If the
\* document has no expression, the read lands in the String Buffer, right
\* behind the vectors, and a string that reaches its second word is taken for
\* an offset outside the block.
StartChildOffset(v, e) ==
  IF e \in DOMAIN v.exprs THEN v.exprs[e].start
  ELSE IF v.strings # <<>> /\ Head(v.strings).text = "longstring"
       THEN Cardinality(DOMAIN v.types)
       ELSE 0

NextArgumentIndex(v) == StartChildOffset(v, Last(v.exprStack)) + Last(v.argIter)

\* make*Argument on the next slot: the tag and the 8 bytes of the argument.
PutArgument(v, type, value) ==
  LET i == NextArgumentIndex(v) IN
  IF i \in DOMAIN v.types
  THEN [v EXCEPT !.types[i] = type, !.args[i] = value, !.argIter[Len(v.argIter)] = @ + 1]
  ELSE [v EXCEPT !.wild = TRUE]

\* Mutant: the header is put one slot early.
resetTypeRLEEarly(v, end) ==
  [v EXCEPT !.types = IF v.run >= RLE_MINIMUM_SIZE
                      THEN setRLEArgumentFlagOrPropagateTypes(@, end - v.run - 1, v.run)
                      ELSE @,
            !.run = 0]

resetTypeRLE(v, end) ==
  [v EXCEPT !.types = IF v.run >= RLE_MINIMUM_SIZE
                      THEN setRLEArgumentFlagOrPropagateTypes(@, end - v.run, v.run)
                      ELSE @,
            !.run = 0]

applyTypeRLE(v, i) ==
  IF options.disableRLE THEN v
  ELSE IF v.run = 0 THEN [v EXCEPT !.run = 1]
  ELSE IF v.types[i - 1] # v.types[i] THEN [resetTypeRLE(v, i) EXCEPT !.run = 1]
  ELSE [v EXCEPT !.run = @ + 1]

\* addLong, addDouble
addNumber(v, type, at) ==
  LET stored == PutArgument(v, type, at)
  IN IF stored.wild THEN stored ELSE applyTypeRLE(stored, NextArgumentIndex(v))

\* addString, addSymbol: the string is stored before the slot is computed.
addText(v, type, text) ==
  LET stored == storeString(v, text)
  IN addNumber(stored, type, <<Len(v.strings)>>)

\* Mutant: an expression does not end the run before it.
addExpressionInRun(v, e) == PutArgument(v, ARGUMENT_TYPE_EXPRESSION, <<e>>)

addExpression(v, e) ==
  LET stored == PutArgument(v, ARGUMENT_TYPE_EXPRESSION, <<e>>)
  IN IF stored.wild THEN stored ELSE resetTypeRLE(stored, NextArgumentIndex(v))

\* Mutant: argumentIteratorStack is not pushed.
startExpressionSameIterator(v, head) ==
  LET e     == v.nextExpr
      added == storeString(addExpression([v EXCEPT !.nextExpr = e + 1], e), head)
  IN IF added.wild \/ e \notin DOMAIN v.exprs \/ v.layer \notin DOMAIN v.cumul
     THEN [added EXCEPT !.wild = TRUE]
     ELSE [added EXCEPT !.exprs[e] = [head |-> Len(v.strings), start |-> v.cumul[v.layer], end |-> 0],
                        !.layer = v.layer + 1,
                        !.exprStack = Append(@, e)]

startExpression(v, head) ==
  LET e     == v.nextExpr
      added == storeString(addExpression([v EXCEPT !.nextExpr = e + 1], e), head)
  IN IF added.wild \/ e \notin DOMAIN v.exprs \/ v.layer \notin DOMAIN v.cumul
     THEN [added EXCEPT !.wild = TRUE]
     ELSE [added EXCEPT !.exprs[e] = [head |-> Len(v.strings), start |-> v.cumul[v.layer], end |-> 0],
                        !.layer = v.layer + 1,
                        !.argIter = Append(@, 0),
                        !.exprStack = Append(@, e)]

\* Mutants: the layer's cursor is not moved past the slice; the run goes on.
endExpressionSameCursor(v) ==
  LET e   == Last(v.exprStack)
      end == v.exprs[e].start + Last(v.argIter)
  IN [resetTypeRLE(v, end) EXCEPT !.exprs[e].end = end,
                                  !.argIter = Front(@),
                                  !.exprStack = Front(@),
                                  !.layer = v.layer - 1]
endExpressionInRun(v) ==
  LET e   == Last(v.exprStack)
      end == v.exprs[e].start + Last(v.argIter)
  IN [v EXCEPT !.exprs[e].end = end,
               !.argIter = Front(@),
               !.exprStack = Front(@),
               !.layer = v.layer - 1,
               !.cumul[v.layer - 1] = end]

endExpression(v) ==
  LET e   == Last(v.exprStack)
      end == v.exprs[e].start + Last(v.argIter)
  IN [resetTypeRLE(v, end) EXCEPT !.exprs[e].end = end,
                                  !.argIter = Front(@),
                                  !.exprStack = Front(@),
                                  !.layer = v.layer - 1,
                                  !.cumul[v.layer - 1] = end]

\* Mutant: the bit stays set.
handleKeyValueEndKeepsBit(v) ==
  IF ~v.wild /\ v.layer \in v.keyValue
  THEN endExpression(v)
  ELSE [v EXCEPT !.wild = @ \/ v.layer \notin DOMAIN v.cumul]

handleKeyValueEnd(v) ==
  IF ~v.wild /\ v.layer \in v.keyValue
  THEN endExpression([v EXCEPT !.keyValue = @ \ {v.layer}])
  ELSE [v EXCEPT !.wild = @ \/ v.layer \notin DOMAIN v.cumul]

(***************************************************************************)
(* First traversal: one action per kind of event, each with its callback.  *)
(***************************************************************************)
Init ==
  /\ options \in Options
  /\ leftover \in {Zeros} \cup (IF options.forceReload THEN Leftovers ELSE {})
  /\ stage = "count" /\ file = <<>> /\ parser = [open |-> <<>>, pending |-> FALSE]
  /\ c = InitCounters /\ seen = <<>>
  /\ pos = 1 /\ csv = [col |-> 0, row |-> 0] /\ w = NoBlock

\* The expressions around the next value: containers, and keys with a value
\* still to come.  A container remembers how many were around it.
Nest(p) ==
  (IF p.open = <<>> THEN 0 ELSE Last(p.open).nest + 1) + (IF p.pending THEN 1 ELSE 0)

Complete == file # <<>> /\ parser = [open |-> <<>>, pending |-> FALSE]
AfterKey == (parser.open # <<>> /\ Last(parser.open).object) => parser.pending

\* The grammar of JSON, and room left to close what is open.
Parse(event, table, p, k) ==
  /\ stage = "count" /\ ~Complete
  /\ file' = Append(file, [event |-> event, table |-> table])
  /\ seen' = Append(seen, [parser |-> parser, c |-> c])
  /\ parser' = p /\ c' = k
  /\ Len(file) + 1 + Len(p.open) + (IF p.pending THEN 1 ELSE 0) <= MaxTokens
  /\ UNCHANGED <<stage, pos, csv, w>>

CountKeyEvent ==
  /\ ~AfterKey
  /\ Parse("key", <<>>, [parser EXCEPT !.pending = TRUE], CountKey(c, Len(parser.open)))

CountStartEvent ==
  \E event \in {"object", "array"} :
    /\ AfterKey /\ Len(parser.open) < MaxDepth
    /\ LET frame == [object |-> event = "object", keyed |-> parser.pending, nest |-> Nest(parser)]
       IN Parse(event, <<>>, [open |-> Append(parser.open, frame), pending |-> FALSE], CountStart(c))

CountEndEvent ==
  /\ parser.open # <<>> /\ ~parser.pending
  /\ Parse("end", <<>>, [parser EXCEPT !.open = Front(@)], CountEnd(c, Len(parser.open) - 1))

CountValueEvent ==
  \E event \in Leaves : \E table \in IF event = "csv" THEN Tables ELSE {<<>>} :
    /\ AfterKey
    /\ Parse(event, table, [parser EXCEPT !.pending = FALSE],
             CountValue(c, Len(parser.open), [event |-> event, table |-> table]))

\* json::parse throws on a malformed rest, openCsvFile on a file it cannot
\* open: nothing is allocated yet.
CountFails ==
  /\ stage = "count" /\ ~Complete
  /\ stage' = "failed"
  /\ UNCHANGED <<file, parser, c, seen, pos, csv, w>>

\* The constructor of JsonToWisent and seekg(0).
Construct ==
  /\ stage = "count" /\ Complete
  /\ stage' = "write" /\ w' = NewWriter(c, leftover)
  /\ UNCHANGED <<file, parser, c, seen, pos, csv>>

(***************************************************************************)
(* Second traversal: one action per SAX handler; a CSV file is read by     *)
(* five, one per stage of the loop in handleCsvFile.                       *)
(***************************************************************************)
Event(events) ==
  /\ stage = "write" /\ ~w.wild /\ pos <= Len(file) /\ csv.col = 0
  /\ file[pos].event \in events

Place == <<pos, csv.col, csv.row>>

HandlerReturns(v) ==
  /\ w' = v
  /\ pos' = pos + 1 /\ csv' = [col |-> 0, row |-> 0]
  /\ UNCHANGED <<stage, file, parser, c, seen>>

\* null, boolean
WriteSymbol ==
  /\ Event({"null", "boolean"})
  /\ HandlerReturns(handleKeyValueEnd(
       addText(w, ARGUMENT_TYPE_SYMBOL, Text(file[pos].event, Place))))

\* number_integer, number_unsigned, number_float
WriteNumber ==
  /\ Event({"integer", "float"})
  /\ HandlerReturns(handleKeyValueEnd(
       addNumber(w, IF file[pos].event = "integer" THEN ARGUMENT_TYPE_LONG ELSE ARGUMENT_TYPE_DOUBLE,
                 Place)))

\* string, when it names no CSV file
WriteString ==
  /\ Event({"string", "longstring", "csv"}) /\ ~IsCsv(file[pos])
  /\ HandlerReturns(handleKeyValueEnd(
       addText(w, ARGUMENT_TYPE_STRING, Text(file[pos].event, Place))))

\* start_object, start_array
WriteStart ==
  /\ Event({"object", "array"})
  /\ HandlerReturns(startExpression(w, Text(file[pos].event, Place)))

\* Mutant: a key whose value is a container is never closed.
WriteEndInKey ==
  /\ Event({"end"})
  /\ HandlerReturns(endExpression(w))

\* end_object, end_array
WriteEnd ==
  /\ Event({"end"})
  /\ HandlerReturns(handleKeyValueEnd(endExpression(w)))

\* key: the bit is set on the layer that startExpression moved to.
WriteKey ==
  /\ Event({"key"})
  /\ LET started == startExpression(w, Text("key", Place))
     IN HandlerReturns([started EXCEPT !.keyValue = @ \cup {started.layer},
                                       !.wild = @ \/ started.layer \notin DOMAIN w.cumul])

HandlerGoesOn(col, row, v) ==
  /\ w' = v
  /\ csv' = [col |-> col, row |-> row]
  /\ UNCHANGED <<stage, file, parser, c, seen, pos>>

Table == file[pos].table
Column == Table[csv.col]
InTable == stage = "write" /\ ~w.wild /\ csv.col > 0

WriteTableStart ==
  /\ Event({"csv"}) /\ IsCsv(file[pos])
  /\ HandlerGoesOn(1, 0, startExpression(w, Text("table", Place)))

\* row - 1 cells of the column are written.
WriteColumnStart ==
  /\ InTable /\ csv.row = 0 /\ csv.col <= Len(Table)
  /\ TypeOfCsvColumn(Column) # "exception"
  /\ HandlerGoesOn(csv.col, 1, startExpression(w, Text("column", Place)))

WriteCell ==
  /\ InTable /\ csv.row > 0 /\ csv.row <= Len(Column)
  /\ HandlerGoesOn(csv.col, csv.row + 1,
       LET T == TypeOfCsvColumn(Column) IN
       IF ConvertCell(T, Column[csv.row]) = "missing"
       THEN addText(w, ARGUMENT_TYPE_SYMBOL, Text("missing", Place))
       ELSE IF T = "int64_t" THEN addNumber(w, ARGUMENT_TYPE_LONG, Place)
       ELSE IF T = "double_t" THEN addNumber(w, ARGUMENT_TYPE_DOUBLE, Place)
       ELSE addText(w, ARGUMENT_TYPE_STRING, Text("cell", Place)))

WriteColumnEnd ==
  /\ InTable /\ csv.row > 0 /\ csv.row > Len(Column)
  /\ HandlerGoesOn(csv.col + 1, 0, endExpression(w))

WriteTableEnd ==
  /\ InTable /\ csv.row = 0 /\ csv.col > Len(Table)
  /\ HandlerReturns(handleKeyValueEnd(endExpression(w)))

\* Out of a column that loads as no type, or whose loading throws.  The tree
\* stays as it is.
WriteFails ==
  /\ InTable /\ csv.row = 0 /\ csv.col <= Len(Table)
  /\ TypeOfCsvColumn(Column) = "exception"
  /\ stage' = "failed"
  /\ UNCHANGED <<file, parser, c, seen, pos, csv, w>>

Finish ==
  /\ stage = "write" /\ ~w.wild /\ pos > Len(file)
  /\ stage' = "done"
  /\ UNCHANGED <<file, parser, c, seen, pos, csv, w>>

\* load has returned, or has thrown, or has left defined behaviour.
Returned ==
  /\ stage \in {"done", "failed"} \/ w.wild
  /\ UNCHANGED <<stage, file, parser, c, seen, pos, csv, w>>

CountNext ==
  \/ CountKeyEvent \/ CountStartEvent \/ CountEndEvent \/ CountValueEvent
  \/ CountFails \/ Construct

WriteNext ==
  \/ WriteSymbol \/ WriteNumber \/ WriteString \/ WriteStart \/ WriteEnd \/ WriteKey
  \/ WriteTableStart \/ WriteColumnStart \/ WriteCell \/ WriteColumnEnd \/ WriteTableEnd
  \/ WriteFails \/ Finish

Next == UNCHANGED <<options, leftover>> /\ (CountNext \/ WriteNext \/ Returned)

Spec == Init /\ [][Next]_vars
=============================================================================
